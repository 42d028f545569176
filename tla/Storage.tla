-------------------------------- MODULE Storage --------------------------------
(***************************************************************************)
(* Where a cluster profile keeps models, caches and logs, and what a pod   *)
(* mounts (manifesto/cluster.py).  A path is represented by the mount      *)
(* point it lies under, "explicit" for one the profile spells out.         *)
(*                                                                         *)
(* c.storage is [shared, nvme, host, logs, logs_at, user_root, log_root,   *)
(* cache_root, hf_home]: a shared volume, a local disk, host directories   *)
(* for both caches, a claim for logs, the mount point of that claim, and   *)
(* which of the paths are explicit.                                        *)
(***************************************************************************)
Nowhere == "nowhere"

HfHome(c) ==
  CASE c.storage.hf_home -> "explicit"
    [] ~c.storage.hf_home /\ c.storage.host -> "/var/cache/huggingface"
    [] ~c.storage.hf_home /\ ~c.storage.host /\ c.storage.nvme -> "/mnt/local"
    [] OTHER -> IF c.storage.shared THEN "/mnt/shared" ELSE Nowhere
UserRoot(c) == IF c.storage.user_root THEN "explicit" ELSE "/mnt/shared"
LogRoot(c) ==
  IF c.storage.log_root THEN "explicit"
  ELSE IF c.storage.logs THEN c.storage.logs_at
  ELSE IF c.storage.shared THEN UserRoot(c) ELSE Nowhere
CacheRoot(c) ==
  IF c.storage.cache_root THEN "explicit"
  ELSE IF c.storage.host THEN "/var/cache/vllm"
  ELSE IF c.storage.shared THEN "/mnt/shared"
  ELSE IF c.storage.nvme THEN "/mnt/local" ELSE Nowhere

BaseVolumes(c) ==
  IF c.storage.host THEN {"hf-cache", "jit-cache"}
  ELSE (IF c.storage.shared THEN {"shared-storage"} ELSE {})
         \cup (IF c.storage.nvme THEN {"local-nvme"} ELSE {})
BaseMounts(c) ==
  IF c.storage.host THEN {<<"hf-cache", "/var/cache/huggingface">>, <<"jit-cache", "/var/cache/vllm">>}
  ELSE (IF c.storage.shared THEN {<<"shared-storage", "/mnt/shared">>} ELSE {})
         \cup (IF c.storage.nvme THEN {<<"local-nvme", "/mnt/local">>} ELSE {})
LogsMounted(c) == c.storage.logs /\ \A m \in BaseMounts(c) : m[2] # c.storage.logs_at
Volumes(c) == BaseVolumes(c) \cup (IF LogsMounted(c) THEN {"logs"} ELSE {})
VolumeMounts(c) == BaseMounts(c) \cup (IF LogsMounted(c) THEN {<<"logs", c.storage.logs_at>>} ELSE {})

\* The pod's own cache volume (render_workload), and where resolve_role puts
\* the writable caches: with the pod of a Deployment, else on the cache root.
\* Mutant: only a shared volume needs the cache of the pod.
PodCache_Shared(c, kind) == c.storage.shared /\ kind = "Deployment"
PodCache(c, kind) == CacheRoot(c) # Nowhere /\ kind = "Deployment"
PodVolumes(c, kind) == Volumes(c) \cup (IF PodCache(c, kind) THEN {"pod-jit-cache"} ELSE {})
PodMounts(c, kind) ==
  VolumeMounts(c)
    \cup (IF PodCache(c, kind) THEN {<<"pod-jit-cache", "/var/cache/manifesto-pod">>} ELSE {})
WritableCaches(c, kind) ==
  IF CacheRoot(c) # Nowhere /\ c.platform # "slurm" /\ kind = "Deployment"
  THEN "/var/cache/manifesto-pod" ELSE CacheRoot(c)

-----------------------------------------------------------------------------
\* A profile with host directories for its caches mounts nothing else, so its
\* logs must not go to a shared volume that it also declares.
LogsAreReachable(c) ==
  c.storage.host /\ c.storage.shared =>
    c.storage.log_root \/ c.storage.logs \/ c.storage.user_root

\* Every path the pod is told to use is mounted from a volume it has.
PathsAreMounted(c, kind) ==
  /\ \A m \in PodMounts(c, kind) : m[1] \in PodVolumes(c, kind)
  /\ \A path \in {HfHome(c), LogRoot(c), WritableCaches(c, kind)} \ {"explicit", Nowhere} :
       \E m \in PodMounts(c, kind) : m[2] = path
=============================================================================
