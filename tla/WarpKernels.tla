----------------------------- MODULE WarpKernels -----------------------------
(***************************************************************************)
(* libero_mjx/warp_kernel_patch.py: the lookup of a nested kernel in the   *)
(* modules of one process.  Warp is external: it builds a module for each  *)
(* block_dim, under the name <key>_<hash> that the kernel has then, and    *)
(* building may change the hash.  The wrapper of get_kernel_hooks recovers *)
(* the name a module was built with from its metadata.                     *)
(***************************************************************************)
EXTENDS Naturals

CONSTANTS
  BlockDims,  \* block_dim variants of the module
  Hashes,     \* hashes the kernel may have
  NoName      \* no name is set

ASSUME KernelAssumption == NoName \notin Hashes

VARIABLES
  hash,      \* of the live kernel
  cached,    \* kernel._mangled_name, in Warp versions that keep one
  saved,     \* saved_cached_name of the lookup being made
  override,  \* get_mangled_name of the instance, set by the wrapper
  meta,      \* per block_dim, the name the kernel was built under, and
             \* whether the module has other kernels under the key
  looking,   \* the module of the lookup being made
  given      \* history: cached as Warp itself left it

kernelVars == <<hash, cached, saved, override, meta, looking, given>>

Names == Hashes \cup {NoName}
NotBuilt == [name |-> NoName, others |-> FALSE]

KernelTypeOK ==
  /\ hash \in Hashes
  /\ {cached, saved, override, given} \subseteq Names
  /\ meta \in [BlockDims -> [name : Names, others : BOOLEAN]]
  /\ looking \subseteq BlockDims

Unbuilt == [b \in BlockDims |-> NotBuilt]

\* A process that has just started.
KernelInit ==
  /\ hash \in Hashes
  /\ cached = NoName /\ saved = NoName /\ override = NoName /\ given = NoName
  /\ meta = Unbuilt
  /\ looking = {}

-----------------------------------------------------------------------------
\* get_mangled_name.
MangledName ==
  IF override # NoName THEN override
  ELSE IF cached # NoName THEN cached ELSE hash

\* The kernel is declared, or built for one more block_dim: a version of Warp
\* that keeps the name may keep it or take the new one.
Rename ==
  /\ hash' \in Hashes
  /\ given' \in {cached, hash'}
  /\ cached' = given'

Restart ==
  /\ hash' = hash
  /\ cached' = NoName /\ saved' = NoName /\ override' = NoName /\ given' = NoName
  /\ meta' = Unbuilt
  /\ looking' = {}

Build(b) ==
  /\ looking = {} /\ meta[b] = NotBuilt
  /\ \E others \in BOOLEAN :
       meta' = [meta EXCEPT ![b] = [name |-> MangledName, others |-> others]]
  /\ Rename
  /\ UNCHANGED <<saved, override, looking>>

\* _resolve_built_name: the only name under the key, where the kernel's own is
\* missing and no other kernel has the key.
BuiltName(b) ==
  IF meta[b].name = MangledName \/ meta[b].others THEN NoName ELSE meta[b].name

Enter(b) ==
  /\ looking = {} /\ meta[b] # NotBuilt
  /\ looking' = {b}
  /\ saved' = cached
  /\ override' = BuiltName(b)
  /\ cached' = IF BuiltName(b) # NoName /\ cached # NoName
               THEN BuiltName(b) ELSE cached
  /\ UNCHANGED <<hash, meta, given>>

\* The original lookup finds the name in the module's metadata, or raises.
Fails(b) == MangledName # meta[b].name

\* The finally clause, whether it returned or raised.
Restored_Kept == cached
Restored == saved
Leave ==
  /\ looking # {}
  /\ looking' = {}
  /\ override' = NoName
  /\ cached' = Restored
  /\ saved' = NoName
  /\ UNCHANGED <<hash, meta, given>>

KernelStep == Leave \/ \E b \in BlockDims : Build(b) \/ Enter(b)

-----------------------------------------------------------------------------
\* A lookup fails only in a module that was built with several kernels under
\* the key, none of them under the name Warp gave this one, whichever other
\* modules were built and looked into before.
GivenName == IF given # NoName THEN given ELSE hash
KernelFound ==
  \A b \in looking :
    Fails(b) => meta[b].others /\ GivenName # meta[b].name
=============================================================================
