---------------------------- MODULE LiberoProcess ----------------------------
(***************************************************************************)
(* Programs over libero_mjx, of which one is followed into its run: the    *)
(* calls that patch the mujoco_warp sources, the import, and the lookups   *)
(* of a kernel that is built and looked up while the program runs.         *)
(***************************************************************************)
EXTENDS RenderPatch, WarpKernels

CONSTANT Self   \* the process whose kernel is followed

ASSUME SelfAssumption == Self \in Procs

ProcessTypeOK == TypeOK /\ KernelTypeOK

ProcessInit == Init /\ KernelInit

\* The process ends, by itself or killed, and its kernels with it.
Ends == pc[Self] # "idle" /\ pc'[Self] = "idle"

Sources == Next /\ IF Ends THEN Restart ELSE UNCHANGED kernelVars

Kernels == pc[Self] = "run" /\ KernelStep /\ UNCHANGED vars

ProcessNext == Sources \/ Kernels

ProcessSpec == ProcessInit /\ [][ProcessNext]_<<vars, kernelVars>>
=============================================================================
