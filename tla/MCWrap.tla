--------------------------------- MODULE MCWrap ---------------------------------
(***************************************************************************)
(* The two places where the kernel orders numbers that wrap: the pids of   *)
(* get_pid, and the strides of the stride class.  `part' says which one a  *)
(* behaviour is about.                                                     *)
(***************************************************************************)
EXTENDS PidAlloc, Integers

CONSTANTS Proc, initproc, idleproc, NULL, W, Priority    \* of Stride

\* BIG_STRIDE is half of W, less one, and no priority is larger.
ASSUME WrapAssumption ==
    /\ W \in Nat /\ W % 2 = 0 /\ W > 2 /\ Priority \subseteq 0..(W \div 2 - 1)
    /\ initproc \in Proc /\ {idleproc, NULL} \cap Proc = {}

VARIABLES part, current, state, lab6_stride, lab6_priority, lab6_run_pool

strideVars == <<current, state, lab6_stride, lab6_priority, lab6_run_pool>>
wrapVars   == <<part, pidVars, strideVars>>

Stride == INSTANCE Stride

WrapInit == part \in {"pid", "stride"} /\ PidInit /\ Stride!Init

WrapNext ==
    \/ part = "pid" /\ PidNext /\ UNCHANGED <<part, strideVars>>
    \/ part = "stride" /\ Stride!Next /\ UNCHANGED <<part, pidVars>>

\* get_pid goes on, as in FairPidSpec; slices end.
WrapSpec ==
    /\ WrapInit /\ [][WrapNext]_wrapVars
    /\ WF_pidVars((\E q \in todo : Visit(q)) \/ Return)
    /\ WF_strideVars(part = "stride" /\ Stride!Clock)

\* The root of the heap is the process with the least stride.
LeastFirst == Stride!LeastFirst

\* Strides within BIG_STRIDE of each other stay so until somebody joins.
SpreadKept == Stride!SpreadKept

\* Every queued process runs, once nobody joins any more.
NobodyStarves == part = "stride" => Stride!NobodyStarves

=============================================================================
