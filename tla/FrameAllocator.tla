--------------------------- MODULE FrameAllocator ---------------------------
(***************************************************************************)
(* What a physical frame allocator promises its callers, with no bitmap,   *)
(* no counter and no search order: a frame is either in the pool or held   *)
(* by exactly one caller, an allocation fails only when the pool is empty, *)
(* and freeing returns the frame to the pool.  Pmm implements it.          *)
(***************************************************************************)

CONSTANTS
  Frames,     \* the frame numbers an allocator can manage
  NoFrame     \* the answer to an allocation that fails

VARIABLES
  pool,       \* frames that can be handed out
  held,       \* frames handed out and not yet given back
  ret         \* the answer to the last allocation

vars == <<pool, held, ret>>

TypeOK ==
  /\ pool \subseteq Frames
  /\ held \subseteq Frames
  /\ ret \in Frames \cup {NoFrame}

Init ==
  /\ pool = {}
  /\ held = {}
  /\ ret = NoFrame

\* The frames found at boot become available, once.
Provide ==
  /\ pool = {} /\ held = {}
  /\ pool' \in SUBSET Frames
  /\ UNCHANGED <<held, ret>>

\* A frame is handed out; which one is the allocator's choice.
Allocate(f) ==
  /\ f \in pool
  /\ pool' = pool \ {f}
  /\ held' = held \cup {f}
  /\ ret' = f

\* The allocator may refuse only when it has nothing left.
Refuse ==
  /\ pool = {}
  /\ ret' = NoFrame
  /\ UNCHANGED <<pool, held>>

Release(f) ==
  /\ f \in held
  /\ pool' = pool \cup {f}
  /\ held' = held \ {f}
  /\ UNCHANGED ret

Next ==
  \/ Provide
  \/ \E f \in Frames : Allocate(f) \/ Release(f)
  \/ Refuse

Spec == Init /\ [][Next]_vars

\* No frame is at once in the pool and in a caller's hands.
Exclusive == pool \cap held = {}
=============================================================================
