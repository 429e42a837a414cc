------------------------------ MODULE HttpCalls ------------------------------
(***************************************************************************)
(* The requests of the web console.  A handler of a page is an async       *)
(* function: it sends a request, and what follows the await runs when the  *)
(* answer is there, with the values its closure captured when it started.  *)
(* A handler that waits is a record in one of the Slots: its op, what it   *)
(* captured, and the step it waits for.                                    *)
(***************************************************************************)
EXTENDS Naturals, Sequences, FiniteSets, TLC

CONSTANTS Slots,   \* handlers of one page that can wait at the same time
          None     \* null and undefined

ASSUME SlotsAssumption == IsFiniteSet(Slots) /\ Slots # {}

NoCall == [op |-> "idle"]

NoCalls == [s \in Slots |-> NoCall]

Busy(calls) == {s \in Slots : calls[s].op # "idle"}

Free(calls) == Slots \ Busy(calls)

\* The handlers that wait with one of these operations.
Waiting(calls, ops) == {s \in Slots : calls[s].op \in ops}

\* A handler starts in some free slot; which one makes no difference, because free slots
\* are alike: behaviours that differ in the names of the slots only count as one.
SlotSymmetry == Permutations(Slots)

NextSlot(calls) == CHOOSE s \in Free(calls) : TRUE

\* A record of its own fields and of what is said for every one of its kind.
With(own, common) ==
    [f \in DOMAIN own \cup DOMAIN common |-> IF f \in DOMAIN own THEN own[f] ELSE common[f]]

Begin(calls, call) == [calls EXCEPT ![NextSlot(calls)] = call]

End(calls, s) == [calls EXCEPT ![s] = NoCall]

(***************************************************************************)
(* An answer is what request() makes of it: the decoded body, a            *)
(* RequestError that carries the status and the code, or an error without  *)
(* either when the timer aborted the request or the network failed, which  *)
(* hides what the server did.                                              *)
(***************************************************************************)
Ok(body) == [kind |-> "ok", body |-> body]

Refused(code) == [kind |-> "refused", code |-> code]

Lost == [kind |-> "lost"]

Unanswered == [kind |-> "none"]

Answered(calls) == {s \in Busy(calls) : calls[s].answer # Unanswered}

\* The connection breaks or the timer runs out: an answer on its way is lost too.
LoseAnswer(calls, s) == [calls EXCEPT ![s].answer = Lost]
-----------------------------------------------------------------------------
(* What a page shows of the backend is sure after a load that overlapped none of the
   requests whose answers replace it, the writers; one that overlaps is not alone.    *)
Crossed(calls, writers) ==
    [s \in Slots |-> IF calls[s].op \in writers THEN [calls[s] EXCEPT !.alone = FALSE] ELSE calls[s]]

Post(calls, call, writers) ==
    Begin(IF call.op \in writers THEN Crossed(calls, writers) ELSE calls,
          With([answer |-> Unanswered, alone |-> Waiting(calls, writers) = {}], call))

Succeeds(call) == call.answer.kind = "ok"

\* Whether what is shown is sure after this answer.
SureAfter(call, sure, loads) == Succeeds(call) /\ call.alone /\ (call.op \in loads \/ sure)
=============================================================================
