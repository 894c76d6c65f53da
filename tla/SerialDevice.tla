---------------------------- MODULE SerialDevice ----------------------------
(***************************************************************************)
(* What HT812Client promises to its callers, whatever its session does:    *)
(* the device serves one caller at a time, in the order they asked, and a  *)
(* turn is over after at most MaxExchanges requests (ht812_client.py,      *)
(* class HT812Client, _post and _get).                                     *)
(***************************************************************************)
EXTENDS Naturals, Sequences, SequencesExt

CONSTANTS Callers, NoCaller, MaxExchanges

VARIABLES
    owner,   \* the caller whose turn it is
    queue,   \* the callers that wait, first come first served
    budget   \* the requests the owner may still make, the current one included

vars == <<owner, queue, budget>>

Init ==
    /\ owner = NoCaller
    /\ queue = <<>>
    /\ budget = 0

\* A caller that neither waits nor has its turn asks for one.
Join(c) ==
    /\ c # owner
    /\ \A i \in 1 .. Len(queue) : queue[i] # c
    /\ queue' = Append(queue, c)
    /\ UNCHANGED <<owner, budget>>

\* The next caller gets its turn and makes its first request.
Grant ==
    /\ owner = NoCaller
    /\ queue # <<>>
    /\ owner' = Head(queue)
    /\ queue' = Tail(queue)
    /\ budget' \in 1 .. MaxExchanges

\* The owner makes another request.
Exchange ==
    /\ owner # NoCaller
    /\ budget' \in 1 .. budget - 1
    /\ UNCHANGED <<owner, queue>>

\* The turn ends; the caller may ask for another at once.
Release ==
    /\ owner # NoCaller
    /\ owner' = NoCaller
    /\ queue' \in {queue, Append(queue, owner)}
    /\ budget' = 0

\* A caller that waits goes away.
Withdraw(c) ==
    /\ \E i \in 1 .. Len(queue) :
          /\ queue[i] = c
          /\ queue' = RemoveAt(queue, i)
    /\ UNCHANGED <<owner, budget>>

Next == \/ \E c \in Callers : Join(c) \/ Withdraw(c)
        \/ Grant \/ Exchange \/ Release

Spec == Init /\ [][Next]_vars

\* A turn that is due is granted, and no turn lasts for ever.
FairSpec == Spec /\ WF_vars(Grant) /\ WF_vars(Exchange \/ Release)
=============================================================================
