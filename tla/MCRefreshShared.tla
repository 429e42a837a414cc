------------------------- MODULE MCRefreshShared -------------------------
(* Two instances in one run: two users who share what they refresh and create no
   reminder meanwhile, and one user on her own who also creates reminders.         *)
EXTENDS WatchRefresh, TLC

CONSTANTS u1, u2, p1,
          Together,  \* how many events the two users meet
          Alone      \* how many events and created reminders the one user meets

VARIABLE single  \* the user who is on her own, or "nobody"

MCUserSymmetry == Permutations({u1, u2})

Rests(u) == rule[u] = {} /\ ~Busy(<<u, "job">>) /\ ~Busy(<<u, "api">>)

OthersRest == single \in Users => \A u \in Users \ {single} : Rests(u)

Met == (Openings - left.openings) + (Events - left.events)

\* The two users' accounts are enabled; her own may be paused.
MCInit ==
    /\ Init /\ single \in Users \cup {"nobody"} /\ OthersRest
    /\ Users \ refreshEnabled \subseteq {single}

MCNext ==
    /\ Next /\ UNCHANGED single
    /\ OthersRest'
    /\ IF single = "nobody" THEN UNCHANGED left.openings /\ Met' <= Together
                            ELSE Met' <= Alone

MCSpec == MCInit /\ [][MCNext]_<<vars, single>>

MCFairSpec == MCSpec /\ Fairness
=============================================================================
