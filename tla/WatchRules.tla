----------------------------- MODULE WatchRules -----------------------------
(***************************************************************************)
(* The reminders of the web console: WatchProvider keeps the rules and the *)
(* overview, RemindersPage and WatchManagementSheet change them, and       *)
(* WatchRuleDialog creates one.  The rules of the backend are a table that *)
(* its scheduler changes too, of which the console learns only by loading. *)
(***************************************************************************)
EXTENDS HttpCalls

CONSTANTS Rules,      \* rules that may exist
          Piles,      \* charging piles of the account
          WatchSteps  \* bound: requests of the page and changes around it

ASSUME WatchAssumption ==
    /\ IsFiniteSet(Rules) /\ Piles # {} /\ WatchSteps \in Nat
    /\ None \notin Rules \cup Piles \cup Nat

VARIABLES
    ruleTable,    \* the rules that exist, with their pile and state
    rules,        \* rulesRef: the copies of the provider
    pileCount,    \* overview.reminderPileCount, None before the first load
    watchLoaded, watchError,
    surface,      \* the component that shows the rules
    dialog,       \* the open WatchRuleDialog
    candidates,   \* the rule a confirmation is open for, by kind
    pendingIds,   \* rules whose change the component waits for
    watchCalls,
    watchSteps,   \* requests and changes that happened
    synced        \* ghost: no change overlapped a load, was lost or came from elsewhere

watchVars == <<ruleTable, rules, pileCount, watchLoaded, watchError, surface, dialog,
               candidates, pendingIds, watchCalls, watchSteps, synced>>

provider == <<rules, pileCount, watchLoaded, watchError>>
controls == <<surface, dialog, candidates, pendingIds>>

Kinds == {"extend", "cancel", "delete"}

NothingOpen == [kind \in Kinds |-> None]

\* createRule, updateRule and deleteRule on the copies: a rule that was not listed is
\* added by a creation, and by a change never.
WithRule(copies, r, copy) ==
    [x \in DOMAIN copies \cup {r} |-> IF x = r THEN copy ELSE copies[x]]

WithChange(copies, r, copy) == [x \in DOMAIN copies |-> IF x = r THEN copy ELSE copies[x]]

Without(copies, r) == [x \in DOMAIN copies \ {r} |-> copies[x]]

\* A temporary rule that is enabled and not completed; a recurring one never is.
IsActive(copy) == copy.state = "active"

\* Piles with an active rule; the backend counts alike.
ReminderPileCount(copies) ==
    Cardinality({copies[r].pile : r \in {x \in DOMAIN copies : IsActive(copies[x])}})

WatchInit ==
    /\ \E old \in SUBSET Rules, p \in Piles, active \in Rules \cup {None} :
          ruleTable = [r \in old |-> [pile |-> p, times |-> 0,
                                     state |-> IF r = active THEN "active" ELSE "recurring"]]
    /\ rules = <<>> /\ pileCount = None /\ watchLoaded = FALSE /\ watchError = FALSE
    /\ surface \in {"page", "sheet"}
    /\ dialog = None /\ candidates = NothingOpen /\ pendingIds = {}
    /\ watchCalls = NoCalls /\ watchSteps = 0
    /\ synced = FALSE

WatchHappens == watchSteps < WatchSteps /\ watchSteps' = watchSteps + 1

SendWatch(call) ==
    /\ WatchHappens /\ Free(watchCalls) # {}
    /\ watchCalls' = Begin(watchCalls, call)

EndWatch(s) == watchCalls' = End(watchCalls, s) /\ UNCHANGED watchSteps

-----------------------------------------------------------------------------
(* Loading: three requests at once, and one load for all who ask *)

\* faulty: every caller starts a load of its own
LoadsAgain == TRUE

\* loadPromiseRef.current is null; otherwise the caller shares the load that waits.
NoLoadWaits == Waiting(watchCalls, {"load"}) = {}

LoadWatch ==
    /\ NoLoadWaits
    /\ SendWatch([op |-> "load", rules |-> None, count |-> None, alone |-> Busy(watchCalls) = {},
                  answer |-> Unanswered])
    /\ watchError' = FALSE
    /\ UNCHANGED <<ruleTable, rules, pileCount, watchLoaded, controls, synced>>

\* The requests of a load are served one by one and answered together.
ServeLoad(s) ==
    LET call == watchCalls[s]
        served == IF call.rules = None THEN [call EXCEPT !.rules = Ok(ruleTable)]
                  ELSE [call EXCEPT !.count = Ok(ReminderPileCount(ruleTable)),
                                    !.answer = Ok(None)]
    IN /\ call.op = "load" /\ call.answer = Unanswered
       /\ watchCalls' = [watchCalls EXCEPT ![s] = served]
       /\ UNCHANGED <<ruleTable, provider, controls, watchSteps, synced>>

LandWatchLoad(s) ==
    LET call == watchCalls[s] IN
    /\ call.op = "load" /\ s \in Answered(watchCalls)
    /\ IF call.answer.kind = "ok"
       THEN /\ rules' = call.rules.body /\ pileCount' = call.count.body
            /\ watchLoaded' = TRUE /\ synced' = call.alone
            /\ UNCHANGED watchError
       ELSE watchError' = TRUE /\ UNCHANGED <<rules, pileCount, watchLoaded, synced>>
    /\ EndWatch(s)
    /\ UNCHANGED <<ruleTable, controls>>

-----------------------------------------------------------------------------
(* Creating a rule *)

\* No dialog covers the component.
RulesUncovered == dialog = None /\ candidates = NothingOpen

\* The page's button needs the overview; the sheet's is for the pile it was opened for.
CreateOffered == surface = "page" => pileCount # None

\* createTarget: a pile, or the first one of the account.
OpenCreate(p) ==
    /\ RulesUncovered /\ CreateOffered
    /\ dialog' = [pile |-> p, saving |-> None, found |-> FALSE]
    /\ UNCHANGED <<ruleTable, provider, surface, candidates, pendingIds, watchCalls,
                   watchSteps, synced>>

\* The dialog can be left while it saves: the request goes on.
CloseCreate ==
    /\ dialog # None /\ dialog' = None
    /\ UNCHANGED <<ruleTable, provider, surface, candidates, pendingIds, watchCalls,
                   watchSteps, synced>>

\* Ghost: a change that starts now disturbs the loads that wait.
Disturb == [s \in Slots |-> IF watchCalls[s].op = "load"
                            THEN [watchCalls[s] EXCEPT !.alone = FALSE] ELSE watchCalls[s]]

SendChange(call) ==
    /\ WatchHappens /\ Free(watchCalls) # {}
    /\ watchCalls' = Begin(Disturb, call)
    /\ synced' = (synced /\ Busy(watchCalls) = {})

\* submit: not while the power is off, which is a clock of the browser.
SubmitCreate ==
    /\ dialog # None /\ dialog.saving = None /\ ~dialog.found
    /\ SendChange([op |-> "create", pile |-> dialog.pile, rule |-> None, answer |-> Unanswered])
    /\ dialog' = [dialog EXCEPT !.saving = NextSlot(watchCalls)]
    /\ UNCHANGED <<ruleTable, provider, surface, candidates, pendingIds>>

\* faulty: the rules change beside the old count
KeepCount(next) == rules' = next /\ UNCHANGED pileCount

\* faulty: an overview that is not loaded gets a count
CountUnloaded(next) == rules' = next /\ pileCount' = ReminderPileCount(next)

\* applyRules: a change of the copies recounts the piles of a loaded overview.
ApplyRules(next) ==
    /\ rules' = next
    /\ pileCount' = IF pileCount = None THEN None ELSE ReminderPileCount(next)

\* An answer to a dialog that was left closes the one that is open now.
LandRule(s) ==
    LET call == watchCalls[s]
        own == dialog # None /\ dialog.saving = s
        leave == dialog' = IF own THEN [dialog EXCEPT !.saving = None] ELSE dialog
    IN /\ call.op = "create" /\ s \in Answered(watchCalls)
       /\ \/ /\ call.answer.kind = "ok" /\ call.answer.body.rule # None
             /\ ApplyRules(WithRule(rules, call.answer.body.rule, call.answer.body.copy))
             /\ dialog' = None /\ UNCHANGED synced
          \/ /\ call.answer.kind = "ok" /\ call.answer.body.rule = None
             /\ dialog' = IF own THEN [dialog EXCEPT !.saving = None, !.found = TRUE] ELSE dialog
             /\ UNCHANGED <<rules, pileCount, synced>>
          \/ /\ call.answer.kind # "ok" /\ leave
             /\ synced' = FALSE /\ UNCHANGED <<rules, pileCount>>
       /\ EndWatch(s)
       /\ UNCHANGED <<ruleTable, watchLoaded, watchError, surface, candidates, pendingIds>>

-----------------------------------------------------------------------------
(* Changing a rule: the page keeps one confirmation and locks it, the sheet *)
(* keeps one of each kind and locks the row it is for.                      *)

\* What the page shows below its tabs.
PageBody ==
    CASE ~NoLoadWaits /\ ~watchLoaded -> "loading"
      [] watchError -> "failed"
      [] rules = <<>> -> "empty"
      [] OTHER -> "list"

\* The buttons of a row of the page; an old recurring rule counts as ended.
PageActions(r) == IF IsActive(rules[r]) THEN {"extend", "cancel"} ELSE {"delete"}

\* The sheet lists the rules beside its error, recurring rules not at all, and
\* disables a row that waits.
SheetActions(r) ==
    CASE r \in pendingIds \/ rules[r].state = "recurring" -> {}
      [] IsActive(rules[r]) -> {"extend", "cancel"}
      [] OTHER -> {"delete"}

Offered(r) ==
    CASE surface = "sheet" -> SheetActions(r)
      [] PageBody = "list" -> PageActions(r)
      [] OTHER -> {}

OpenAction(kind, r) ==
    /\ RulesUncovered /\ r \in DOMAIN rules /\ kind \in Offered(r)
    /\ candidates' = [candidates EXCEPT ![kind] = r]
    /\ UNCHANGED <<ruleTable, provider, surface, dialog, pendingIds, watchCalls,
                   watchSteps, synced>>

\* faulty: the confirmation can be left while its answer is awaited
LeavesAlways == TRUE

\* The page's confirmation is locked while pending, the sheet's is not.
MayLeave == surface = "sheet" \/ pendingIds = {}

LeaveAction(kind) ==
    /\ candidates[kind] # None /\ MayLeave
    /\ candidates' = [candidates EXCEPT ![kind] = None]
    /\ UNCHANGED <<ruleTable, provider, surface, dialog, pendingIds, watchCalls,
                   watchSteps, synced>>

\* apply, confirmExtend, confirmCancel and confirmDelete.
ConfirmAction(kind) ==
    /\ candidates[kind] # None /\ (surface = "page" => pendingIds = {})
    /\ SendChange([op |-> kind, rule |-> candidates[kind], answer |-> Unanswered])
    /\ pendingIds' = pendingIds \cup {candidates[kind]}
    /\ UNCHANGED <<ruleTable, provider, surface, dialog, candidates>>

\* A failed change keeps the confirmation open with its message.
LandAction(s) ==
    LET call == watchCalls[s] IN
    /\ call.op \in Kinds /\ s \in Answered(watchCalls)
    /\ IF call.answer.kind = "ok"
       THEN /\ IF call.op = "delete" THEN ApplyRules(Without(rules, call.rule))
               ELSE ApplyRules(WithChange(rules, call.rule, call.answer.body))
            /\ candidates' = [candidates EXCEPT ![call.op] = None]
            /\ UNCHANGED synced
       ELSE synced' = FALSE /\ UNCHANGED <<rules, pileCount, candidates>>
    /\ pendingIds' = pendingIds \ {call.rule}
    /\ EndWatch(s)
    /\ UNCHANGED <<ruleTable, watchLoaded, watchError, surface, dialog>>

-----------------------------------------------------------------------------
(* The backend *)

Serve(s, answer) ==
    /\ watchCalls' = [watchCalls EXCEPT ![s].answer = answer]
    /\ UNCHANGED <<provider, controls, watchSteps, synced>>

\* A pile has one active rule at most: another one is refused.
StoreRule(s) ==
    LET call == watchCalls[s] IN
    /\ call.op = "create" /\ call.answer = Unanswered /\ call.rule = None
    /\ \A r \in DOMAIN ruleTable : IsActive(ruleTable[r]) => ruleTable[r].pile # call.pile
    /\ \E r \in Rules \ DOMAIN ruleTable :
          /\ ruleTable' = WithRule(ruleTable, r, [pile |-> call.pile, state |-> "active", times |-> 0])
          /\ watchCalls' = [watchCalls EXCEPT ![s].rule = r]
    /\ UNCHANGED <<provider, controls, watchSteps, synced>>

\* Then the opening check: a pile with an idle port needs no rule.
ServeCreate(s) ==
    LET call == watchCalls[s] IN
    /\ call.op = "create" /\ call.answer = Unanswered /\ call.rule \in DOMAIN ruleTable
    /\ \/ /\ ruleTable' = Without(ruleTable, call.rule)
          /\ Serve(s, Ok([rule |-> None, copy |-> None]))
       \/ /\ UNCHANGED ruleTable
          /\ Serve(s, Ok([rule |-> call.rule, copy |-> ruleTable[call.rule]]))

Updated(row, op) ==
    IF op = "cancel" THEN [row EXCEPT !.state = "cancelled"] ELSE [row EXCEPT !.times = @ + 1]

ServeAction(s) ==
    LET call == watchCalls[s] IN
    /\ call.op \in Kinds /\ call.answer = Unanswered /\ call.rule \in DOMAIN ruleTable
    /\ \/ /\ call.op = "delete"
          /\ ruleTable' = Without(ruleTable, call.rule)
          /\ Serve(s, Ok(None))
       \/ /\ call.op # "delete" /\ IsActive(ruleTable[call.rule])
          /\ ruleTable' = [ruleTable EXCEPT ![call.rule] = Updated(@, call.op)]
          /\ Serve(s, Ok(ruleTable'[call.rule]))

\* A refusal, a timeout or a broken connection, before or after it was served.
LoseWatchAnswer(s) ==
    /\ s \in Busy(watchCalls) /\ watchCalls[s].answer # Lost
    /\ watchCalls' = LoseAnswer(watchCalls, s)
    /\ UNCHANGED <<ruleTable, provider, controls, watchSteps, synced>>

\* The scheduler finds a port or the time is over: nothing tells the page.
CompleteRule(r) ==
    /\ r \in DOMAIN ruleTable /\ IsActive(ruleTable[r])
    /\ \E end \in {"notified", "expired"} :
          ruleTable' = [ruleTable EXCEPT ![r].state = end]
    /\ WatchHappens
    /\ watchCalls' = Disturb /\ synced' = FALSE
    /\ UNCHANGED <<provider, controls>>

-----------------------------------------------------------------------------
WatchNext ==
    \/ LoadWatch \/ CloseCreate \/ SubmitCreate
    \/ \E p \in Piles : OpenCreate(p)
    \/ \E kind \in Kinds : LeaveAction(kind) \/ ConfirmAction(kind)
    \/ \E kind \in Kinds, r \in Rules : OpenAction(kind, r)
    \/ \E r \in Rules : CompleteRule(r)
    \/ \E s \in Slots : \/ ServeLoad(s) \/ StoreRule(s) \/ ServeCreate(s) \/ ServeAction(s)
                        \/ LandWatchLoad(s) \/ LandRule(s) \/ LandAction(s)
                        \/ LoseWatchAnswer(s)

WatchSpec == WatchInit /\ [][WatchNext]_watchVars

-----------------------------------------------------------------------------
States == {"active", "recurring", "notified", "expired", "cancelled"}

RuleCopy == [pile : Piles, state : States, times : Nat]

\* The shape of the reminders' state (watch-context.tsx:57-67).
WatchTypeOK ==
    /\ DOMAIN ruleTable \subseteq Rules /\ \A r \in DOMAIN ruleTable : ruleTable[r] \in RuleCopy
    /\ DOMAIN rules \subseteq Rules /\ \A r \in DOMAIN rules : rules[r] \in RuleCopy
    /\ pileCount \in Nat \cup {None} /\ (watchLoaded <=> pileCount # None)
    /\ candidates \in [Kinds -> Rules \cup {None}] /\ pendingIds \subseteq Rules
    /\ dialog # None => dialog.pile \in Piles /\ dialog.saving \in Slots \cup {None}
    /\ \A s \in Slots : watchCalls[s].op \in Kinds \cup {"idle", "load", "create"}

\* All who ask for the rules share one load, so that a late answer of an older
\* load never replaces a newer one (watch-context.tsx:85-113).
OneWatchLoad == Cardinality(Waiting(watchCalls, {"load"})) <= 1

\* With nothing on its way and since nothing overlapped a load, was lost or was
\* done by the scheduler, the copies are the rows of the backend and the count of
\* the overview is the backend's, through every creation, extension, cancellation
\* and deletion (watch-context.tsx:69-148).
RulesMatchBackend ==
    synced /\ Busy(watchCalls) = {} =>
        /\ rules = ruleTable
        /\ pileCount = ReminderPileCount(ruleTable)

\* A row or a dialog is locked only while its request waits, and on the page the
\* confirmation shows the rule whose change is awaited until the answer is there
\* (reminders-page.tsx:112-138, watch-management-sheet.tsx:288-345,
\* watch-rule-dialog.tsx:126-143).
LocksAreLive ==
    /\ \A r \in pendingIds : \E s \in Waiting(watchCalls, Kinds) : watchCalls[s].rule = r
    /\ dialog # None /\ dialog.saving # None => watchCalls[dialog.saving].op = "create"
    /\ surface = "page" =>
          \A s \in Waiting(watchCalls, Kinds) :
             /\ pendingIds = {watchCalls[s].rule}
             /\ candidates = [NothingOpen EXCEPT ![watchCalls[s].op] = watchCalls[s].rule]
=============================================================================
