--------------------------- MODULE MCAccountPages ---------------------------
(***************************************************************************)
(* The pages of a user's account, his reminders and notices, and the       *)
(* binding of WxPusher at the backend.  They share the client of the API   *)
(* and nothing else: a behaviour is one of them, and the others stay as    *)
(* they were opened.                                                       *)
(***************************************************************************)
EXTENDS WxPusherBinding, WxPusherCard, ScanBinding, AccountSettings, WatchRules, NotificationInbox

VARIABLE part  \* the part of this behaviour

accountVars == <<part, vars, cardVars, scanVars, settingsVars, watchVars, inboxVars>>

SomeEvents == {CHOOSE e \in Events : TRUE}
SomeRules == {CHOOSE r \in Rules : TRUE}
SomePile == CHOOSE p \in Piles : TRUE

\* One of the initial states of every other part is enough, and one of those that differ
\* by the names of events, rules or piles; the sheet, which no page mounts, has one rule.
MCInit ==
    /\ part \in {"binding", "card", "scan", "settings", "watch", "inbox"}
    /\ Init
    /\ CardInit /\ (part # "card" => wx = NoChannel) /\ (wx.bound => wx.events = SomeEvents)
    /\ ScanInit /\ (scanEnabled /\ bound => host = "settings") /\ (part # "scan" => host = "add" /\ ~bound /\ ~scanEnabled)
    /\ SettingsInit /\ (part # "settings" => stored.bound)
    /\ WatchInit /\ (\A r \in DOMAIN ruleTable : ruleTable[r].pile = SomePile)
       /\ (surface = "sheet" => DOMAIN ruleTable = SomeRules)
       /\ (part # "watch" => ruleTable = <<>> /\ surface = "page")
    /\ InboxInit /\ (part # "inbox" => feed = <<>>)

MCNext ==
    \/ /\ part = "binding" /\ Next
       /\ UNCHANGED <<part, cardVars, scanVars, settingsVars, watchVars, inboxVars>>
    \/ /\ part = "card" /\ CardNext
       /\ UNCHANGED <<part, vars, scanVars, settingsVars, watchVars, inboxVars>>
    \/ /\ part = "scan" /\ ScanNext
       /\ UNCHANGED <<part, vars, cardVars, settingsVars, watchVars, inboxVars>>
    \/ /\ part = "settings" /\ SettingsNext
       /\ UNCHANGED <<part, vars, cardVars, scanVars, watchVars, inboxVars>>
    \/ /\ part = "watch" /\ WatchNext
       /\ UNCHANGED <<part, vars, cardVars, scanVars, settingsVars, inboxVars>>
    \/ /\ part = "inbox" /\ InboxNext
       /\ UNCHANGED <<part, vars, cardVars, scanVars, settingsVars, watchVars>>

MCSpec == MCInit /\ [][MCNext]_accountVars

-----------------------------------------------------------------------------
\* The pages keep their shape: the flow of a scan is mounted in its step of the dialog, the
\* copies of the reminders and of the notices are copies of rows that exist or existed
\* (add-pile-dialog.tsx:221, watch-context.tsx:57-67, notification-context.tsx:68-87).
PagesTypeOK ==
    /\ part = "scan" => ScanTypeOK
    /\ part = "watch" => WatchTypeOK
    /\ part = "inbox" => InboxTypeOK

\* Every spinner, lock and poll of the account's pages belongs to a request that is on its
\* way, and what must not overlap does not, also when a request is given up, a dialog put
\* aside or a page left: what each page locks is said in its module
\* (wxpusher-channel-card.tsx:188-200, yyb-binding-flow.tsx:89-123,
\* add-pile-dialog.tsx:120-162, account-workbench.tsx:235-297,
\* account-security-panel.tsx:54-75, watch-context.tsx:85-113, reminders-page.tsx:112-138,
\* notification-context.tsx:127-155).
PagesLocksAreLive ==
    /\ part = "card" => OnePoll /\ CardLocksAreLive
    /\ part = "scan" => FlowLocksAreLive /\ OneAddition
    /\ part = "settings" => SettingsLocksAreLive
    /\ part = "watch" => OneWatchLoad /\ LocksAreLive
    /\ part = "inbox" => InboxSpinnersAreLive

\* What the account's pages show once nothing is on its way, and nothing overlapped, was
\* lost or came from elsewhere, is what the backend has: the settings of the card, the
\* connection, the other devices; what a scan calls bound was saved for its code, what a
\* confirmation became was asked before it is sent again, and the guide is read once
\* (wxpusher-channel-card.tsx:352-432, account-workbench.tsx:207-336,
\* account-security-panel.tsx:54-84, yyb-binding-flow.tsx:140-214,
\* usage-guide-dialog.tsx:125-189).
AccountIsCurrent ==
    /\ part = "card" => SettingsAreCurrent
    /\ part = "settings" => BindingIsCurrent /\ SessionsAreCurrent /\ GuideIsRead
    /\ part = "scan" => BoundIsSaved /\ ConfirmIsSettled

\* When nothing is on its way and nothing overlapped since the last clean load, the list of
\* the notices and the count of the unread ones are the backend's for the chosen filter,
\* however loads, pages, marks and streamed changes alternated
\* (notification-context.tsx:100-269).
InboxIsExact == part = "inbox" => BadgeIsExact /\ ListIsExact
=============================================================================
