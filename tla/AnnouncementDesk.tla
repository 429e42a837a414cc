-------------------------- MODULE AnnouncementDesk --------------------------
(***************************************************************************)
(* The editor of announcements in the administration: the list with its    *)
(* filter, the form of one announcement, and the dialog that confirms what *)
(* is done to it.  Every change names the version the form was loaded      *)
(* with, and the backend refuses one that names another; administrators    *)
(* elsewhere change the same announcements.                                *)
(***************************************************************************)
EXTENDS HttpCalls

CONSTANTS
    Posts,      \* announcements there may be
    DeskSteps   \* bound: requests and visits of the administrator, changes elsewhere

Texts == 1..2

\* What is stored of an announcement.  A deleted one stands for its identifier, which is random
\* and never given to another.
Rows == [status : {"draft", "published", "ended", "withdrawn", "deleted"}, text : Texts, version : Nat,
         reminder : Nat]

ASSUME DeskAssumption ==
    /\ IsFiniteSet(Posts) /\ Posts # {} /\ DeskSteps \in Nat
    /\ "new" \notin Posts /\ None \notin Posts \cup {"new"} /\ None \notin Rows

VARIABLES
    posts,      \* the backend: the row of each announcement, None for one there never was
    at,         \* the address: None for the list, "new" or an announcement
    postFilter,     \* the status the list is asked for
    listedPosts,\* the list that is shown, None before the first
    selected,   \* the announcement that is shown, None while there is none
    draft,      \* the form: [of, text, version]
    confirm,    \* None or what the dialog asks for
    deskBusy,   \* busy and its lock: a change waits for its answer
    deskError,
    deskCalls, deskSteps,
    deskSure    \* ghost: nothing was changed since the page asked for what it shows

deskVars == <<posts, at, postFilter, listedPosts, selected, draft, confirm, deskBusy, deskError,
              deskCalls, deskSteps, deskSure>>

Blank == [of |-> "new", text |-> 1, version |-> 0]

NewPost(text) == [status |-> "draft", text |-> text, version |-> 1, reminder |-> 1]

\* What the effect asks for.
Asking(address, state) ==
    IF address = None THEN [op |-> "list", filter |-> state, left |-> FALSE, answer |-> Unanswered]
    ELSE [op |-> "post", id |-> address, left |-> FALSE, answer |-> Unanswered]

DeskLoads == {"list", "post"}
DeskChanges == {"save", "remind", "publish", "withdraw", "delete", "copy"}

\* The page is opened at its list, or by the address of an announcement.
DeskInit ==
    /\ LET first == CHOOSE p \in Posts : TRUE IN
       /\ \E status \in {"draft", "published", "ended"} :
             posts = [p \in Posts |-> IF p = first THEN [NewPost(1) EXCEPT !.status = status] ELSE None]
       /\ at \in {None, first}
    /\ postFilter = "" /\ listedPosts = None /\ selected = None /\ draft = Blank
    /\ confirm = None /\ deskBusy = FALSE /\ deskError = FALSE
    /\ deskCalls = Begin(NoCalls, Asking(at, ""))
    /\ deskSteps = 0 /\ deskSure = TRUE

DeskStep == deskSteps < DeskSteps /\ deskSteps' = deskSteps + 1

-----------------------------------------------------------------------------
(* The effect: the epoch moves on, so that nobody listens to the requests of what was
   shown before; the new request is that of the address.                               *)

Orphaned(calls) == [s \in Slots |-> IF calls[s].op = "idle" THEN calls[s]
                                    ELSE [calls[s] EXCEPT !.left = TRUE]]

ShowDesk(next, state, calls) ==
    LET old == Orphaned(calls) IN
    /\ at' = next /\ postFilter' = state
    /\ selected' = None /\ confirm' = None /\ deskError' = FALSE /\ deskSure' = TRUE
    /\ IF next = "new" THEN draft' = Blank /\ deskCalls' = old
       ELSE /\ Free(old) # {} /\ UNCHANGED draft
            /\ deskCalls' = Begin(old, Asking(next, state))

Hears(ops) == {s \in Waiting(deskCalls, ops) : ~deskCalls[s].left}

DeskQuiet == Hears(DeskLoads) = {}

Browse(next, state) ==
    /\ confirm = None /\ DeskStep
    /\ ShowDesk(next, state, deskCalls)
    /\ UNCHANGED <<posts, listedPosts, deskBusy>>

NewAnnouncement == at = None /\ Browse("new", postFilter)

OpenPost(p) == at = None /\ DeskQuiet /\ listedPosts # None /\ p \in listedPosts /\ Browse(p, postFilter)

FilterPosts(state) == at = None /\ state # postFilter /\ Browse(None, state)

\* The button waits for a change, the browser's own does not, and takes a dialog with it.
LeavePost ==
    /\ at # None /\ DeskStep
    /\ ShowDesk(None, postFilter, deskCalls)
    /\ UNCHANGED <<posts, listedPosts, deskBusy>>

ReloadDesk == deskError /\ ~deskBusy /\ Browse(at, postFilter)

\* faulty: the request of what was shown before is heard too
HearsAll(call) == TRUE

StillShown(call) == ~call.left

LandDesk(s) ==
    LET call == deskCalls[s]
        row == call.answer.body
    IN
    /\ call.op \in DeskLoads /\ call.answer # Unanswered
    /\ deskCalls' = End(deskCalls, s)
    /\ IF ~StillShown(call) THEN UNCHANGED <<listedPosts, selected, draft, deskError>>
       ELSE CASE ~Succeeds(call) -> deskError' = TRUE /\ UNCHANGED <<listedPosts, selected, draft>>
              [] Succeeds(call) /\ call.op = "list" ->
                     listedPosts' = row /\ UNCHANGED <<selected, draft, deskError>>
              [] OTHER -> /\ selected' = row
                          /\ draft' = [of |-> call.id, text |-> row.text, version |-> row.version]
                          /\ UNCHANGED <<listedPosts, deskError>>
    /\ UNCHANGED <<posts, at, postFilter, confirm, deskBusy, deskSteps, deskSure>>

-----------------------------------------------------------------------------
(* The form *)

HasForm == at # None /\ DeskQuiet /\ (at = "new" \/ selected # None)

ReadOnly == selected # None /\ selected.status \in {"ended", "withdrawn"}

EditPost(text) ==
    /\ HasForm /\ confirm = None /\ ~deskBusy /\ ~ReadOnly /\ text # draft.text
    /\ draft' = [draft EXCEPT !.text = text]
    /\ UNCHANGED <<posts, at, postFilter, listedPosts, selected, confirm, deskBusy, deskError, deskCalls,
                   deskSteps, deskSure>>

\* What the buttons below the form offer to confirm.
Offers == CASE selected = None -> {}
            [] selected.status = "draft" -> {"publish", "delete"}
            [] selected.status = "published" -> {"remind", "withdraw"}
            [] OTHER -> {}

AskConfirm(action) ==
    /\ HasForm /\ confirm = None /\ ~deskBusy /\ action \in Offers
    /\ confirm' = action
    /\ UNCHANGED <<posts, at, postFilter, listedPosts, selected, draft, deskBusy, deskError, deskCalls,
                   deskSteps, deskSure>>

CloseConfirm ==
    /\ confirm # None /\ ~deskBusy /\ confirm' = None
    /\ UNCHANGED <<posts, at, postFilter, listedPosts, selected, draft, deskBusy, deskError, deskCalls,
                   deskSteps, deskSure>>

\* faulty: the lock is that of what is shown
ForgetsOrphans == Hears(DeskChanges) = {}

NoChangeWaits == ~deskBusy

\* mutate: what it sends is what the form held; saw is a ghost, what the page showed.
MutatePost(action) ==
    /\ HasForm /\ NoChangeWaits /\ DeskStep /\ Free(deskCalls) # {}
    /\ deskBusy' = TRUE /\ deskError' = FALSE
    /\ deskCalls' = Begin(deskCalls, [op |-> action, id |-> at, text |-> draft.text,
                                      version |-> draft.version, saw |-> selected, left |-> FALSE,
                                      answer |-> Unanswered])
    /\ UNCHANGED <<posts, at, postFilter, listedPosts, selected, draft, confirm, deskSure>>

SaveDraft == confirm = None /\ ~ReadOnly /\ MutatePost("save")

Confirmed == confirm # None /\ MutatePost(confirm)

\* A copy is a new draft with what an announcement says that can be changed no more.
CopyAsDraft == confirm = None /\ ReadOnly /\ MutatePost("copy")

\* faulty: what was saved is not loaded again
ShowsSaved(call) == call.op # "save" \/ call.id = "new"

ReadsBack(call) == TRUE

\* After a change the announcement is loaded again; a new one is opened, a deleted one left.
LandMutation(s) ==
    LET call == deskCalls[s]
        calls == End(deskCalls, s)
        next == CASE call.op = "delete" -> None
                  [] call.op = "copy" \/ call.id = "new" -> call.answer.body
                  [] OTHER -> at
    IN
    /\ call.op \in DeskChanges /\ call.answer # Unanswered
    /\ deskBusy' = FALSE
    /\ IF ~call.left /\ Succeeds(call) /\ ReadsBack(call)
       THEN ShowDesk(next, postFilter, calls)
       ELSE /\ deskCalls' = calls
            /\ deskError' = (deskError \/ (~call.left /\ ~Succeeds(call)))
            /\ confirm' = IF ~call.left /\ Succeeds(call) THEN None ELSE confirm
            /\ deskSure' = (deskSure \/ (~call.left /\ Succeeds(call)))
            /\ UNCHANGED <<at, postFilter, selected, draft>>
    /\ UNCHANGED <<posts, listedPosts, deskSteps>>

-----------------------------------------------------------------------------
(* The backend *)

DeskPages == <<at, postFilter, listedPosts, selected, draft, confirm, deskBusy, deskError>>

\* faulty: a change of any version is stored
AnyVersionOf(row, version) == TRUE

SameVersionOf(row, version) == row.version = version

Allows(row, action) ==
    CASE action \in {"save", "remind"} -> row.status \in {"draft", "published"}
      [] action \in {"publish", "delete"} -> row.status = "draft"
      [] action = "withdraw" -> row.status \in {"published", "ended"}

\* SaveAnnouncement
Changed(row, call) ==
    LET next == [row EXCEPT !.version = @ + 1] IN
    CASE call.op = "publish" -> [next EXCEPT !.status = "published"]
      [] call.op = "withdraw" -> [next EXCEPT !.status = "withdrawn"]
      [] call.op = "delete" -> [next EXCEPT !.status = "deleted"]
      [] call.op = "save" -> [next EXCEPT !.text = call.text]
      [] call.op = "remind" -> [next EXCEPT !.text = call.text,
                                            !.reminder = @ + (IF row.status = "published" THEN 1 ELSE 0)]

\* It was made and is not deleted.
Kept(p) == posts[p] # None /\ posts[p].status # "deleted"

PostsMatching(state) == {p \in Posts : Kept(p) /\ (state = "" \/ posts[p].status = state)}

TellDesk(s, answer) ==
    /\ deskCalls[s].answer = Unanswered
    /\ deskCalls' = [deskCalls EXCEPT ![s].answer = answer]
    /\ UNCHANGED <<DeskPages, deskSteps>>

StorePost(s, p, row) ==
    /\ posts' = [posts EXCEPT ![p] = row] /\ deskSure' = FALSE
    /\ TellDesk(s, Ok(p))

ServeDesk(s) ==
    LET call == deskCalls[s] IN
    /\ s \in Busy(deskCalls)
    /\ \/ call.op = "list" /\ TellDesk(s, Ok(PostsMatching(call.filter))) /\ UNCHANGED <<posts, deskSure>>
       \/ /\ call.op = "post" /\ Kept(call.id)
          /\ TellDesk(s, Ok(posts[call.id])) /\ UNCHANGED <<posts, deskSure>>
       \/ /\ call.op \in DeskChanges /\ (call.op = "copy" \/ call.id = "new")
          /\ \E p \in Posts : posts[p] = None /\ StorePost(s, p, NewPost(call.text))
       \/ /\ call.op \in DeskChanges \ {"copy"} /\ call.id # "new" /\ posts[call.id] # None
          /\ SameVersionOf(posts[call.id], call.version) /\ Allows(posts[call.id], call.op)
          /\ StorePost(s, call.id, Changed(posts[call.id], call))

RefuseDesk(s) ==
    s \in Busy(deskCalls) /\ TellDesk(s, Refused("conflict")) /\ UNCHANGED <<posts, deskSure>>

LoseDeskAnswer(s) ==
    /\ s \in Busy(deskCalls) /\ deskCalls[s].answer # Lost
    /\ deskCalls' = LoseAnswer(deskCalls, s)
    /\ UNCHANGED <<posts, DeskPages, deskSteps, deskSure>>

\* Another administrator, and the end of what an announcement is shown for.
ChangePostElsewhere(p, action, text) ==
    /\ DeskStep /\ posts[p] # None /\ Allows(posts[p], action)
    /\ posts' = [posts EXCEPT ![p] = Changed(posts[p], [op |-> action, text |-> text])]
    /\ deskSure' = FALSE
    /\ UNCHANGED <<DeskPages, deskCalls>>

PostEnds(p) ==
    /\ DeskStep /\ posts[p] # None /\ posts[p].status = "published"
    /\ posts' = [posts EXCEPT ![p].status = "ended"] /\ deskSure' = FALSE
    /\ UNCHANGED <<DeskPages, deskCalls>>

-----------------------------------------------------------------------------
DeskNext ==
    \/ NewAnnouncement \/ LeavePost \/ ReloadDesk \/ CloseConfirm
    \/ \E state \in {"", "draft"} : FilterPosts(state)
    \/ \E text \in Texts : EditPost(text)
    \/ \E action \in DeskChanges : AskConfirm(action)
    \/ SaveDraft \/ Confirmed \/ CopyAsDraft
    \/ \E p \in Posts : \/ OpenPost(p) \/ PostEnds(p)
                        \/ \E action \in DeskChanges \ {"copy"}, text \in Texts :
                              ChangePostElsewhere(p, action, text)
    \/ \E s \in Slots : \/ LandDesk(s) \/ LandMutation(s)
                        \/ ServeDesk(s) \/ RefuseDesk(s) \/ LoseDeskAnswer(s)

DeskSpec == DeskInit /\ [][DeskNext]_deskVars

-----------------------------------------------------------------------------
\* A change waits exactly as long as its button does, also when the page went elsewhere
\* meanwhile: two changes never overtake each other (admin-announcements.tsx:123-173).
OneDeskChange ==
    Cardinality(Waiting(deskCalls, DeskChanges)) = IF deskBusy THEN 1 ELSE 0

\* The form belongs to the announcement of the address and to the version that is shown: it
\* is never saved over another one (admin-announcements.tsx:90-101, 131-157).
FormIsOfAddress ==
    HasForm => /\ draft.of = at
               /\ selected # None => draft.version = selected.version
               /\ selected = None => draft.version = 0

\* What is done to an announcement is done to the one that was shown: nothing another
\* administrator did meanwhile is overwritten, published, withdrawn or deleted unseen
\* (admin-announcements.tsx:132-157, announcements.go:44-46).
ChangesWhatWasShown ==
    [][\A s \in Slots :
          LET call == deskCalls[s] IN
          /\ call.op \in DeskChanges \ {"copy"} /\ call.answer = Unanswered
          /\ deskCalls'[s].op = call.op /\ deskCalls'[s].answer.kind = "ok"
          => \/ call.saw = None /\ call.id = "new"
             \/ call.saw # None /\ posts[call.id].text = call.saw.text
                                /\ posts[call.id].version = call.saw.version]_deskVars

\* What the desk shows is stored, when its own change was the last one too
\* (admin-announcements.tsx:73-122, 159-165).
DeskIsCurrent ==
    deskSure /\ ~deskError /\ Hears(DeskLoads \cup DeskChanges) = {} =>
        CASE at = None -> listedPosts = PostsMatching(postFilter)
          [] at \in Posts -> selected = posts[at]
          [] OTHER -> TRUE
=============================================================================
