--------------------------- MODULE PrincipalsPage ---------------------------
(***************************************************************************)
(* The console's page of the senders' roles                                *)
(* (app/access-control/page.tsx): one list, loaded again when the filter   *)
(* changes and after every edit.  Loads carry no sequence number, and an   *)
(* edit reloads with the filter of the moment it was clicked.              *)
(***************************************************************************)
EXTENDS Naturals, FiniteSets, Functions, TLC

CONSTANTS
    Who,            \* senders
    Fetch,          \* loads that may be on their way at once
    Change          \* edits that may be on their way at once

VARIABLES
    standing,       \* the server's principals: [a subset of Who -> PrincipalRow]
    filter,         \* the filter chosen, "none" until the page is open
    listed,         \* the rows shown
    listError,      \* the last load to end failed and none has begun since
    fetches,        \* [Fetch -> the filter of a load on its way, or "none"]
    changes,        \* [Change -> an edit on its way]
    editing,        \* the sender whose row is open for editing, or "none"
    clean           \* the last load begun was alone and for the filter (history)

principalPageVars == <<standing, filter, listed, listError, fetches, changes, editing, clean>>

Filter == {"all", "active"}
PrincipalRow == [role : {"form_only", "advanced"}, status : {"active", "blocked"}]
Shown == UNION {[S -> PrincipalRow] : S \in SUBSET Who}

NoChange == [at |-> "none", kind |-> "note", who |-> "none", to |-> "active", filter |-> "all"]

\* What the server lists for a filter.
Listed(f) ==
    Restrict(standing, {w \in DOMAIN standing : f = "active" => standing[w].status = "active"})

\* fetchPrincipals of a rendering whose filter was f, begun beside other changes of a step.
FetchPrincipals(f, now) ==
    /\ \E x \in Fetch :
        /\ fetches[x] = "none"
        /\ fetches' = [fetches EXCEPT ![x] = f]
    /\ listError' = FALSE
    /\ clean' = (f = now /\ \A x \in Fetch : fetches[x] = "none")

\* The page opens and loads its list.
OpenPrincipals ==
    /\ filter = "none"
    /\ filter' = "all"
    /\ FetchPrincipals("all", "all")
    /\ UNCHANGED <<standing, listed, changes, editing>>

\* The operator chooses a filter.
ChooseFilter(f) ==
    /\ filter \notin {"none", f}
    /\ filter' = f
    /\ FetchPrincipals(f, f)
    /\ UNCHANGED <<standing, listed, changes, editing>>

\* The answer of a load arrives and is shown, whatever was asked since.  The server is taken
\* to read at that moment: an edit after an earlier reading brings a load of its own.
FetchArrives(x) ==
    /\ fetches[x] # "none"
    /\ listed' = Listed(fetches[x])
    /\ fetches' = [fetches EXCEPT ![x] = "none"]
    /\ UNCHANGED <<standing, filter, listError, changes, editing, clean>>

\* A load fails: the rows stay under the error.
FetchFails(x) ==
    /\ fetches[x] # "none"
    /\ listError' = TRUE
    /\ fetches' = [fetches EXCEPT ![x] = "none"]
    /\ UNCHANGED <<standing, filter, listed, changes, editing, clean>>

\* An edit is sent, from what the row shows.
SendChange(kind, w, to) ==
    /\ \E c \in Change :
        /\ changes[c].at = "none"
        /\ changes' = [changes EXCEPT ![c] = [at |-> "sent", kind |-> kind, who |-> w,
                                              to |-> to, filter |-> filter]]
    /\ UNCHANGED <<standing, filter, listed, listError, fetches, clean>>

\* handleCreate, its button off while one is on its way; a principal that exists is refused.
Create(w) ==
    /\ filter # "none"
    /\ \A c \in Change : changes[c].kind # "create" \/ changes[c].at = "none"
    /\ SendChange("create", w, "active")
    /\ UNCHANGED editing

\* handleRoleChange, on a row that is not being edited, and handleStatusToggle, which the
\* narrow layout offers on that one too.
ChangeRole(w) ==
    /\ w # editing
    /\ w \in DOMAIN listed
    /\ \E role \in {"form_only", "advanced"} \ {listed[w].role} : SendChange("role", w, role)
    /\ UNCHANGED editing

ToggleStatus(w) ==
    /\ w \in DOMAIN listed
    /\ SendChange("status", w, IF listed[w].status = "active" THEN "blocked" ELSE "active")
    /\ UNCHANGED editing

\* startEdit, and cancelEdit and handleSaveEdit of the row while it is listed, of texts the list is not filtered by.
StartEdit(w) ==
    /\ w \in DOMAIN listed
    /\ editing' = w
    /\ UNCHANGED <<standing, filter, listed, listError, fetches, changes, clean>>

CancelEdit ==
    /\ editing \in DOMAIN listed
    /\ editing' = "none"
    /\ UNCHANGED <<standing, filter, listed, listError, fetches, changes, clean>>

SaveEdit ==
    /\ editing \in DOMAIN listed
    /\ \A c \in Change : changes[c].kind # "note" \/ changes[c].at = "none"
    /\ SendChange("note", editing, "active")
    /\ UNCHANGED editing

\* The server's principals after an edit.
Edited(c) ==
    LET w == changes[c].who
        to == changes[c].to
    IN CASE changes[c].kind = "create" ->
                (w :> [role |-> "form_only", status |-> "active"]) @@ standing
         [] changes[c].kind = "role" -> [standing EXCEPT ![w].role = to]
         [] changes[c].kind = "status" -> [standing EXCEPT ![w].status = to]
         [] changes[c].kind = "note" -> standing

\* The server carries an edit out, or refuses it; an answer may be lost after the write.
ServerEdits(c) ==
    /\ changes[c].at = "sent"
    /\ \E stored, answered \in BOOLEAN :
        /\ answered => stored
        /\ stored => (changes[c].kind = "create" <=> changes[c].who \notin DOMAIN standing)
        /\ standing' = IF stored THEN Edited(c) ELSE standing
        /\ changes' = [changes EXCEPT ![c].at = IF answered THEN "stored" ELSE "refused"]
        /\ clean' = (clean /\ (stored => answered))
    /\ UNCHANGED <<filter, listed, listError, fetches, editing>>

\* The answer of an edit arrives: the list is loaded with the filter of the click, and a saved
\* text closes whichever row is open.
EditStored(c) ==
    /\ changes[c].at = "stored"
    /\ changes' = [changes EXCEPT ![c] = NoChange]
    /\ editing' = IF changes[c].kind = "note" THEN "none" ELSE editing
    /\ FetchPrincipals(changes[c].filter, filter)
    /\ UNCHANGED <<standing, filter, listed>>

EditRefused(c) ==
    /\ changes[c].at = "refused"
    /\ changes' = [changes EXCEPT ![c] = NoChange]
    /\ UNCHANGED <<standing, filter, listed, listError, fetches, editing, clean>>

PrincipalPageInit ==
    /\ standing = <<>>
    /\ filter = "none"
    /\ listed = <<>>
    /\ listError = FALSE
    /\ fetches = [x \in Fetch |-> "none"]
    /\ changes = [c \in Change |-> NoChange]
    /\ editing = "none"
    /\ clean = TRUE

PrincipalPageNext ==
    \/ OpenPrincipals
    \/ \E f \in Filter : ChooseFilter(f)
    \/ \E x \in Fetch : FetchArrives(x) \/ FetchFails(x)
    \/ \E w \in Who : Create(w) \/ ChangeRole(w) \/ ToggleStatus(w) \/ StartEdit(w)
    \/ CancelEdit
    \/ SaveEdit
    \/ \E c \in Change : ServerEdits(c) \/ EditStored(c) \/ EditRefused(c)

PrincipalPageSpec == PrincipalPageInit /\ [][PrincipalPageNext]_principalPageVars

PrincipalPageTypeOK ==
    /\ standing \in Shown
    /\ filter \in Filter \cup {"none"}
    /\ listed \in Shown
    /\ listError \in BOOLEAN
    /\ fetches \in [Fetch -> Filter \cup {"none"}]
    /\ changes \in [Change -> [at : {"none", "sent", "stored", "refused"},
                               kind : {"create", "role", "status", "note"},
                               who : Who \cup {"none"},
                               to : {"form_only", "advanced", "active", "blocked"},
                               filter : Filter]]
    /\ editing \in Who \cup {"none"}
    /\ clean \in BOOLEAN

\* With nothing on its way and no error shown, the list is the server's for the filter chosen,
\* unless two loads overlapped, the filter was changed beside an edit, or an edit's answer was
\* lost: what each handler's reload is for.
PrincipalsShownAreCurrent ==
    (/\ clean /\ ~listError
     /\ filter # "none" /\ \A x \in Fetch : fetches[x] = "none"
     /\ \A c \in Change : changes[c].at = "none")
        => listed = Listed(filter)
=============================================================================
