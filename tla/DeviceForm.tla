----------------------------- MODULE DeviceForm -----------------------------
(***************************************************************************)
(* The form of a router, transmitter or switch: the modal that creates and *)
(* edits devices (ModalCreateEdit*.tsx, useForm.ts), the mutations it      *)
(* sends (api/Routers.tsx and its siblings) and what the server does with  *)
(* them.  The form is filled by an effect when another row object is       *)
(* opened, and emptied by another when a save has succeeded; the saves are *)
(* answered when the user may have closed the form, opened another row or  *)
(* left the screen.  The list has further devices, which nobody touches:   *)
(* DeviceTable has what becomes of the page when it is empty.              *)
(***************************************************************************)
EXTENDS Integers, Sequences, FiniteSets

CONSTANTS
    Ids,              \* the identities that devices have and will have
    Existing,         \* those that are there at first
    Names,
    MaxSaves,         \* bound: how many saves are clicked
    MaxReloads,       \* bound: how often the table is reloaded
    MaxChanges,       \* bound: how often others delete or rename a device
    Blank, Default, Typed, None

VARIABLES
    place,            \* whether the user is on its screen
    server,           \* the devices the server has, None if there is none
    born,             \* history: the identities ever given
    rows,             \* the row objects of the table, with the load that made them
    modal,            \* isCreateEditModalVisible and rowData
    form,             \* formData
    saves,            \* the mutations sent
    latest,           \* the mutation each hook observes, 0 if none
    changes

vars == <<place, server, born, rows, modal, form, saves, latest, changes>>

\* The fields of the forms; a password is checked but not required.
RouterForm == [path |-> "/routers", integration |-> "mikrotik",
               needed |-> {"name", "integration", "ipAddress", "snmpCommunity", "snmpPort"},
               rest |-> {"active", "accessUser", "accessPassword", "description"}]
TransmitterForm == [path |-> "/transmitters", integration |-> "huawei",
                    needed |-> {"name", "integration", "ipAddress", "snmpCommunity", "snmpPort"},
                    rest |-> {"active", "accessUser", "accessPassword", "description"}]
SwitchForm == [path |-> "/switches", integration |-> "huawei",
               needed |-> {"name", "integration", "ipAddress", "snmpCommunity", "snmpPort"},
               rest |-> {"active", "accessUser", "accessPassword", "description"}]

\* The three forms demand the same fields, so that one stands for all of them.
FormAssumption ==
    /\ \A f \in {TransmitterForm, SwitchForm} :
          f.needed = RouterForm.needed /\ f.rest = RouterForm.rest
    /\ Existing \subseteq Ids /\ None \notin Ids
    /\ MaxSaves \in Nat /\ MaxReloads \in Nat /\ MaxChanges \in Nat

\* The fields besides the name as where they come from: a device, the defaults (blank
\* where the form demands something) or the user's typing.
Origins == Ids \cup {Default, Typed}
DefaultForm == [name |-> Blank, needed |-> Default, rest |-> Default]

\* isValid: the required fields are filled and the schema has no complaint.
Valid(f) == f.name # Blank /\ f.needed # Default

NoRow == [id |-> None, load |-> 0, data |-> DefaultForm]
Closed == [visible |-> FALSE, row |-> NoRow]
NothingObserved == [create |-> 0, edit |-> 0]
Present == {d \in Ids : server[d] # None}
Taken(n, d) == \E e \in Present \ {d} : server[e].name = n
-----------------------------------------------------------------------------
\* The row objects of the load number n.
Loaded(n) == [d \in Ids |-> IF server[d] = None THEN NoRow
                            ELSE [id |-> d, load |-> n, data |-> server[d]]]
Loads == UNION {{rows[d].load} : d \in Ids}
LoadNumber == CHOOSE n \in Loads : \A m \in Loads : m <= n

\* The table is reloaded: new row objects; the modal keeps the one it has.
Reload ==
    /\ place = "screen"
    /\ LoadNumber < MaxReloads
    /\ rows' = Loaded(LoadNumber + 1)
    /\ UNCHANGED <<place, server, born, modal, form, saves, latest, changes>>

\* The effect on the row: it fills the form when the object is another one.
Filled(row) == IF row = modal.row THEN form ELSE row.data

OpenCreate ==
    /\ place = "screen" /\ ~modal.visible
    /\ modal' = [visible |-> TRUE, row |-> NoRow]
    /\ form' = Filled(NoRow)
    /\ UNCHANGED <<place, server, born, rows, saves, latest, changes>>

OpenEdit(d) ==
    /\ place = "screen" /\ ~modal.visible
    /\ rows[d] # NoRow
    /\ modal' = [visible |-> TRUE, row |-> rows[d]]
    /\ form' = Filled(rows[d])
    /\ UNCHANGED <<place, server, born, rows, saves, latest, changes>>

\* handleChange, handleSelectChange and handleSwitchChange.
Type ==
    /\ modal.visible
    /\ form' \in {[form EXCEPT !.name = n] : n \in Names}
                 \cup {[form EXCEPT !.needed = Typed], [form EXCEPT !.rest = Typed]}
    /\ UNCHANGED <<place, server, born, rows, modal, saves, latest, changes>>

\* The button in the corner only hides the form.
Close ==
    /\ modal.visible
    /\ modal' = [modal EXCEPT !.visible = FALSE]
    /\ UNCHANGED <<place, server, born, rows, form, saves, latest, changes>>

SaveUnchecked ==      \* mistake: the button is not disabled
    /\ modal.visible
    /\ Len(saves) < MaxSaves
    /\ LET what == IF modal.row = NoRow THEN "create" ELSE "edit"
       IN  /\ saves' = Append(saves, [what |-> what, id |-> modal.row.id, form |-> form,
                                      state |-> "sent"])
           /\ latest' = [latest EXCEPT ![what] = Len(saves) + 1]
    /\ UNCHANGED <<place, server, born, rows, modal, form, changes>>

\* The save button: mutate, of the hook for editing if there is a row.  It stays
\* enabled while a save is on its way.
Save ==
    /\ modal.visible /\ Valid(form)
    /\ Len(saves) < MaxSaves
    /\ LET what == IF modal.row = NoRow THEN "create" ELSE "edit"
       IN  /\ saves' = Append(saves, [what |-> what, id |-> modal.row.id, form |-> form,
                                      state |-> "sent"])
           /\ latest' = [latest EXCEPT ![what] = Len(saves) + 1]
    /\ UNCHANGED <<place, server, born, rows, modal, form, changes>>

\* The user goes to another screen: the state of this one is lost, the saves go on.
LeaveScreen ==
    /\ place = "screen"
    /\ place' = "elsewhere"
    /\ modal' = Closed
    /\ form' = DefaultForm
    /\ latest' = NothingObserved
    /\ rows' = [d \in Ids |-> NoRow]
    /\ UNCHANGED <<server, born, saves, changes>>

Return ==
    /\ place = "elsewhere"
    /\ place' = "screen"
    /\ rows' = Loaded(1)
    /\ UNCHANGED <<server, born, modal, form, saves, latest, changes>>
-----------------------------------------------------------------------------
\* The server.

Refuse(i) == saves' = [saves EXCEPT ![i].state = "refused"]

\* The service looks for another device of that name and, for an edit, for the device.
Check(i) ==
    /\ saves[i].state = "sent"
    /\ IF \/ Taken(saves[i].form.name, saves[i].id)
          \/ saves[i].what = "edit" /\ saves[i].id \notin Present
       THEN Refuse(i)
       ELSE saves' = [saves EXCEPT ![i].state = "checked"]
    /\ UNCHANGED <<place, server, born, rows, modal, form, latest, changes>>

\* The insertion, which the unique index refuses if the name is taken by now.
Insert(i) ==
    /\ saves[i].state = "checked" /\ saves[i].what = "create"
    /\ IF Taken(saves[i].form.name, None)
       THEN Refuse(i) /\ UNCHANGED <<server, born>>
       ELSE \E d \in Ids \ born :
               /\ server' = [server EXCEPT ![d] = saves[i].form]
               /\ born' = born \cup {d}
               /\ saves' = [saves EXCEPT ![i].state = "saved"]
    /\ UNCHANGED <<place, rows, modal, form, latest, changes>>

Upsert(i) ==      \* mistake: the replacement inserts what it does not find
    /\ saves[i].state = "checked" /\ saves[i].what = "edit"
    /\ IF Taken(saves[i].form.name, saves[i].id)
       THEN Refuse(i) /\ UNCHANGED server
       ELSE /\ server' = [server EXCEPT ![saves[i].id] = saves[i].form]
            /\ saves' = [saves EXCEPT ![i].state = "saved"]
    /\ UNCHANGED <<place, born, rows, modal, form, latest, changes>>

\* ReplaceOne, which finds nothing if the device has been deleted since it was looked
\* for, and reports no error.
Replace(i) ==
    /\ saves[i].state = "checked" /\ saves[i].what = "edit"
    /\ IF saves[i].id \in Present /\ Taken(saves[i].form.name, saves[i].id)
       THEN Refuse(i) /\ UNCHANGED server
       ELSE /\ server' = IF saves[i].id \in Present
                         THEN [server EXCEPT ![saves[i].id] = saves[i].form] ELSE server
            /\ saves' = [saves EXCEPT ![i].state = "saved"]
    /\ UNCHANGED <<place, born, rows, modal, form, latest, changes>>

\* Others delete a device, or rename it.
OthersChange(d) ==
    /\ changes < MaxChanges
    /\ d \in Present
    /\ changes' = changes + 1
    /\ \/ server' = [server EXCEPT ![d] = None]
       \/ \E n \in Names : ~Taken(n, d) /\ server' = [server EXCEPT ![d].name = n]
    /\ UNCHANGED <<place, born, rows, modal, form, saves, latest>>
-----------------------------------------------------------------------------
\* The answers.

Settled(i) == [saves EXCEPT ![i].state = "done", ![i].form = DefaultForm]

\* onSuccess navigates to the screen, wherever the user is; the effect of the modal
\* empties and hides the form if its hook still observes this mutation.
Saved(i) ==
    /\ saves[i].state = "saved"
    /\ saves' = Settled(i)
    /\ place' = "screen"
    /\ rows' = IF place = "screen" THEN rows ELSE Loaded(1)
    /\ IF latest[saves[i].what] = i
       THEN /\ form' = DefaultForm
            /\ modal' = [modal EXCEPT !.visible = FALSE]
            /\ latest' = [latest EXCEPT ![saves[i].what] = 0]
       ELSE UNCHANGED <<form, modal, latest>>
    /\ UNCHANGED <<server, born, changes>>

\* onError only tells; the form stays as it is.
Refused(i) ==
    /\ saves[i].state = "refused"
    /\ saves' = Settled(i)
    /\ UNCHANGED <<place, server, born, rows, modal, form, latest, changes>>
-----------------------------------------------------------------------------
\* Whatever different names the devices have that are there at first.
FirstServers ==
    {[d \in Ids |-> IF d \in Existing THEN [name |-> name[d], needed |-> d, rest |-> d] ELSE None] :
        name \in {f \in [Existing -> Names] : \A d, e \in Existing : f[d] = f[e] => d = e}}

Init ==
    /\ place = "screen"
    /\ server \in FirstServers
    /\ born = Existing
    /\ rows = Loaded(1)
    /\ modal = Closed
    /\ form = DefaultForm
    /\ saves = <<>>
    /\ latest = NothingObserved
    /\ changes = 0

Next ==
    \/ Reload \/ OpenCreate \/ Type \/ Close \/ Save \/ LeaveScreen \/ Return
    \/ \E d \in Ids : OpenEdit(d) \/ OthersChange(d)
    \/ \E i \in DOMAIN saves :
          Check(i) \/ Insert(i) \/ Replace(i) \/ Saved(i) \/ Refused(i)

Spec == Init /\ [][Next]_vars
-----------------------------------------------------------------------------
\* Every variable holds a value of its kind, and no save of an invalid form is sent.
TypeOK ==
    /\ place \in {"screen", "elsewhere"}
    /\ form \in [name : Names \cup {Blank}, needed : Origins, rest : Origins]
    /\ server \in [Ids -> [name : Names, needed : Origins, rest : Origins] \cup {None}]
    /\ Present \subseteq born
    /\ modal.visible => place = "screen"
    /\ \A i \in DOMAIN saves : saves[i].state = "done" \/ Valid(saves[i].form)
    /\ \A what \in {"create", "edit"} : latest[what] \in 0..Len(saves)

\* Whatever forms are opened, closed and saved while earlier saves are on their way,
\* no device gets a field of another device: what it has is its own, typed, or default.
NoCrossover ==
    \A d \in Present : server[d].needed \in {d, Typed} /\ server[d].rest \in {d, Default, Typed}

\* A save clicked twice, or by two users at once, makes one device of that name.
NamesUnique ==
    \A d, e \in Present : server[d].name = server[e].name => d = e

\* A device that is deleted while its edit is on its way does not come back.
DeletedStaysDeleted ==
    [][\A d \in born : server[d] = None => server'[d] = None]_vars

\* What the user has typed is taken away only by his going on to another row or screen,
\* or because a save has succeeded: a refused save can be corrected and sent again.
DraftsSurviveErrors ==
    [][place' = place /\ modal'.row = modal.row /\ form' = DefaultForm /\ form # DefaultForm =>
          \/ modal.visible /\ modal'.visible
          \/ \E i \in DOMAIN saves : saves[i].state = "saved" /\ saves'[i].state = "done"]_vars
=============================================================================
