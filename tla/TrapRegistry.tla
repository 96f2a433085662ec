------------------------------ MODULE TrapRegistry ------------------------------
(***************************************************************************)
(* Which device a trap is reported for: the cache of the trap service       *)
(* (snmpTrapService.go) against the three collections of devices.  Nothing  *)
(* holds the two together but the callers: the goroutine that lists the     *)
(* devices after the start (initDependencies.go), and the controllers,      *)
(* which register after they insert and unregister before they delete.      *)
(*                                                                          *)
(* The controllers of transmitters and switches lock copies of the mutex;   *)
(* two writers of the map that meet in it are taken one after the other, or *)
(* Go's runtime ends the process, which Crash stands for.                   *)
(***************************************************************************)
EXTENDS Integers

CONSTANTS
  Ids,          \* identities the database gives devices, none of them twice
  KindOf,       \* the collection each is of: 1 routers, 2 transmitters, 3 switches
  Addresses,
  Requests,     \* requests under way at most
  None, NoId,   \* nothing; the identity of a device that was not inserted
  MaxFaults     \* bound: updates, refusals, failures and crashes

ASSUME RegistryAssumption ==
  /\ KindOf \in [Ids -> 1..3]
  /\ NoId \notin Ids
  /\ MaxFaults \in Nat

VARIABLES
  stored,       \* the collections: the device of each identity, or None
  unborn,       \* identities not given yet
  cache,        \* deviceCache: what is registered for each address, or None
  request,      \* what each request is doing, with the device it has in hand
  listing,      \* the collection the start lists next, 4 when it has listed all
  pending,      \* what it has still to register of those it has listed
  strayed,      \* history: addresses at which two operations met, or one went wrong
  faults

vars == <<stored, unborn, cache, request, listing, pending, strayed, faults>>

Devices == [address : Addresses, active : BOOLEAN]
Registrations == [id : Ids \cup {NoId}, device : Devices]
Idle == [does |-> "nothing"]
Doings == [does : {"register", "unregister", "delete"}, id : Ids, device : Devices]

ASSUME NothingAssumption == None \notin Devices \cup Registrations

TypeOK ==
  /\ stored \in [Ids -> Devices \cup {None}]
  /\ unborn \subseteq Ids
  /\ cache \in [Addresses -> Registrations \cup {None}]
  /\ request \in [Requests -> Doings \cup {Idle}]
  /\ listing \in 1..4
  /\ pending \subseteq Registrations
  /\ strayed \subseteq Addresses
  /\ faults \in 0..MaxFaults

At(a) == {i \in Ids : stored[i] # None /\ stored[i].address = a}

\* The unique indexes are of names only: addresses may be shared.
Shared == {a \in Addresses : \E i, j \in At(a) : i # j}

\* An operation that is under way has address a in hand.
Busy(a) ==
  \/ \E q \in Requests : request[q] # Idle /\ request[q].device.address = a
  \/ \E r \in pending : r.device.address = a

\* A process starts with whatever the collections have.
FirstDevices == [Ids -> Devices \cup {None}]

Init ==
  /\ stored \in FirstDevices
  /\ unborn = {i \in Ids : stored[i] = None}
  /\ cache = [a \in Addresses |-> None]
  /\ request = [q \in Requests |-> Idle]
  /\ listing = 1 /\ pending = {}
  /\ strayed = Shared
  /\ faults = 0

-----------------------------------------------------------------------------
(* The start *)

\* Two seconds later, or more: GetAll of one collection, and the active ones of it.
ListAll ==
  /\ listing < 4 /\ pending = {}
  /\ listing' = listing + 1
  /\ pending' = {[id |-> i, device |-> stored[i]] : i \in
                   {i \in Ids : KindOf[i] = listing /\ stored[i] # None /\ stored[i].active}}
  /\ strayed' = strayed \cup {r.device.address : r \in {r \in pending' : Busy(r.device.address)}}
  /\ UNCHANGED <<stored, unborn, cache, request, faults>>

\* GetAll fails: its error is not looked at, and there is nothing to register.
ListFails ==
  /\ listing < 4 /\ pending = {} /\ faults < MaxFaults
  /\ listing' = listing + 1
  /\ strayed' = strayed \cup {a \in Addresses : \E i \in At(a) : KindOf[i] = listing}
  /\ faults' = faults + 1
  /\ UNCHANGED <<stored, unborn, cache, request, pending>>

\* RegisterDevice.
Registered(r) == cache' = [cache EXCEPT ![r.device.address] = r]

RegisterListed ==
  \E r \in pending :
    /\ Registered(r)
    /\ pending' = pending \ {r}
    /\ UNCHANGED <<stored, unborn, request, listing, strayed, faults>>

-----------------------------------------------------------------------------
(* The requests *)

\* CreateRoteador, up to the insertion.
Insert(q, i, d) ==
  /\ request[q] = Idle /\ i \in unborn
  /\ stored' = [stored EXCEPT ![i] = d]
  /\ unborn' = unborn \ {i}
  /\ request' = [request EXCEPT ![q] = [does |-> "register", id |-> i, device |-> d]]
  /\ strayed' = IF Busy(d.address) \/ At(d.address) # {} THEN strayed \cup {d.address} ELSE strayed
  /\ UNCHANGED <<cache, listing, pending, faults>>

\* CreateRoteador refuses the name.  It registers the device all the same.
RefuseName(d) ==
  /\ faults < MaxFaults
  /\ Registered([id |-> NoId, device |-> d])
  /\ strayed' = strayed \cup {d.address}
  /\ faults' = faults + 1
  /\ UNCHANGED <<stored, unborn, request, listing, pending>>

\* CreateRoteador, after the insertion: active or not, it registers what it inserted.
RegisterCreated(q) ==
  /\ request[q] # Idle /\ request[q].does = "register"
  /\ Registered([id |-> request[q].id, device |-> request[q].device])
  /\ request' = [request EXCEPT ![q] = Idle]
  /\ UNCHANGED <<stored, unborn, listing, pending, strayed, faults>>

UpdateCached(i, d) ==      \* mistake: the registration follows, under its old address
  /\ stored[i] \notin {None, d} /\ faults < MaxFaults
  /\ stored' = [stored EXCEPT ![i] = d]
  /\ cache' = [a \in Addresses |-> IF cache[a] # None /\ cache[a].id = i
                                  THEN [id |-> i, device |-> d] ELSE cache[a]]
  /\ strayed' = strayed \cup {stored[i].address, d.address}
  /\ faults' = faults + 1
  /\ UNCHANGED <<unborn, request, listing, pending>>

\* UpdateRoteador: one replacement, of which the registry hears nothing.
Update(i, d) ==
  /\ stored[i] \notin {None, d} /\ faults < MaxFaults
  /\ stored' = [stored EXCEPT ![i] = d]
  /\ strayed' = strayed \cup {stored[i].address, d.address}
  /\ faults' = faults + 1
  /\ UNCHANGED <<unborn, cache, request, listing, pending>>

\* DeleteRoteador, GetById: the address is the one of now.
Find(q, i) ==
  /\ request[q] = Idle /\ stored[i] # None
  /\ request' = [request EXCEPT ![q] = [does |-> "unregister", id |-> i, device |-> stored[i]]]
  /\ strayed' = IF Busy(stored[i].address) THEN strayed \cup {stored[i].address} ELSE strayed
  /\ UNCHANGED <<stored, unborn, cache, listing, pending, faults>>

UnregisterNothing(q) ==      \* mistake: the registration stays
  /\ request[q] # Idle /\ request[q].does = "unregister"
  /\ request' = [request EXCEPT ![q].does = "delete"]
  /\ UNCHANGED <<stored, unborn, cache, listing, pending, strayed, faults>>

\* DeleteRoteador: UnregisterDevice, whoever is registered there.
Unregister(q) ==
  /\ request[q] # Idle /\ request[q].does = "unregister"
  /\ cache' = [cache EXCEPT ![request[q].device.address] = None]
  /\ request' = [request EXCEPT ![q].does = "delete"]
  /\ UNCHANGED <<stored, unborn, listing, pending, strayed, faults>>

\* DeleteRoteador: Delete, which may find the device gone.
Delete(q) ==
  /\ request[q] # Idle /\ request[q].does = "delete"
  /\ stored' = [stored EXCEPT ![request[q].id] = None]
  /\ request' = [request EXCEPT ![q] = Idle]
  /\ UNCHANGED <<unborn, cache, listing, pending, strayed, faults>>

\* The database refuses the deletion of a device that is no longer registered.
DeleteFails(q) ==
  /\ request[q] # Idle /\ request[q].does = "delete" /\ faults < MaxFaults
  /\ request' = [request EXCEPT ![q] = Idle]
  /\ strayed' = strayed \cup {request[q].device.address}
  /\ faults' = faults + 1
  /\ UNCHANGED <<stored, unborn, cache, listing, pending>>

-----------------------------------------------------------------------------
\* The process ends and is started again: the cache is built anew, of the collections.
Crash ==
  /\ faults < MaxFaults
  /\ cache' = [a \in Addresses |-> None]
  /\ request' = [q \in Requests |-> Idle]
  /\ listing' = 1 /\ pending' = {}
  /\ strayed' = Shared
  /\ faults' = faults + 1
  /\ UNCHANGED <<stored, unborn>>

Next ==
  \/ ListAll \/ ListFails \/ RegisterListed \/ Crash
  \/ \E d \in Devices : RefuseName(d)
  \/ \E i \in Ids, d \in Devices : Update(i, d)
  \/ \E q \in Requests :
       \/ \E i \in Ids, d \in Devices : Insert(q, i, d)
       \/ \E i \in Ids : Find(q, i)
       \/ RegisterCreated(q) \/ Unregister(q) \/ Delete(q) \/ DeleteFails(q)

Spec == Init /\ [][Next]_vars

-----------------------------------------------------------------------------
\* handleTrap and parseTrap: what an event says of the device at the trap's source, none
\* if the source is not registered.
Reports(a) ==
  IF cache[a] = None THEN None
  ELSE [id |-> cache[a].id, ip |-> cache[a].device.address]

\* An event gives the address its trap came from, whatever was updated meanwhile.
EventsGiveTheirSource ==
  \A a \in Addresses : Reports(a) # None => Reports(a).ip = a

\* Where no two operations met and none went wrong since the process started, whoever is
\* registered is stored as registered, and an active device that is
\* stored has its traps reported, once the start has listed it and but for an operation
\* that has its address in hand.
TrapsAreAttributed ==
  \A a \in Addresses \ strayed :
    /\ cache[a] # None => cache[a].id \in Ids /\ stored[cache[a].id] = cache[a].device
    /\ \A i \in At(a) :
         stored[i].active /\ KindOf[i] < listing /\ ~Busy(a) =>
           cache[a] = [id |-> i, device |-> stored[i]]
=============================================================================
