--------------------------- MODULE TrapRegistryProofs ---------------------------
(***************************************************************************)
(* Proofs about TrapRegistry, for any devices, addresses and requests: an   *)
(* event gives the address of its trap, and where no two operations met a   *)
(* trap is reported for the device that is stored there.  The argument is   *)
(* by address: of one that did not go astray at most one operation has it   *)
(* in hand, and what that operation has in hand is what is stored.          *)
(***************************************************************************)
EXTENDS TrapRegistry, TLAPS

Held(q, a) == request[q] # Idle /\ request[q].device.address = a

Unshared(a) == \A i, j \in At(a) : i = j

OneHand(a) ==
  /\ \A p, q \in Requests : Held(p, a) /\ Held(q, a) => p = q
  /\ \A r, s \in pending : r.device.address = a /\ s.device.address = a => r = s
  /\ \A q \in Requests, r \in pending : Held(q, a) => r.device.address # a

InHandIsStored(a) ==
  /\ \A q \in Requests : Held(q, a) => stored[request[q].id] = request[q].device
  /\ \A r \in pending : r.device.address = a => r.id \in Ids /\ stored[r.id] = r.device

\* A device that is about to be deleted is no longer registered.
Emptied(a) == \A q \in Requests : Held(q, a) /\ request[q].does = "delete" => cache[a] = None

RegisteredIsStored(a) ==
  cache[a] # None => cache[a].id \in Ids /\ stored[cache[a].id] = cache[a].device

ListedIsRegistered(a) ==
  \A i \in At(a) : stored[i].active /\ KindOf[i] < listing /\ ~Busy(a) =>
    cache[a] = [id |-> i, device |-> stored[i]]

AddressRight(a) ==
  /\ Unshared(a) /\ OneHand(a) /\ InHandIsStored(a) /\ Emptied(a)
  /\ RegisteredIsStored(a) /\ ListedIsRegistered(a)

Keyed == \A a \in Addresses : cache[a] # None => cache[a].device.address = a

UnbornIsNew ==
  /\ \A i \in unborn : stored[i] = None
  /\ \A q \in Requests : request[q] # Idle => request[q].id \notin unborn

\* A device in hand has been deleted or updated only with its address astray.
InHandIsCurrent ==
  \A q \in Requests : request[q] # Idle =>
    \/ stored[request[q].id] \in {None, request[q].device}
    \/ stored[request[q].id].address \in strayed

RegistryInv ==
  /\ TypeOK /\ Keyed /\ UnbornIsNew /\ InHandIsCurrent
  /\ \A a \in Addresses \ strayed : AddressRight(a)
-----------------------------------------------------------------------------
LEMMA IdleIsNoDoing == Idle \notin Doings
BY DEF Idle, Doings

\* What the type invariant says of the values in it.
LEMMA Values ==
  ASSUME TypeOK
  PROVE  /\ \A q \in Requests : request[q] # Idle =>
               /\ request[q] \in Doings /\ request[q].id \in Ids
               /\ request[q].device \in Devices /\ request[q].device.address \in Addresses
         /\ \A r \in pending : r \in Registrations /\ r.device \in Devices
                               /\ r.device.address \in Addresses
         /\ \A i \in Ids : stored[i] # None => stored[i] \in Devices
                                               /\ stored[i].address \in Addresses
         /\ \A a \in Addresses : cache[a] # None => cache[a] \in Registrations
BY DEF TypeOK, Doings, Registrations, Devices

LEMMA InitRegistry == Init => RegistryInv
<1> SUFFICES ASSUME Init PROVE RegistryInv
  OBVIOUS
<1>1. TypeOK
  BY RegistryAssumption DEF Init, FirstDevices, TypeOK, Shared
<1>2. \A q \in Requests, a \in Addresses : ~Held(q, a)
  BY DEF Init, Held
<1>3. Keyed /\ UnbornIsNew /\ InHandIsCurrent
  BY DEF Init, Keyed, UnbornIsNew, InHandIsCurrent
<1>4. ASSUME NEW a \in Addresses \ strayed PROVE AddressRight(a)
  <2>1. Unshared(a)
    BY <1>4 DEF Init, Shared, Unshared, At
  <2>2. OneHand(a) /\ InHandIsStored(a) /\ Emptied(a) /\ RegisteredIsStored(a)
    BY <1>2, <1>4 DEF Init, OneHand, InHandIsStored, Emptied, RegisteredIsStored
  <2>3. ListedIsRegistered(a)
    BY <1>4, RegistryAssumption DEF Init, ListedIsRegistered, At
  <2>4. QED BY <2>1, <2>2, <2>3 DEF AddressRight
<1>5. QED BY <1>1, <1>3, <1>4 DEF RegistryInv
-----------------------------------------------------------------------------
(* The start *)

LEMMA ListAllKeeps == RegistryInv /\ ListAll => RegistryInv'
<1> SUFFICES ASSUME RegistryInv, ListAll PROVE RegistryInv'
  OBVIOUS
<1>1. /\ listing \in 1..3 /\ listing' = listing + 1 /\ pending = {}
      /\ UNCHANGED <<stored, unborn, cache, request, faults>>
      /\ strayed \subseteq strayed'
  BY DEF ListAll, RegistryInv, TypeOK
<1>2. /\ \A r \in pending' : /\ r.id \in Ids /\ KindOf[r.id] = listing /\ stored[r.id] # None
                             /\ stored[r.id].active /\ r = [id |-> r.id, device |-> stored[r.id]]
      /\ \A i \in Ids : KindOf[i] = listing /\ stored[i] # None /\ stored[i].active =>
            [id |-> i, device |-> stored[i]] \in pending'
      /\ \A r \in pending' : Busy(r.device.address) => r.device.address \in strayed'
  BY DEF ListAll
<1>3. pending' \subseteq Registrations
  BY <1>2, Values DEF RegistryInv, Registrations
<1>4. strayed' \subseteq Addresses
  BY <1>3 DEF ListAll, RegistryInv, TypeOK, Registrations, Devices
<1>5. TypeOK'
  BY <1>1, <1>3, <1>4 DEF RegistryInv, TypeOK
<1>6. Keyed' /\ UnbornIsNew' /\ InHandIsCurrent'
  BY <1>1 DEF RegistryInv, Keyed, UnbornIsNew, InHandIsCurrent
<1>7. ASSUME NEW a \in Addresses, a \notin strayed' PROVE AddressRight(a)'
  <2>1. AddressRight(a)
    BY <1>1, <1>7 DEF RegistryInv
  <2>2. Unshared(a)' /\ Emptied(a)' /\ RegisteredIsStored(a)'
    BY <1>1, <2>1 DEF AddressRight, Unshared, At, Emptied, Held, RegisteredIsStored
  <2>3. \A r \in pending' : r.device.address = a => r.id \in At(a) /\ \A q \in Requests : ~Held(q, a)
    BY <1>2, <1>7 DEF At, Busy, Held
  <2>4. OneHand(a)'
    BY <1>1, <1>2, <2>1, <2>3 DEF AddressRight, OneHand, Unshared, Held
  <2>5. InHandIsStored(a)'
    BY <1>1, <1>2, <2>1 DEF AddressRight, InHandIsStored, Held
  <2>6. ListedIsRegistered(a)'
    <3> SUFFICES ASSUME NEW i \in At(a), stored[i].active, KindOf[i] < listing + 1, ~Busy(a)'
                 PROVE  cache[a] = [id |-> i, device |-> stored[i]]
      BY <1>1 DEF ListedIsRegistered, At
    <3>1. KindOf[i] # listing
      BY <1>2 DEF At, Busy
    <3>2. KindOf[i] < listing
      BY <1>1, <3>1, RegistryAssumption DEF At
    <3>3. ~Busy(a)
      BY <1>1 DEF Busy
    <3>4. QED BY <2>1, <3>2, <3>3 DEF AddressRight, ListedIsRegistered
  <2>7. QED BY <2>2, <2>4, <2>5, <2>6 DEF AddressRight
<1>8. QED BY <1>5, <1>6, <1>7 DEF RegistryInv

LEMMA ListFailsKeeps == RegistryInv /\ ListFails => RegistryInv'
<1> SUFFICES ASSUME RegistryInv, ListFails PROVE RegistryInv'
  OBVIOUS
<1>1. /\ listing \in 1..3 /\ listing' = listing + 1
      /\ UNCHANGED <<stored, unborn, cache, request, pending>>
      /\ strayed' = strayed \cup {a \in Addresses : \E i \in At(a) : KindOf[i] = listing}
  BY DEF ListFails, RegistryInv, TypeOK
<1>2. TypeOK'
  BY <1>1, RegistryAssumption DEF ListFails, RegistryInv, TypeOK
<1>3. Keyed' /\ UnbornIsNew' /\ InHandIsCurrent'
  BY <1>1 DEF RegistryInv, Keyed, UnbornIsNew, InHandIsCurrent
<1>4. ASSUME NEW a \in Addresses, a \notin strayed' PROVE AddressRight(a)'
  <2>1. AddressRight(a) /\ \A i \in At(a) : KindOf[i] # listing
    BY <1>1, <1>4 DEF RegistryInv
  <2>2. Unshared(a)' /\ Emptied(a)' /\ RegisteredIsStored(a)' /\ OneHand(a)' /\ InHandIsStored(a)'
    BY <1>1, <2>1
       DEF AddressRight, Unshared, At, Emptied, Held, RegisteredIsStored, OneHand, InHandIsStored
  <2>3. \A i \in At(a) : KindOf[i] < listing + 1 => KindOf[i] < listing
    BY <1>1, <2>1, RegistryAssumption DEF At
  <2>4. ListedIsRegistered(a)'
    BY <1>1, <2>1, <2>3 DEF AddressRight, ListedIsRegistered, At, Busy
  <2>5. QED BY <2>2, <2>4 DEF AddressRight
<1>5. QED BY <1>2, <1>3, <1>4 DEF RegistryInv

LEMMA RegisterListedKeeps == RegistryInv /\ RegisterListed => RegistryInv'
<1> SUFFICES ASSUME RegistryInv, NEW r \in pending, Registered(r), pending' = pending \ {r},
                    UNCHANGED <<stored, unborn, request, listing, strayed, faults>>
             PROVE  RegistryInv'
  BY DEF RegisterListed
<1>1. /\ r \in Registrations /\ r.device \in Devices /\ r.device.address \in Addresses
      /\ cache \in [Addresses -> Registrations \cup {None}]
  BY Values DEF RegistryInv, TypeOK
<1>2. /\ cache' = [cache EXCEPT ![r.device.address] = r]
      /\ cache'[r.device.address] = r
      /\ \A a \in Addresses : a # r.device.address => cache'[a] = cache[a]
  BY <1>1 DEF Registered
<1>3. TypeOK'
  BY <1>1, <1>2 DEF RegistryInv, TypeOK
<1>4. Keyed' /\ UnbornIsNew' /\ InHandIsCurrent'
  BY <1>2 DEF RegistryInv, Keyed, UnbornIsNew, InHandIsCurrent
<1>5. ASSUME NEW a \in Addresses, a \notin strayed' PROVE AddressRight(a)'
  <2>1. AddressRight(a)
    BY <1>5 DEF RegistryInv
  <2>2. Unshared(a)' /\ OneHand(a)' /\ InHandIsStored(a)'
    BY <2>1 DEF AddressRight, Unshared, At, OneHand, InHandIsStored, Held
  <2>3. CASE a # r.device.address
    <3>1. cache'[a] = cache[a] /\ Busy(a)' = Busy(a)
      BY <1>2, <2>3 DEF Busy
    <3>2. QED
      BY <2>1, <2>2, <3>1
         DEF AddressRight, Emptied, Held, RegisteredIsStored, ListedIsRegistered, At
  <2>4. CASE a = r.device.address
    <3>1. r.id \in At(a) /\ stored[r.id] = r.device
      BY <1>1, <2>1, <2>4, NothingAssumption DEF AddressRight, InHandIsStored, At
    <3>2. Emptied(a)' /\ RegisteredIsStored(a)'
      BY <1>2, <2>1, <2>4, <3>1
         DEF AddressRight, OneHand, InHandIsStored, Emptied, Held, RegisteredIsStored
    <3>3. r = [id |-> r.id, device |-> r.device]
      BY <1>1 DEF Registrations
    <3>4. ListedIsRegistered(a)'
      BY <1>2, <2>1, <2>4, <3>1, <3>3 DEF AddressRight, Unshared, ListedIsRegistered, At
    <3>5. QED BY <2>2, <3>2, <3>4 DEF AddressRight
  <2>5. QED BY <2>3, <2>4
<1>6. QED BY <1>3, <1>4, <1>5 DEF RegistryInv

LEMMA CrashKeeps == RegistryInv /\ Crash => RegistryInv'
<1> SUFFICES ASSUME RegistryInv, Crash PROVE RegistryInv'
  OBVIOUS
<1>1. TypeOK'
  <2>1. Shared \subseteq Addresses /\ faults' \in 0..MaxFaults
    BY RegistryAssumption DEF Crash, RegistryInv, TypeOK, Shared
  <2>2. QED BY <2>1 DEF Crash, RegistryInv, TypeOK
<1>2. \A q \in Requests, a \in Addresses : ~Held(q, a)'
  BY DEF Crash, Held
<1>3. Keyed' /\ UnbornIsNew' /\ InHandIsCurrent'
  BY DEF Crash, RegistryInv, Keyed, UnbornIsNew, InHandIsCurrent
<1>4. ASSUME NEW a \in Addresses, a \notin strayed' PROVE AddressRight(a)'
  <2>1. Unshared(a)'
    BY <1>4 DEF Crash, Shared, Unshared, At
  <2>2. OneHand(a)' /\ InHandIsStored(a)' /\ Emptied(a)' /\ RegisteredIsStored(a)'
    BY <1>2 DEF Crash, OneHand, InHandIsStored, Emptied, RegisteredIsStored
  <2>3. ListedIsRegistered(a)'
    BY RegistryAssumption DEF Crash, ListedIsRegistered, At
  <2>4. QED BY <2>1, <2>2, <2>3 DEF AddressRight
<1>5. QED BY <1>1, <1>3, <1>4 DEF RegistryInv
-----------------------------------------------------------------------------
(* The requests *)

LEMMA RefuseNameKeeps ==
  ASSUME RegistryInv, NEW d \in Devices, RefuseName(d)
  PROVE  RegistryInv'
<1> DEFINE r == [id |-> NoId, device |-> d]
<1>1. /\ r \in Registrations /\ d.address \in Addresses
      /\ cache \in [Addresses -> Registrations \cup {None}]
  BY DEF Registrations, Devices, RegistryInv, TypeOK
<1>2. /\ cache' = [cache EXCEPT ![d.address] = r]
      /\ strayed' = strayed \cup {d.address}
      /\ UNCHANGED <<stored, unborn, request, listing, pending>>
  BY DEF RefuseName, Registered
<1>3. TypeOK'
  BY <1>1, <1>2, RegistryAssumption DEF RefuseName, RegistryInv, TypeOK
<1>4. Keyed' /\ UnbornIsNew' /\ InHandIsCurrent'
  BY <1>1, <1>2 DEF RegistryInv, Keyed, UnbornIsNew, InHandIsCurrent
<1>5. ASSUME NEW a \in Addresses, a \notin strayed' PROVE AddressRight(a)'
  <2>1. AddressRight(a) /\ cache'[a] = cache[a]
    BY <1>1, <1>2, <1>5 DEF RegistryInv
  <2>2. QED
    BY <1>2, <2>1 DEF AddressRight, Unshared, At, OneHand, InHandIsStored, Emptied, Held,
                      RegisteredIsStored, ListedIsRegistered, Busy
<1>6. QED BY <1>3, <1>4, <1>5 DEF RegistryInv

LEMMA UpdateKeeps ==
  ASSUME RegistryInv, NEW i \in Ids, NEW d \in Devices, Update(i, d)
  PROVE  RegistryInv'
<1>1. /\ stored[i] # None /\ stored[i].address \in Addresses /\ d.address \in Addresses
      /\ d # None /\ i \notin unborn
      /\ stored \in [Ids -> Devices \cup {None}]
  BY Values, NothingAssumption DEF Update, RegistryInv, TypeOK, UnbornIsNew, Devices
<1>2. /\ stored' = [stored EXCEPT ![i] = d]
      /\ strayed' = strayed \cup {stored[i].address, d.address}
      /\ UNCHANGED <<unborn, cache, request, listing, pending>>
  BY DEF Update
<1>3. TypeOK'
  BY <1>1, <1>2, RegistryAssumption DEF Update, RegistryInv, TypeOK
<1>4. Keyed' /\ UnbornIsNew'
  BY <1>1, <1>2 DEF RegistryInv, TypeOK, Keyed, UnbornIsNew
<1>5. InHandIsCurrent'
  <2> SUFFICES ASSUME NEW q \in Requests, request[q] # Idle
               PROVE  \/ stored'[request[q].id] \in {None, request[q].device}
                      \/ stored'[request[q].id].address \in strayed'
    BY <1>2 DEF InHandIsCurrent
  <2>1. request[q].id \in Ids
    BY Values DEF RegistryInv
  <2>2. CASE request[q].id = i
    BY <1>1, <1>2, <2>2
  <2>3. CASE request[q].id # i
    BY <1>1, <1>2, <2>1, <2>3 DEF RegistryInv, InHandIsCurrent
  <2>4. QED BY <2>2, <2>3
<1>6. ASSUME NEW a \in Addresses, a \notin strayed' PROVE AddressRight(a)'
  <2>1. AddressRight(a) /\ a # stored[i].address /\ a # d.address
    BY <1>2, <1>6 DEF RegistryInv
  <2>2. \A j \in Ids : j # i => stored'[j] = stored[j]
    BY <1>1, <1>2
  <2>3. At(a)' = At(a) /\ i \notin At(a)
    BY <1>1, <1>2, <2>1, <2>2 DEF At
  <2>4. Unshared(a)' /\ OneHand(a)' /\ Emptied(a)'
    BY <1>2, <2>1, <2>3 DEF AddressRight, Unshared, OneHand, Emptied, Held
  <2>5. InHandIsStored(a)'
    <3>1. ASSUME NEW q \in Requests, Held(q, a) PROVE stored'[request[q].id] = request[q].device
      <4>1. stored[request[q].id] = request[q].device /\ request[q].id \in Ids
        BY <2>1, <3>1, Values DEF AddressRight, InHandIsStored, Held, RegistryInv
      <4>2. QED BY <2>1, <2>2, <3>1, <4>1 DEF Held
    <3>2. ASSUME NEW r \in pending, r.device.address = a
          PROVE  r.id \in Ids /\ stored'[r.id] = r.device
      BY <2>1, <2>2, <3>2 DEF AddressRight, InHandIsStored
    <3>3. QED BY <1>2, <3>1, <3>2 DEF InHandIsStored, Held
  <2>6. RegisteredIsStored(a)'
    BY <1>2, <1>6, <2>1, <2>2 DEF AddressRight, RegisteredIsStored, RegistryInv, Keyed
  <2>7. ListedIsRegistered(a)'
    BY <1>2, <2>1, <2>2, <2>3 DEF AddressRight, ListedIsRegistered, Busy, At
  <2>8. QED BY <2>4, <2>5, <2>6, <2>7 DEF AddressRight
<1>7. QED BY <1>3, <1>4, <1>5, <1>6 DEF RegistryInv

LEMMA InsertKeeps ==
  ASSUME RegistryInv, NEW q \in Requests, NEW i \in Ids, NEW d \in Devices, Insert(q, i, d)
  PROVE  RegistryInv'
<1> DEFINE doing == [does |-> "register", id |-> i, device |-> d]
<1>1. /\ request[q] = Idle /\ i \in unborn /\ stored[i] = None
      /\ d.address \in Addresses /\ d # None
      /\ stored \in [Ids -> Devices \cup {None}]
      /\ request \in [Requests -> Doings \cup {Idle}]
  BY NothingAssumption DEF Insert, RegistryInv, TypeOK, UnbornIsNew, Devices
<1>2. doing \in Doings /\ doing.id = i /\ doing.device = d /\ doing.does = "register"
  BY DEF Doings
<1>3. /\ stored' = [stored EXCEPT ![i] = d] /\ unborn' = unborn \ {i}
      /\ request' = [request EXCEPT ![q] = doing]
      /\ strayed' = IF Busy(d.address) \/ At(d.address) # {}
                    THEN strayed \cup {d.address} ELSE strayed
      /\ UNCHANGED <<cache, listing, pending, faults>>
  BY DEF Insert
<1> HIDE DEF doing
<1>4. /\ stored'[i] = d /\ \A j \in Ids : j # i => stored'[j] = stored[j]
      /\ request'[q] = doing /\ \A p \in Requests : p # q => request'[p] = request[p]
      /\ doing # Idle
  BY <1>1, <1>2, <1>3, IdleIsNoDoing
<1>5. TypeOK'
  BY <1>1, <1>2, <1>3 DEF RegistryInv, TypeOK
<1>6. Keyed' /\ UnbornIsNew'
  <2>1. Keyed'
    BY <1>3 DEF RegistryInv, Keyed
  <2>2. \A p \in Requests : request'[p] # Idle => request'[p].id \notin unborn'
    BY <1>2, <1>3, <1>4 DEF RegistryInv, UnbornIsNew
  <2>3. \A j \in unborn' : stored'[j] = None
    BY <1>3, <1>4 DEF RegistryInv, TypeOK, UnbornIsNew
  <2>4. QED BY <2>1, <2>2, <2>3 DEF UnbornIsNew
<1>7. \A p \in Requests : p # q /\ request[p] # Idle => request[p].id # i /\ request[p].id \in Ids
  BY <1>1, Values DEF RegistryInv, UnbornIsNew
<1>8. InHandIsCurrent'
  <2> SUFFICES ASSUME NEW p \in Requests, request'[p] # Idle
               PROVE  \/ stored'[request'[p].id] \in {None, request'[p].device}
                      \/ stored'[request'[p].id].address \in strayed'
    BY DEF InHandIsCurrent
  <2>1. CASE p = q
    BY <1>2, <1>4, <2>1
  <2>2. CASE p # q
    BY <1>3, <1>4, <1>7, <2>2 DEF RegistryInv, InHandIsCurrent
  <2>3. QED BY <2>1, <2>2
<1>9. ASSUME NEW a \in Addresses, a \notin strayed' PROVE AddressRight(a)'
  <2>1. AddressRight(a) /\ a \notin strayed
    BY <1>3, <1>9 DEF RegistryInv
  <2>2. CASE a # d.address
    <3>1. At(a)' = At(a) /\ i \notin At(a)
      BY <1>1, <1>4, <2>2 DEF At
    <3>2. \A p \in Requests : Held(p, a)' <=> Held(p, a) /\ p # q
      BY <1>1, <1>2, <1>4, <2>2 DEF Held
    <3>3. Unshared(a)' /\ OneHand(a)'
      BY <1>3, <2>1, <3>1, <3>2 DEF AddressRight, Unshared, OneHand
    <3>4. ASSUME NEW p \in Requests, Held(p, a)'
          PROVE  stored'[request'[p].id] = request'[p].device
      BY <1>4, <1>7, <2>1, <3>2, <3>4 DEF AddressRight, InHandIsStored, Held
    <3>5. ASSUME NEW r \in pending, r.device.address = a
          PROVE  r.id \in Ids /\ stored'[r.id] = r.device
      <4>1. r.id \in Ids /\ stored[r.id] = r.device /\ r.device # None
        BY <2>1, <3>5, Values, NothingAssumption DEF AddressRight, InHandIsStored, RegistryInv
      <4>2. QED BY <1>1, <1>4, <4>1
    <3>6. InHandIsStored(a)'
      BY <1>3, <3>4, <3>5 DEF InHandIsStored
    <3>7. Emptied(a)'
      BY <1>3, <1>4, <2>1, <3>2 DEF AddressRight, Emptied
    <3>8. RegisteredIsStored(a)'
      <4>1. SUFFICES ASSUME cache[a] # None
                     PROVE  cache[a].id \in Ids /\ stored'[cache[a].id] = cache[a].device
        BY <1>3 DEF RegisteredIsStored
      <4>2. /\ cache[a].id \in Ids /\ stored[cache[a].id] = cache[a].device
            /\ cache[a].device # None
        BY <2>1, <4>1, Values, NothingAssumption
           DEF AddressRight, RegisteredIsStored, RegistryInv, Registrations
      <4>3. QED BY <1>1, <1>4, <4>2
    <3>9. Busy(a)' = Busy(a)
      BY <1>3, <3>2, <1>1 DEF Busy, Held
    <3>10. ListedIsRegistered(a)'
      BY <1>3, <1>4, <2>1, <3>1, <3>9 DEF AddressRight, ListedIsRegistered, At
    <3>11. QED BY <3>3, <3>6, <3>7, <3>8, <3>10 DEF AddressRight
  <2>3. CASE a = d.address
    <3>1. ~Busy(a) /\ At(a) = {}
      BY <1>3, <1>9, <2>3
    <3>2. /\ \A p \in Requests : Held(p, a)' => p = q
          /\ \A r \in pending : r.device.address # a
      BY <1>4, <3>1 DEF Busy, Held
    <3>3. At(a)' = {i}
      BY <1>1, <1>4, <2>3, <3>1 DEF At
    <3>4. cache[a] = None
      <4>1. SUFFICES ASSUME cache[a] # None PROVE FALSE
        OBVIOUS
      <4>2. /\ cache[a].id \in Ids /\ stored[cache[a].id] = cache[a].device
            /\ cache[a].device # None /\ cache[a].device.address = a
        BY <2>1, <4>1, Values, NothingAssumption
           DEF AddressRight, RegisteredIsStored, RegistryInv, Registrations, Keyed
      <4>3. QED BY <3>1, <4>2 DEF At
    <3>5. Unshared(a)' /\ OneHand(a)' /\ Emptied(a)' /\ RegisteredIsStored(a)'
      BY <1>3, <3>2, <3>3, <3>4 DEF Unshared, OneHand, Emptied, RegisteredIsStored
    <3>6. InHandIsStored(a)'
      BY <1>2, <1>3, <1>4, <3>2 DEF InHandIsStored
    <3>7. Busy(a)'
      BY <1>2, <1>4, <2>3 DEF Busy
    <3>8. ListedIsRegistered(a)'
      BY <3>7 DEF ListedIsRegistered
    <3>9. QED BY <3>5, <3>6, <3>8 DEF AddressRight
  <2>4. QED BY <2>2, <2>3
<1>10. QED BY <1>5, <1>6, <1>8, <1>9 DEF RegistryInv

LEMMA RegisterCreatedKeeps ==
  ASSUME RegistryInv, NEW q \in Requests, RegisterCreated(q)
  PROVE  RegistryInv'
<1> DEFINE r == [id |-> request[q].id, device |-> request[q].device]
           b == request[q].device.address
<1>1. /\ request[q] # Idle /\ request[q].id \in Ids /\ request[q].device \in Devices
      /\ b \in Addresses
      /\ cache \in [Addresses -> Registrations \cup {None}]
      /\ request \in [Requests -> Doings \cup {Idle}]
  BY Values DEF RegisterCreated, RegistryInv, TypeOK
<1>2. /\ r \in Registrations /\ r # None /\ r.id = request[q].id /\ r.device = request[q].device
  BY <1>1, NothingAssumption DEF Registrations
<1>3. /\ cache' = [cache EXCEPT ![b] = r]
      /\ request' = [request EXCEPT ![q] = Idle]
      /\ UNCHANGED <<stored, unborn, listing, pending, strayed, faults>>
  BY DEF RegisterCreated, Registered
<1> HIDE DEF r, b
<1>4. /\ cache'[b] = r /\ \A a \in Addresses : a # b => cache'[a] = cache[a]
      /\ request'[q] = Idle /\ \A p \in Requests : p # q => request'[p] = request[p]
  BY <1>1, <1>3
<1>5. TypeOK'
  BY <1>1, <1>2, <1>3 DEF RegistryInv, TypeOK
<1>6. Keyed' /\ UnbornIsNew' /\ InHandIsCurrent'
  BY <1>2, <1>3, <1>4 DEF RegistryInv, Keyed, UnbornIsNew, InHandIsCurrent, b
<1>7. ASSUME NEW a \in Addresses, a \notin strayed' PROVE AddressRight(a)'
  <2>1. AddressRight(a)
    BY <1>3, <1>7 DEF RegistryInv
  <2>2. \A p \in Requests : Held(p, a)' <=> Held(p, a) /\ p # q
    BY <1>4 DEF Held
  <2>3. Unshared(a)' /\ OneHand(a)' /\ InHandIsStored(a)'
    BY <1>3, <1>4, <2>1, <2>2 DEF AddressRight, Unshared, At, OneHand, InHandIsStored
  <2>4. CASE a # b
    <3>1. ~Held(q, a)
      BY <2>4 DEF Held, b
    <3>2. cache'[a] = cache[a] /\ (Busy(a) => Busy(a)')
      BY <1>3, <1>4, <2>2, <2>4, <3>1 DEF Busy, Held
    <3>3. Emptied(a)' /\ RegisteredIsStored(a)' /\ ListedIsRegistered(a)'
      BY <1>3, <1>4, <2>1, <2>2, <3>2
         DEF AddressRight, Emptied, RegisteredIsStored, ListedIsRegistered, At
    <3>4. QED BY <2>3, <3>3 DEF AddressRight
  <2>5. CASE a = b
    <3>1. Held(q, a) /\ stored[r.id] = r.device /\ r.id \in At(a)
      BY <1>1, <1>2, <2>1, <2>5, NothingAssumption
         DEF AddressRight, InHandIsStored, Held, At, b
    <3>2. Emptied(a)' /\ RegisteredIsStored(a)'
      BY <1>3, <1>4, <2>1, <2>2, <2>5, <3>1
         DEF AddressRight, OneHand, Emptied, RegisteredIsStored, At
    <3>3. r = [id |-> r.id, device |-> r.device]
      BY <1>2 DEF Registrations
    <3>4. ListedIsRegistered(a)'
      BY <1>3, <1>4, <2>1, <2>5, <3>1, <3>3 DEF AddressRight, Unshared, ListedIsRegistered, At
    <3>5. QED BY <2>3, <3>2, <3>4 DEF AddressRight
  <2>6. QED BY <2>4, <2>5
<1>8. QED BY <1>5, <1>6, <1>7 DEF RegistryInv

LEMMA FindKeeps ==
  ASSUME RegistryInv, NEW q \in Requests, NEW i \in Ids, Find(q, i)
  PROVE  RegistryInv'
<1> DEFINE doing == [does |-> "unregister", id |-> i, device |-> stored[i]]
<1>1. /\ request[q] = Idle /\ stored[i] # None /\ stored[i] \in Devices /\ i \notin unborn
      /\ stored[i].address \in Addresses
      /\ request \in [Requests -> Doings \cup {Idle}]
  BY Values DEF Find, RegistryInv, TypeOK, UnbornIsNew
<1>2. /\ doing \in Doings /\ doing.id = i /\ doing.device = stored[i]
      /\ doing.does = "unregister"
  BY <1>1 DEF Doings
<1>3. /\ request' = [request EXCEPT ![q] = doing]
      /\ strayed' = IF Busy(stored[i].address) THEN strayed \cup {stored[i].address} ELSE strayed
      /\ UNCHANGED <<stored, unborn, cache, listing, pending, faults>>
  BY DEF Find
<1> HIDE DEF doing
<1>4. /\ request'[q] = doing /\ doing # Idle
      /\ \A p \in Requests : p # q => request'[p] = request[p]
  BY <1>1, <1>2, <1>3, IdleIsNoDoing
<1>5. TypeOK'
  BY <1>1, <1>2, <1>3 DEF RegistryInv, TypeOK
<1>6. Keyed' /\ UnbornIsNew' /\ InHandIsCurrent'
  BY <1>1, <1>2, <1>3, <1>4 DEF RegistryInv, Keyed, UnbornIsNew, InHandIsCurrent
<1>7. ASSUME NEW a \in Addresses, a \notin strayed' PROVE AddressRight(a)'
  <2>1. AddressRight(a)
    BY <1>3, <1>7 DEF RegistryInv
  <2>2. \A p \in Requests :
          Held(p, a)' <=> (Held(p, a) /\ p # q) \/ (p = q /\ stored[i].address = a)
    <3> SUFFICES ASSUME NEW p \in Requests
                 PROVE  Held(p, a)' <=> (Held(p, a) /\ p # q) \/ (p = q /\ stored[i].address = a)
      OBVIOUS
    <3>1. CASE p = q
      BY <1>2, <1>4, <3>1 DEF Held
    <3>2. CASE p # q
      BY <1>4, <3>2 DEF Held
    <3>3. QED BY <3>1, <3>2
  <2>3. stored[i].address = a => ~Busy(a)
    BY <1>3, <1>7
  <2>4. OneHand(a)'
    BY <1>3, <2>1, <2>2, <2>3 DEF AddressRight, OneHand, Busy, Held
  <2>5. InHandIsStored(a)' /\ Emptied(a)'
    BY <1>2, <1>3, <1>4, <2>1, <2>2 DEF AddressRight, InHandIsStored, Emptied
  <2>6. Busy(a) => Busy(a)'
    BY <1>1, <1>3, <1>4 DEF Busy
  <2>7. Unshared(a)' /\ RegisteredIsStored(a)' /\ ListedIsRegistered(a)'
    BY <1>3, <2>1, <2>6 DEF AddressRight, Unshared, At, RegisteredIsStored, ListedIsRegistered
  <2>8. QED BY <2>4, <2>5, <2>7 DEF AddressRight
<1>8. QED BY <1>5, <1>6, <1>7 DEF RegistryInv

LEMMA UnregisterKeeps ==
  ASSUME RegistryInv, NEW q \in Requests, Unregister(q)
  PROVE  RegistryInv'
<1> DEFINE b == request[q].device.address
           doing == [request[q] EXCEPT !.does = "delete"]
<1>1. /\ request[q] # Idle /\ request[q] \in Doings /\ b \in Addresses
      /\ cache \in [Addresses -> Registrations \cup {None}]
      /\ request \in [Requests -> Doings \cup {Idle}]
  BY Values DEF Unregister, RegistryInv, TypeOK
<1>2. /\ doing \in Doings /\ doing.id = request[q].id /\ doing.device = request[q].device
  BY <1>1 DEF Doings
<1>3. /\ cache' = [cache EXCEPT ![b] = None]
      /\ request' = [request EXCEPT ![q] = doing]
      /\ UNCHANGED <<stored, unborn, listing, pending, strayed, faults>>
  BY DEF Unregister
<1> HIDE DEF doing
<1>4. /\ cache'[b] = None /\ \A a \in Addresses : a # b => cache'[a] = cache[a]
      /\ request'[q] = doing /\ doing # Idle
      /\ \A p \in Requests : p # q => request'[p] = request[p]
  BY <1>1, <1>2, <1>3, IdleIsNoDoing
<1>5. TypeOK'
  BY <1>1, <1>2, <1>3 DEF RegistryInv, TypeOK
<1>6. Keyed' /\ UnbornIsNew' /\ InHandIsCurrent'
  BY <1>1, <1>2, <1>3, <1>4 DEF RegistryInv, Keyed, UnbornIsNew, InHandIsCurrent
<1>7. ASSUME NEW a \in Addresses, a \notin strayed' PROVE AddressRight(a)'
  <2>1. AddressRight(a)
    BY <1>3, <1>7 DEF RegistryInv
  <2>2. \A p \in Requests : /\ Held(p, a)' <=> Held(p, a)
                            /\ Held(p, a) => request'[p].id = request[p].id
                                             /\ request'[p].device = request[p].device
    BY <1>1, <1>2, <1>4 DEF Held
  <2>3. Unshared(a)' /\ OneHand(a)' /\ InHandIsStored(a)'
    BY <1>3, <2>1, <2>2 DEF AddressRight, Unshared, At, OneHand, InHandIsStored
  <2>4. CASE a # b
    <3>1. ~Held(q, a)
      BY <2>4 DEF Held
    <3>2. cache'[a] = cache[a] /\ (Busy(a) => Busy(a)')
      BY <1>3, <1>4, <2>2, <2>4 DEF Busy, Held
    <3>3. Emptied(a)' /\ RegisteredIsStored(a)' /\ ListedIsRegistered(a)'
      BY <1>3, <1>4, <2>1, <2>2, <3>1, <3>2
         DEF AddressRight, Emptied, RegisteredIsStored, ListedIsRegistered, At
    <3>4. QED BY <2>3, <3>3 DEF AddressRight
  <2>5. CASE a = b
    <3>1. Busy(a)'
      BY <1>2, <1>4, <2>5 DEF Busy
    <3>2. Emptied(a)' /\ RegisteredIsStored(a)' /\ ListedIsRegistered(a)'
      BY <1>4, <2>5, <3>1 DEF Emptied, RegisteredIsStored, ListedIsRegistered
    <3>3. QED BY <2>3, <3>2 DEF AddressRight
  <2>6. QED BY <2>4, <2>5
<1>8. QED BY <1>5, <1>6, <1>7 DEF RegistryInv

\* The device goes, and with it the operation that had its address in hand.
LEMMA DeleteKeeps ==
  ASSUME RegistryInv, NEW q \in Requests, Delete(q)
  PROVE  RegistryInv'
<1> DEFINE i == request[q].id
           b == request[q].device.address
<1>1. /\ request[q] # Idle /\ request[q].does = "delete" /\ i \in Ids /\ i \notin unborn
      /\ request[q].device \in Devices /\ request[q].device # None
      /\ stored \in [Ids -> Devices \cup {None}]
      /\ request \in [Requests -> Doings \cup {Idle}]
  BY Values, NothingAssumption DEF Delete, RegistryInv, TypeOK, UnbornIsNew
<1>2. \/ stored[i] \in {None, request[q].device}
      \/ stored[i].address \in strayed
  BY <1>1 DEF RegistryInv, InHandIsCurrent
<1>3. /\ stored' = [stored EXCEPT ![i] = None]
      /\ request' = [request EXCEPT ![q] = Idle]
      /\ UNCHANGED <<unborn, cache, listing, pending, strayed, faults>>
  BY DEF Delete
<1> HIDE DEF i
<1>4. /\ stored'[i] = None /\ \A j \in Ids : j # i => stored'[j] = stored[j]
      /\ request'[q] = Idle /\ \A p \in Requests : p # q => request'[p] = request[p]
  BY <1>1, <1>3
<1>5. TypeOK'
  BY <1>1, <1>3 DEF RegistryInv, TypeOK
<1>6. Keyed' /\ UnbornIsNew'
  BY <1>1, <1>3, <1>4 DEF RegistryInv, TypeOK, Keyed, UnbornIsNew
<1>7. InHandIsCurrent'
  <2> SUFFICES ASSUME NEW p \in Requests, request'[p] # Idle
               PROVE  \/ stored'[request'[p].id] \in {None, request'[p].device}
                      \/ stored'[request'[p].id].address \in strayed'
    BY DEF InHandIsCurrent
  <2>1. p # q /\ request'[p] = request[p] /\ request[p].id \in Ids
    BY <1>4, Values DEF RegistryInv
  <2>2. QED BY <1>3, <1>4, <2>1 DEF RegistryInv, InHandIsCurrent
<1>8. ASSUME NEW a \in Addresses, a \notin strayed' PROVE AddressRight(a)'
  <2>1. AddressRight(a) /\ a \notin strayed
    BY <1>3, <1>8 DEF RegistryInv
  <2>2. \A p \in Requests : Held(p, a)' <=> Held(p, a) /\ p # q
    BY <1>4 DEF Held
  \* Whoever is stored here and goes is the one in hand.
  <2>3. i \in At(a) => Held(q, a) /\ stored[i] = request[q].device
    BY <1>1, <1>2, <2>1 DEF At, Held
  <2>4. At(a)' = At(a) \ {i}
    BY <1>1, <1>4 DEF At
  <2>5. Unshared(a)' /\ OneHand(a)'
    BY <1>3, <2>1, <2>2, <2>4 DEF AddressRight, Unshared, OneHand
  <2>6. ASSUME NEW p \in Requests, Held(p, a)'
        PROVE  stored'[request'[p].id] = request'[p].device
    <3>1. /\ p # q /\ Held(p, a) /\ request'[p] = request[p]
          /\ request[p].id \in Ids /\ request[p].device # None
          /\ stored[request[p].id] = request[p].device
          /\ request[p].device.address = a
      BY <1>4, <2>1, <2>2, <2>6, Values, NothingAssumption
         DEF AddressRight, InHandIsStored, Held, RegistryInv
    <3>2. request[p].id # i
      BY <2>1, <2>3, <3>1 DEF AddressRight, OneHand, At
    <3>3. QED BY <1>4, <3>1, <3>2
  <2>7. ASSUME NEW r \in pending, r.device.address = a
        PROVE  r.id \in Ids /\ stored'[r.id] = r.device
    <3>1. r.id \in Ids /\ stored[r.id] = r.device /\ r.device # None /\ r.id \in At(a)
      BY <2>1, <2>7, Values, NothingAssumption DEF AddressRight, InHandIsStored, RegistryInv, At
    <3>2. r.id # i
      BY <2>1, <2>3, <2>7, <3>1 DEF AddressRight, OneHand
    <3>3. QED BY <1>4, <3>1, <3>2
  <2>8. InHandIsStored(a)'
    BY <1>3, <2>6, <2>7 DEF InHandIsStored
  <2>9. Emptied(a)'
    BY <1>3, <1>4, <2>1, <2>2 DEF AddressRight, Emptied
  <2>10. RegisteredIsStored(a)'
    <3>1. SUFFICES ASSUME cache[a] # None
                   PROVE  cache[a].id \in Ids /\ stored'[cache[a].id] = cache[a].device
      BY <1>3 DEF RegisteredIsStored
    <3>2. /\ cache[a].id \in Ids /\ stored[cache[a].id] = cache[a].device
          /\ cache[a].device # None /\ cache[a].id \in At(a)
      BY <2>1, <3>1, Values, NothingAssumption
         DEF AddressRight, RegisteredIsStored, RegistryInv, Registrations, Keyed, At
    <3>3. cache[a].id # i
      BY <1>1, <2>1, <2>3, <3>1, <3>2 DEF AddressRight, Emptied
    <3>4. QED BY <1>4, <3>2, <3>3
  <2>11. ListedIsRegistered(a)'
    <3> SUFFICES ASSUME NEW j \in At(a)', stored'[j].active, KindOf[j] < listing, ~Busy(a)'
                 PROVE  cache[a] = [id |-> j, device |-> stored'[j]]
      BY <1>3 DEF ListedIsRegistered
    <3>1. j \in At(a) /\ j # i /\ stored'[j] = stored[j]
      BY <1>4, <2>4 DEF At
    <3>2. CASE Held(q, a)
      <4>1. i \in At(a)
        BY <1>1, <2>1, <3>2 DEF AddressRight, InHandIsStored, Held, At, i
      <4>2. QED BY <2>1, <3>1, <4>1 DEF AddressRight, Unshared
    <3>3. CASE ~Held(q, a)
      <4>1. ~Busy(a)
        BY <1>3, <1>4, <3>3 DEF Busy, Held
      <4>2. QED BY <2>1, <3>1, <4>1 DEF AddressRight, ListedIsRegistered
    <3>4. QED BY <3>2, <3>3
  <2>12. QED BY <2>5, <2>8, <2>9, <2>10, <2>11 DEF AddressRight
<1>9. QED BY <1>5, <1>6, <1>7, <1>8 DEF RegistryInv

LEMMA DeleteFailsKeeps ==
  ASSUME RegistryInv, NEW q \in Requests, DeleteFails(q)
  PROVE  RegistryInv'
<1> DEFINE b == request[q].device.address
<1>1. /\ request[q] # Idle /\ b \in Addresses
      /\ request \in [Requests -> Doings \cup {Idle}]
  BY Values DEF DeleteFails, RegistryInv, TypeOK
<1>2. /\ request' = [request EXCEPT ![q] = Idle] /\ strayed' = strayed \cup {b}
      /\ UNCHANGED <<stored, unborn, cache, listing, pending>>
  BY DEF DeleteFails
<1>3. request'[q] = Idle /\ \A p \in Requests : p # q => request'[p] = request[p]
  BY <1>1, <1>2
<1>4. faults' \in 0..MaxFaults
  BY RegistryAssumption DEF DeleteFails, RegistryInv, TypeOK
<1>5. TypeOK'
  BY <1>1, <1>2, <1>4 DEF RegistryInv, TypeOK
<1>6. Keyed' /\ UnbornIsNew' /\ InHandIsCurrent'
  BY <1>2, <1>3 DEF RegistryInv, Keyed, UnbornIsNew, InHandIsCurrent
<1>7. ASSUME NEW a \in Addresses, a \notin strayed' PROVE AddressRight(a)'
  <2>1. AddressRight(a) /\ a # b
    BY <1>2, <1>7 DEF RegistryInv
  <2>2. \A p \in Requests : Held(p, a)' <=> Held(p, a)
    BY <1>3, <2>1 DEF Held
  <2>3. Unshared(a)' /\ OneHand(a)' /\ RegisteredIsStored(a)'
    BY <1>2, <2>1, <2>2 DEF AddressRight, Unshared, At, OneHand, RegisteredIsStored
  <2>4. \A p \in Requests : Held(p, a) => request'[p] = request[p]
    BY <1>3, <2>1 DEF Held
  <2>5. InHandIsStored(a)' /\ Emptied(a)'
    BY <1>2, <2>1, <2>2, <2>4 DEF AddressRight, InHandIsStored, Emptied
  <2>6. Busy(a) => Busy(a)'
    BY <1>2, <1>3, <2>1 DEF Busy
  <2>7. ListedIsRegistered(a)'
    BY <1>2, <2>1, <2>6 DEF AddressRight, ListedIsRegistered, At
  <2>8. QED BY <2>3, <2>5, <2>7 DEF AddressRight
<1>8. QED BY <1>5, <1>6, <1>7 DEF RegistryInv
-----------------------------------------------------------------------------
LEMMA RegistryInvariant == Spec => []RegistryInv
<1>1. RegistryInv /\ [Next]_vars => RegistryInv'
  <2> SUFFICES ASSUME RegistryInv, [Next]_vars PROVE RegistryInv'
    OBVIOUS
  <2>1. CASE ListAll \/ ListFails \/ RegisterListed \/ Crash
    BY <2>1, ListAllKeeps, ListFailsKeeps, RegisterListedKeeps, CrashKeeps
  <2>2. ASSUME NEW d \in Devices, RefuseName(d) PROVE RegistryInv'
    BY <2>2, RefuseNameKeeps
  <2>3. ASSUME NEW i \in Ids, NEW d \in Devices, Update(i, d) PROVE RegistryInv'
    BY <2>3, UpdateKeeps
  <2>4. ASSUME NEW q \in Requests, NEW i \in Ids, NEW d \in Devices, Insert(q, i, d)
        PROVE  RegistryInv'
    BY <2>4, InsertKeeps
  <2>5. ASSUME NEW q \in Requests, NEW i \in Ids, Find(q, i) PROVE RegistryInv'
    BY <2>5, FindKeeps
  <2>6. ASSUME NEW q \in Requests,
               RegisterCreated(q) \/ Unregister(q) \/ Delete(q) \/ DeleteFails(q)
        PROVE  RegistryInv'
    BY <2>6, RegisterCreatedKeeps, UnregisterKeeps, DeleteKeeps, DeleteFailsKeeps
  <2>7. CASE UNCHANGED vars
    BY <2>7 DEF vars, RegistryInv, TypeOK, Keyed, UnbornIsNew, InHandIsCurrent, AddressRight,
                Unshared, At, OneHand, InHandIsStored, Emptied, RegisteredIsStored,
                ListedIsRegistered, Busy, Held
  <2>8. QED BY <2>1, <2>2, <2>3, <2>4, <2>5, <2>6, <2>7 DEF Next
<1>2. QED BY InitRegistry, <1>1, PTL DEF Spec

\* Every variable of the registry keeps its type.
THEOREM RegistryTypes == Spec => []TypeOK
<1>1. RegistryInv => TypeOK
  BY DEF RegistryInv
<1>2. QED BY RegistryInvariant, <1>1, PTL

\* Whatever is registered, updated and deleted, handleTrap's event gives the address the
\* trap came from: deviceCache is keyed by the address of the device it has.
THEOREM SourceIsGiven == Spec => []EventsGiveTheirSource
<1>1. RegistryInv => EventsGiveTheirSource
  BY DEF RegistryInv, Keyed, EventsGiveTheirSource, Reports
<1>2. QED BY RegistryInvariant, <1>1, PTL

\* RegisterDevice and UnregisterDevice, called by the start and by any number of requests,
\* leave deviceCache right at every address that no two of them had in hand at once and
\* at which nothing failed or was updated since the process started.
THEOREM AttributedUnlessOverlap == Spec => []TrapsAreAttributed
<1>1. RegistryInv => TrapsAreAttributed
  BY DEF RegistryInv, AddressRight, RegisteredIsStored, ListedIsRegistered, TrapsAreAttributed
<1>2. QED BY RegistryInvariant, <1>1, PTL
=============================================================================
