--------------------------- MODULE Network_proofs ---------------------------
(***************************************************************************)
(* Network: no two units of a site get the same address, for any number of  *)
(* units, sites, names, addresses and overlapping requests.                 *)
(***************************************************************************)
EXTENDS Network, TLAPS

-----------------------------------------------------------------------------
(* Types.                                                                   *)

LEMMA SavingType ==
  ASSUME NEW step \in {"idle", "save.check", "save.write"},
         NEW u \in Units \cup {NoUnit}, NEW a \in Addresses \cup {NoAddress}
  PROVE  Saving(step, u, a) \in Requests
BY DEF Saving, Requests

LEMMA NoRequestType == NoRequest \in Requests
BY SavingType DEF NoRequest

LEMMA OvertakenType ==
  ASSUME NEW others \in [Slots -> Requests]
  PROVE  Overtaken(others) \in [Slots -> Requests]
BY DEF Overtaken, Requests

LEMMA SiteNamedType ==
  ASSUME NEW n
  PROVE  /\ SiteNamed(n) \in Sites \cup {NoSite}
         /\ SiteNamed(n) # NoSite => site[SiteNamed(n)] = n /\ n # NoName
BY DEF SiteNamed

\* Every request saves the form of some unit.
Served == \A p \in Slots : req[p].at # "idle" => req[p].unit \in Units

TypeInv == TypeOK /\ Served

LEMMA TypeInit == Init => TypeInv
BY NoRequestType DEF Init, TypeInv, TypeOK, Served, NoRequest, Saving

LEMMA OvertakenServed ==
  ASSUME NEW others \in [Slots -> Requests], NEW p \in Slots
  PROVE  /\ Overtaken(others)[p].at = others[p].at
         /\ Overtaken(others)[p].unit = others[p].unit
BY DEF Overtaken, Requests

\* What the slots carry, whatever becomes of one of them.
LEMMA SlotServed ==
  ASSUME TypeInv, NEW p \in Slots, NEW r \in Requests,
         r.at # "idle" => r.unit \in Units,
         \/ req' = [req EXCEPT ![p] = r]
         \/ req' = Overtaken([req EXCEPT ![p] = r])
  PROVE  req' \in [Slots -> Requests] /\ Served'
<1> DEFINE others == [req EXCEPT ![p] = r]
<1>1. others \in [Slots -> Requests]
  BY DEF TypeInv, TypeOK
<1>2. \A q \in Slots : others[q].at # "idle" => others[q].unit \in Units
  BY DEF TypeInv, TypeOK, Served
<1>3. CASE req' = others
  BY <1>1, <1>2, <1>3 DEF Served
<1>4. CASE req' = Overtaken(others)
  <2>1. req' \in [Slots -> Requests]
    BY <1>1, <1>4, OvertakenType
  <2>2. QED BY <1>1, <1>2, <1>4, <2>1, OvertakenServed DEF Served
<1>5. QED BY <1>3, <1>4

LEMMA TypeNext == TypeInv /\ [Next]_vars => TypeInv'
<1> SUFFICES ASSUME TypeInv, [Next]_vars PROVE TypeOK' /\ Served'
  BY DEF TypeInv
<1> USE DEF TypeInv
<1>0. NoRequest \in Requests /\ NoRequest.at = "idle"
  BY NoRequestType DEF NoRequest, Saving
<1>1. ASSUME NEW p \in Slots, NEW u \in Units, NEW a \in Addresses \cup {NoAddress},
             UpsertStage1A(p, u, a)
      PROVE  TypeOK' /\ Served'
  <2> DEFINE r == Saving(IF a = NoAddress THEN "save.write" ELSE "save.check", u, a)
  <2>1. r \in Requests /\ r.unit \in Units
    BY SavingType DEF Saving
  <2>2. req' \in [Slots -> Requests] /\ Served'
    BY <1>1, <2>1, SlotServed DEF UpsertStage1A
  <2>3. QED BY <1>1, <2>2 DEF UpsertStage1A, TypeOK
<1>2. ASSUME NEW p \in Slots, CheckAddress(p) PROVE TypeOK' /\ Served'
  <2> DEFINE r == [req[p] EXCEPT !.at = "save.write"]
  <2>1. r \in Requests /\ r.unit \in Units
    BY <1>2 DEF TypeOK, Served, Requests, CheckAddress
  <2>2. req' \in [Slots -> Requests] /\ Served'
    BY <1>0, <1>2, <2>1, SlotServed DEF CheckAddress, Finish, TypeOK
  <2>3. QED BY <1>2, <2>2 DEF CheckAddress, TypeOK
<1>3. ASSUME NEW p \in Slots, WriteAddress(p) PROVE TypeOK' /\ Served'
  <2>1. req[p].unit \in Units /\ req[p].address \in Addresses \cup {NoAddress}
    BY <1>3 DEF TypeOK, Served, Requests, WriteAddress
  <2>2. req' \in [Slots -> Requests] /\ Served'
    BY <1>0, <1>3, SlotServed DEF WriteAddress
  <2>3. QED BY <1>3, <2>1, <2>2 DEF WriteAddress, TypeOK
<1>4. ASSUME NEW p \in Slots, Abort(p) PROVE TypeOK' /\ Served'
  <2>1. req' \in [Slots -> Requests] /\ Served'
    BY <1>0, <1>4, SlotServed DEF Abort, Finish
  <2>2. QED BY <1>4, <2>1 DEF Abort, TypeOK
<1>5. ASSUME NEW u \in Units, NEW n \in Names \cup {NoName}, UpdateUnitIdentity(u, n)
      PROVE  TypeOK' /\ Served'
  <2>1. SiteNamed(n) \in Sites \cup {NoSite} /\ Overtaken(req) \in [Slots -> Requests]
    BY SiteNamedType, OvertakenType DEF TypeOK
  <2>2. branch' \in [Units -> Names \cup {NoName}] /\ place' \in [Units -> Sites \cup {NoSite}]
    BY <1>5, <2>1 DEF UpdateUnitIdentity, TypeOK
  <2>3. sound' \subseteq Units /\ req' \in [Slots -> Requests]
    BY <1>5, <2>1 DEF UpdateUnitIdentity, TypeOK
  <2>4. Served'
    BY <1>5, OvertakenServed DEF UpdateUnitIdentity, TypeOK, Served
  <2>5. QED BY <1>5, <2>2, <2>3, <2>4 DEF UpdateUnitIdentity, TypeOK
<1>6. ASSUME NEW s \in Sites, NEW n \in Names, NameSite(s, n) PROVE TypeOK' /\ Served'
  BY <1>6 DEF NameSite, NameFree, TypeOK, Served
<1>7. CASE UNCHANGED vars
  BY <1>7 DEF vars, TypeOK, Served
<1>8. QED BY <1>1, <1>2, <1>3, <1>4, <1>5, <1>6, <1>7 DEF Next, CreateSite, UpdateSite

\* What is stored and carried is what the columns allow, and sites keep
\* different names.
THEOREM TypeCorrect == Spec => []TypeOK
<1>1. TypeInv => TypeOK
  BY DEF TypeInv
<1>2. QED BY <1>1, TypeInit, TypeNext, PTL DEF Spec

-----------------------------------------------------------------------------
(* Addresses.                                                               *)

\* The lookup of a request that nobody has overtaken still holds.
LookedUp ==
  \A p \in Slots :
    req[p].at = "save.write" /\ req[p].alone /\ req[p].address # NoAddress
      => ~clientIPInUseAtSameSite(req[p].unit, req[p].address)

\* Two units whose addresses were looked up without a gap are apart by the names
\* they carry ...
NamesApart ==
  \A u, v \in sound :
    u # v /\ address[u] = address[v] /\ address[u] # NoAddress
      => branch[u] # branch[v] \/ branch[u] = NoName

\* ... and then, as far as they still carry their site's, by their sites.
LEMMA SitesApart == TypeOK /\ NamesApart => AddressesApart
<1> SUFFICES ASSUME TypeOK, NamesApart,
                    NEW u \in sound, NEW v \in sound,
                    u # v, address[u] = address[v], address[u] # NoAddress,
                    AtHome(u), AtHome(v), place[u] = place[v], place[u] # NoSite
             PROVE  FALSE
  BY DEF NamesApart, AddressesApart
<1>1. site[place[u]] = branch[u] /\ branch[u] # NoName
  BY SiteNamedType DEF AtHome
<1>2. site[place[v]] = branch[v]
  BY SiteNamedType DEF AtHome
<1>3. QED BY <1>1, <1>2 DEF NamesApart

AddressInv == TypeInv /\ LookedUp /\ NamesApart

LEMMA AddressInvInit == Init => AddressInv
BY TypeInit DEF Init, AddressInv, LookedUp, NamesApart, NoRequest, Saving

\* Requests overtaken by a write rely on nothing.
LEMMA OvertakenLookedUp ==
  ASSUME TypeOK, NEW others \in [Slots -> Requests], NEW p \in Slots
  PROVE  ~(Overtaken(others)[p].at = "save.write" /\ Overtaken(others)[p].alone)
BY DEF Overtaken, Requests

LEMMA AddressInvNext == AddressInv /\ [Next]_vars => AddressInv'
<1> SUFFICES ASSUME AddressInv, [Next]_vars PROVE LookedUp' /\ NamesApart'
  BY TypeNext DEF AddressInv
<1> USE DEF AddressInv, TypeInv
<1>1. ASSUME NEW p \in Slots, NEW u \in Units, NEW a \in Addresses \cup {NoAddress},
             UpsertStage1A(p, u, a)
      PROVE  LookedUp' /\ NamesApart'
  <2>1. NamesApart'
    BY <1>1 DEF UpsertStage1A, NamesApart
  <2>2. \A q \in Slots : req'[q] = req[q] \/ req'[q].at # "save.write" \/ req'[q].address = NoAddress
    BY <1>1 DEF UpsertStage1A, Saving, TypeOK
  <2>3. QED BY <1>1, <2>1, <2>2 DEF UpsertStage1A, LookedUp, clientIPInUseAtSameSite
<1>2. ASSUME NEW p \in Slots, CheckAddress(p) PROVE LookedUp' /\ NamesApart'
  <2>1. NamesApart'
    BY <1>2 DEF CheckAddress, NamesApart
  <2>2. \A q \in Slots \ {p} : req'[q] = req[q]
    BY <1>2 DEF CheckAddress, Finish, TypeOK
  <2>3. \/ req'[p] = NoRequest
        \/ /\ ~clientIPInUseAtSameSite(req[p].unit, req[p].address)
           /\ req'[p] = [req[p] EXCEPT !.at = "save.write"]
    BY <1>2 DEF CheckAddress, Finish, TypeOK
  <2>4. req'[p].at = "save.write" => ~clientIPInUseAtSameSite(req'[p].unit, req'[p].address)
    BY <2>3 DEF NoRequest, Saving, TypeOK, Requests
  <2>5. QED BY <1>2, <2>1, <2>2, <2>4 DEF CheckAddress, LookedUp, clientIPInUseAtSameSite
<1>3. ASSUME NEW p \in Slots, WriteAddress(p) PROVE LookedUp' /\ NamesApart'
  <2> DEFINE r == req[p]
  <2>1. LookedUp'
    <3>1. [req EXCEPT ![p] = NoRequest] \in [Slots -> Requests]
      BY NoRequestType DEF TypeOK
    <3>2. QED BY <1>3, <3>1, OvertakenLookedUp DEF WriteAddress, LookedUp
  <2>2. CASE ~r.alone
    <3>1. sound' \subseteq sound \ {r.unit} /\ \A v \in sound' : address'[v] = address[v]
      BY <1>3, <2>2 DEF WriteAddress, TypeOK
    <3>2. QED BY <1>3, <2>1, <3>1 DEF WriteAddress, NamesApart
  <2>3. CASE r.alone
    <3>1. r.address # NoAddress => \A v \in Units \ {r.unit} :
            address[v] = r.address => branch[v] = NoName \/ branch[v] # branch[r.unit]
      BY <1>3, <2>3 DEF WriteAddress, LookedUp, clientIPInUseAtSameSite
    <3>2. /\ sound' = sound \cup {r.unit} /\ branch' = branch
          /\ \A v \in Units : address'[v] = IF v = r.unit THEN r.address ELSE address[v]
      BY <1>3, <2>3 DEF WriteAddress, TypeOK
    <3>3. SUFFICES ASSUME NEW u \in sound', NEW v \in sound', u # v,
                          address'[u] = address'[v], address'[u] # NoAddress
                   PROVE  branch[u] # branch[v] \/ branch[u] = NoName
      BY <2>1, <3>2 DEF NamesApart
    <3>4. u \in Units /\ v \in Units
      BY <3>3, TypeNext DEF TypeOK
    <3>5. CASE u # r.unit /\ v # r.unit
      BY <3>2, <3>3, <3>4, <3>5 DEF NamesApart
    <3>6. CASE u = r.unit
      BY <3>1, <3>2, <3>3, <3>4, <3>6
    <3>7. CASE v = r.unit
      BY <3>1, <3>2, <3>3, <3>4, <3>7
    <3>8. QED BY <3>5, <3>6, <3>7
  <2>4. QED BY <2>2, <2>3
<1>4. ASSUME NEW p \in Slots, Abort(p) PROVE LookedUp' /\ NamesApart'
  <2>1. \A q \in Slots : req'[q] = req[q] \/ req'[q].at = "idle"
    BY <1>4 DEF Abort, Finish, NoRequest, Saving, TypeOK
  <2>2. QED BY <1>4, <2>1 DEF Abort, LookedUp, NamesApart, clientIPInUseAtSameSite
<1>5. ASSUME NEW u \in Units, NEW n \in Names \cup {NoName}, UpdateUnitIdentity(u, n)
      PROVE  LookedUp' /\ NamesApart'
  <2>1. CASE n = branch[u]
    <3>1. branch' = branch
      BY <1>5, <2>1 DEF UpdateUnitIdentity, TypeOK
    <3>2. QED BY <1>5, <2>1, <3>1
          DEF UpdateUnitIdentity, LookedUp, NamesApart, clientIPInUseAtSameSite
  <2>2. CASE n # branch[u]
    <3>1. LookedUp'
      BY <1>5, <2>2, OvertakenLookedUp DEF UpdateUnitIdentity, LookedUp, TypeOK
    <3>2. \A v \in sound' : v \in sound /\ branch'[v] = branch[v]
      BY <1>5, <2>2 DEF UpdateUnitIdentity, TypeOK
    <3>3. QED BY <1>5, <3>1, <3>2 DEF UpdateUnitIdentity, NamesApart
  <2>3. QED BY <2>1, <2>2
<1>6. ASSUME NEW s \in Sites, NEW n \in Names, NameSite(s, n) PROVE LookedUp' /\ NamesApart'
  BY <1>6 DEF NameSite, LookedUp, NamesApart, clientIPInUseAtSameSite
<1>7. CASE UNCHANGED vars
  BY <1>7 DEF vars, LookedUp, NamesApart, clientIPInUseAtSameSite
<1>8. QED BY <1>1, <1>2, <1>3, <1>4, <1>5, <1>6, <1>7 DEF Next, CreateSite, UpdateSite

\* No two units of a site have one address, except through a move, a rename or a
\* write between the look-up and the write of one of them.
THEOREM AddressesStayApart == Spec => []AddressesApart
<1>1. AddressInv => AddressesApart
  BY SitesApart DEF AddressInv, TypeInv
<1>2. QED BY <1>1, AddressInvInit, AddressInvNext, PTL DEF Spec
=============================================================================
