------------------------------ MODULE Network ------------------------------
(***************************************************************************)
(* Client IP addresses (internal/hardware/stage1a.go): no two units of a    *)
(* site should have the same one.  Saving a Stage 1A form looks for a clash *)
(* and writes in two statements; what a site is, is the text in             *)
(* allocated_branch, which UpdateUnitIdentity changes unasked and a rename  *)
(* of the site (internal/sitelocation) leaves as it was.                    *)
(***************************************************************************)
EXTENDS FiniteSets, TLC

CONSTANTS Units, NoUnit,
          Sites, NoSite, \* site_locations rows
          Names, NoName, \* names of sites, and a unit without a branch
          Addresses, NoAddress,
          Slots          \* requests the server handles at the same time

ASSUME NetworkAssumption ==
  /\ NoUnit \notin Units /\ NoSite \notin Sites
  /\ NoName \notin Names /\ NoAddress \notin Addresses

VARIABLES
  branch,  \* hardware_units.allocated_branch
  address, \* device_configurations.client_ip_address
  site,    \* site_locations: the name of each row, NoName before it is created
  req,     \* the Stage 1A save each slot is serving
  place,   \* history: the site each unit was allocated to
  sound    \* history: the units whose address was looked up and written with no
           \* other write in between, and that nobody moved since

vars == <<branch, address, site, req, place, sound>>

-----------------------------------------------------------------------------
Requests == [at : {"idle", "save.check", "save.write"}, unit : Units \cup {NoUnit},
             address : Addresses \cup {NoAddress}, alone : BOOLEAN]
Saving(step, u, a) == [at |-> step, unit |-> u, address |-> a, alone |-> TRUE]
NoRequest == Saving("idle", NoUnit, NoAddress)
Finish(p) == req' = [req EXCEPT ![p] = NoRequest]

\* A write between another request's look-up and its write.
Overtaken(others) ==
  [p \in Slots |-> [others[p] EXCEPT !.alone = @ /\ others[p].at # "save.write"]]

SiteNamed(n) == IF \E s \in Sites : site[s] = n /\ n # NoName
                THEN CHOOSE s \in Sites : site[s] = n ELSE NoSite

-----------------------------------------------------------------------------
(* UpsertStage1A.                                                           *)

\* A form without an address is written without a look-up.
UpsertStage1A(p, u, a) ==
  /\ req[p].at = "idle"
  /\ req' = [req EXCEPT ![p] = Saving(IF a = NoAddress THEN "save.write" ELSE "save.check", u, a)]
  /\ UNCHANGED <<branch, address, site, place, sound>>

\* Mutant: only the units of other branches are looked at.
clientIPInUseElsewhere(u, a) ==
  \E v \in Units \ {u} : address[v] = a /\ branch[v] # NoName /\ branch[v] # branch[u]

\* A unit without a branch clashes with none.
clientIPInUseAtSameSite(u, a) ==
  \E v \in Units \ {u} : address[v] = a /\ branch[v] # NoName /\ branch[v] = branch[u]

CheckAddress(p) ==
  LET r == req[p] IN
  /\ r.at = "save.check"
  /\ IF clientIPInUseAtSameSite(r.unit, r.address)
     THEN Finish(p)  \* ErrClientIPInUse
     ELSE req' = [req EXCEPT ![p].at = "save.write"]
  /\ UNCHANGED <<branch, address, site, place, sound>>

WriteAddress(p) ==
  LET r == req[p] IN
  /\ r.at = "save.write"
  /\ address' = [address EXCEPT ![r.unit] = r.address]
  /\ sound' = IF r.alone THEN sound \cup {r.unit} ELSE sound \ {r.unit}
  /\ req' = Overtaken([req EXCEPT ![p] = NoRequest])
  /\ UNCHANGED <<branch, site, place>>

Abort(p) ==
  /\ req[p].at # "idle"
  /\ Finish(p)
  /\ UNCHANGED <<branch, address, site, place, sound>>

-----------------------------------------------------------------------------
(* Units move, sites are created and renamed; no address is looked at.      *)

UpdateUnitIdentity(u, n) ==
  /\ branch' = [branch EXCEPT ![u] = n]
  /\ place' = [place EXCEPT ![u] = SiteNamed(n)]
  /\ sound' = IF n = branch[u] THEN sound ELSE sound \ {u}
  /\ req' = IF n = branch[u] THEN req ELSE Overtaken(req)
  /\ UNCHANGED <<address, site>>

\* Mutant: nothing keeps two sites from having one name.
NameFreeAlways(n) == TRUE

NameFree(n) == \A s \in Sites : site[s] # n

\* A name in use is refused by the unique constraint.
NameSite(s, n) ==
  /\ NameFree(n)
  /\ site' = [site EXCEPT ![s] = n]
  /\ UNCHANGED <<branch, address, req, place, sound>>

CreateSite(s, n) == site[s] = NoName /\ NameSite(s, n)
UpdateSite(s, n) == site[s] # NoName /\ NameSite(s, n)

-----------------------------------------------------------------------------
Init ==
  /\ branch = [u \in Units |-> NoName]
  /\ address = [u \in Units |-> NoAddress]
  /\ site = [s \in Sites |-> NoName]
  /\ req = [p \in Slots |-> NoRequest]
  /\ place = [u \in Units |-> NoSite]
  /\ sound = {}

Next ==
  \/ \E p \in Slots :
       \/ \E u \in Units, a \in Addresses \cup {NoAddress} : UpsertStage1A(p, u, a)
       \/ CheckAddress(p) \/ WriteAddress(p) \/ Abort(p)
  \/ \E u \in Units, n \in Names \cup {NoName} : UpdateUnitIdentity(u, n)
  \/ \E s \in Sites, n \in Names : CreateSite(s, n) \/ UpdateSite(s, n)

Spec == Init /\ [][Next]_vars
Alike == Permutations(Units) \cup Permutations(Slots)
           \cup Permutations(Names) \cup Permutations(Sites)

-----------------------------------------------------------------------------
(* Properties.                                                              *)

\* The tables hold what their columns allow; no two sites have one name.
TypeOK ==
  /\ branch \in [Units -> Names \cup {NoName}]
  /\ address \in [Units -> Addresses \cup {NoAddress}]
  /\ site \in [Sites -> Names \cup {NoName}]
  /\ \A s, t \in Sites : s # t /\ site[s] = site[t] => site[s] = NoName
  /\ req \in [Slots -> Requests]
  /\ place \in [Units -> Sites \cup {NoSite}]
  /\ sound \subseteq Units

\* The name a unit carries is still that of the site it was allocated to.
AtHome(u) == place[u] = SiteNamed(branch[u])

\* Two units of one site have the same address only if one of them was moved
\* there after its address was saved, or another write fell between the look-up
\* and the write of one of them, or the site was renamed after one of them was
\* allocated to it.
AddressesApart ==
  \A u, v \in sound :
    u # v /\ address[u] = address[v] /\ address[u] # NoAddress =>
      /\ branch[u] # branch[v] \/ branch[u] = NoName
      /\ AtHome(u) /\ AtHome(v) => place[u] # place[v] \/ place[u] = NoSite
=============================================================================
