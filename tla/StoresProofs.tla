---------------------------- MODULE StoresProofs -----------------------------
(***************************************************************************)
(* Proofs about the three stores that MCStores puts side by side.          *)
(* AccountStore, for every set of accounts, operations and requests and    *)
(* every kind of mishap: the types, at most one account is active, the     *)
(* entry and the token of an account that is not torn agree, and the token *)
(* that is found is the newest.                                            *)
(* InstanceStore, for every set of instances, operations, requests and     *)
(* files: the types, and the manifest of an instance on which operations   *)
(* did not overlap is what running them one after the other makes.         *)
(* PackFiles, for every set of packs, names, operations and requests and   *)
(* every ledger it may start with: the types, and of packs that nothing    *)
(* spoils the rows have their files and the files their rows.              *)
(***************************************************************************)
EXTENDS AccountStore, InstanceStore, PackFiles, TLAPS

-----------------------------------------------------------------------------
(* Accounts. *)

OneIn(accounts) ==
  \A a, b \in Ids : accounts[a] = "active" /\ accounts[b] = "active" => a = b

\* No list that was read has two active accounts.
SeenOneActive == \A o \in Ops : OneIn(seenList[o])

\* Two operations in flight have torn their accounts.
Alone ==
  \A o, p \in Ops : o # p /\ InFlight(o) /\ InFlight(p) => Id(o) \in torn

\* Of accounts that are not torn, an operation that is about to replace a file
\* has read what is in it.
SnapshotsHold ==
  \A o \in Ops : \A id \in Ids \ torn :
    /\ pc[o] = "save" => (seenList[o][id] = "absent" <=> list[id] = "absent")
    /\ pc[o] = "encwrite" => seenEnc[o][id] = enc[id]

HasToken(id) == keyring[id] # None \/ enc[id] # None
IsListed(id) == list[id] # "absent"

\* How far the entry and the token of its account are apart, stage by stage.
StageOK(o) ==
  LET id == Id(o) IN
  /\ Kind(o) = "add" =>
       /\ pc[o] \in {"store", "encwrite", "load", "save"}
       /\ pc[o] \in {"store", "encwrite"} => (IsListed(id) <=> HasToken(id))
       /\ pc[o] = "encwrite" => got[o] # None
       /\ pc[o] \in {"load", "save"} => HasToken(id)
  /\ Kind(o) = "remove" =>
       /\ pc[o] \in {"encread", "encwrite", "load", "save"}
       /\ keyring[id] = None /\ got[o] = None
       /\ pc[o] \in {"load", "save"} => enc[id] = None
  /\ Kind(o) = "activate" => pc[o] = "save" /\ IsListed(id) /\ HasToken(id)
  /\ Kind(o) = "refresh" =>
       /\ pc[o] \in {"chain", "store", "encwrite", "load", "save"}
       /\ pc[o] = "encwrite" => got[o] # None
       /\ IsListed(id) /\ HasToken(id)
StagesHold == \A o \in Ops : InFlight(o) /\ Id(o) \notin torn => StageOK(o)

\* An operation that has not begun holds nothing.
NothingYet == \A o \in Ops : pc[o] = "start" => got[o] = None

Settled ==
  \A id \in Ids \ torn : (\A o \in Ops : InFlight(o) => Id(o) # id) =>
    (IsListed(id) <=> HasToken(id))

IInv == /\ TypeOK /\ OneActive /\ SeenOneActive /\ NothingYet
        /\ Alone /\ SnapshotsHold /\ StagesHold /\ Settled

\* A request has a kind and an account.
LEMMA RequestFields ==
  ASSUME TypeOK, NEW o \in Ops
  PROVE  Kind(o) \in {"add", "remove", "activate", "refresh"} /\ Id(o) \in Ids
BY RequestsAssumption DEF TypeOK, Request, Kind, Id

\* What an operation makes of a list is a list with at most one active account,
\* and only its own account comes or goes.
LEMMA EffectIsList ==
  ASSUME TypeOK, NEW o \in Ops, NEW accounts \in List, OneIn(accounts)
  PROVE  /\ Effect(o, accounts) \in List
         /\ OneIn(Effect(o, accounts))
         /\ \A id \in Ids \ {Id(o)} :
              Effect(o, accounts)[id] = "absent" <=> accounts[id] = "absent"
         /\ Kind(o) = "add" => Effect(o, accounts)[Id(o)] # "absent"
         /\ Kind(o) = "remove" => Effect(o, accounts)[Id(o)] = "absent"
         /\ Kind(o) = "activate" => Effect(o, accounts)[Id(o)] # "absent"
         /\ Kind(o) = "refresh" => Effect(o, accounts) = accounts
<1>1. Kind(o) \in {"add", "remove", "activate", "refresh"} /\ Id(o) \in Ids
  BY RequestFields
<1>2. Own(o, accounts) \in {"absent", "idle", "active"}
  BY <1>1 DEF Own, List
<1>3. Effect(o, accounts) \in List
  BY <1>2 DEF Effect, List
<1>4. OneIn(Effect(o, accounts))
  <2>1. CASE Kind(o) = "activate"
    BY <1>1, <2>1 DEF Effect, OneIn
  <2>2. CASE Kind(o) # "activate"
    BY <1>1, <2>2 DEF Effect, Own, OneIn, Listed
  <2> QED BY <2>1, <2>2
<1>5. \A id \in Ids \ {Id(o)} :
        Effect(o, accounts)[id] = "absent" <=> accounts[id] = "absent"
  BY DEF Effect, List
<1>6. /\ Kind(o) = "add" => Effect(o, accounts)[Id(o)] # "absent"
      /\ Kind(o) = "remove" => Effect(o, accounts)[Id(o)] = "absent"
      /\ Kind(o) = "activate" => Effect(o, accounts)[Id(o)] # "absent"
  BY <1>1 DEF Effect, Own, Listed
<1>7. Kind(o) = "refresh" => Effect(o, accounts) = accounts
  BY <1>1 DEF Effect, Own, List
<1> QED BY <1>3, <1>4, <1>5, <1>6, <1>7

\* The files of Init agree, whichever accounts there are at first.
LEMMA InitIInv == Init => IInv
<1> SUFFICES ASSUME Init PROVE IInv
  OBVIOUS
<1> USE DEF Init
<1>1. PICK active \in SUBSET Present :
        /\ \A a, b \in active : a = b
        /\ list = [id \in Ids |-> IF id \in active THEN "active"
                                  ELSE IF id \in Present THEN "idle" ELSE "absent"]
  OBVIOUS
<1>2. PICK inKeyring \in SUBSET Present :
        /\ keyring = [id \in Ids |-> IF id \in inKeyring THEN id ELSE None]
        /\ enc = [id \in Ids |-> IF id \in Present \ inKeyring THEN id ELSE None]
  OBVIOUS
<1>3. TypeOK
  <2>1. list \in List
    BY <1>1 DEF List
  <2>2. keyring \in Store /\ enc \in Store /\ newest \in Store
    BY <1>2 DEF Store, Tokens
  <2> QED BY <2>1, <2>2 DEF TypeOK, Stages, List, Store, Tokens
<1>4. OneActive /\ SeenOneActive
  BY <1>1 DEF OneActive, SeenOneActive, OneIn
<1>5. NothingYet /\ Alone /\ SnapshotsHold /\ StagesHold
  BY DEF NothingYet, Alone, SnapshotsHold, StagesHold, InFlight
<1>6. Settled
  BY <1>1, <1>2, PresentAssumption, NoneAssumption DEF Settled, IsListed, HasToken, InFlight, Tokens
<1> QED BY <1>3, <1>4, <1>5, <1>6 DEF IInv

\* Operations that meet another one tear both accounts.
LEMMA MeetsBoth ==
  ASSUME NEW o \in Ops, NEW p \in Ops, o # p, InFlight(p)
  PROVE  Id(o) \in Meets(o) /\ Id(p) \in Meets(o)
BY DEF Meets

\* What an operation meets are accounts.
LEMMA MeetsIds ==
  ASSUME TypeOK, NEW o \in Ops
  PROVE  Meets(o) \subseteq Ids
BY RequestFields DEF Meets

-----------------------------------------------------------------------------
(* Each action preserves the invariant. *)

\* A login that meets no other operation finds its account settled.
LEMMA LoginStep ==
  ASSUME IInv, NEW o \in Ops, Login(o)
  PROVE  IInv'
<1> USE DEF IInv
<1>0. /\ Kind(o) \in {"add", "remove", "activate", "refresh"} /\ Id(o) \in Ids
      /\ Meets(o) \subseteq Ids
      /\ \A p \in Ops : Kind(p)' = Kind(p) /\ Id(p)' = Id(p)
  BY RequestFields, MeetsIds DEF Login, Issue, Enter, Kind, Id
<1>1. TypeOK'
  BY <1>0, NoneAssumption DEF Login, Issue, Enter, Go, TypeOK, Stages, Tokens, Store, List, Found
<1>2. OneActive' /\ SeenOneActive' /\ NothingYet'
  BY <1>0, NoneAssumption DEF Login, Issue, Enter, Go, TypeOK, OneActive, SeenOneActive, OneIn, NothingYet
<1>3. Alone'
  BY <1>0, MeetsBoth DEF Login, Issue, Enter, Go, TypeOK, Alone, InFlight
<1>4. SnapshotsHold'
  BY <1>0, NoneAssumption DEF Login, Issue, Enter, Go, TypeOK, SnapshotsHold
<1>5. StagesHold'
  BY <1>0, MeetsBoth, NoneAssumption DEF Login, Issue, Enter, Go, TypeOK, Alone, SnapshotsHold,
    NothingYet, Settled, StagesHold, StageOK, InFlight, IsListed, HasToken, Tokens, Found, Listed
<1>6. Settled'
  BY <1>0, NoneAssumption DEF Login, Issue, Enter, Go, TypeOK, SnapshotsHold, StagesHold, StageOK, Settled,
    InFlight, IsListed, HasToken
<1> QED BY <1>1, <1>2, <1>3, <1>4, <1>5, <1>6

\* A launch that finds a token has a listed account, unless it is torn.
LEMMA LoadTokenStep ==
  ASSUME IInv, NEW o \in Ops, LoadToken(o)
  PROVE  IInv'
<1> USE DEF IInv
<1>0. /\ Kind(o) \in {"add", "remove", "activate", "refresh"} /\ Id(o) \in Ids
      /\ Meets(o) \subseteq Ids
      /\ \A p \in Ops : Kind(p)' = Kind(p) /\ Id(p)' = Id(p)
  BY RequestFields, MeetsIds DEF LoadToken, Take, Enter, Kind, Id
<1>1. TypeOK'
  BY <1>0 DEF LoadToken, Take, Enter, Readings, Go, TypeOK, Stages, Tokens, Store, List, Found
<1>2. OneActive' /\ SeenOneActive' /\ NothingYet'
  BY <1>0 DEF LoadToken, Take, Enter, Go, TypeOK, OneActive, SeenOneActive, OneIn, NothingYet
<1>3. Alone'
  BY <1>0, MeetsBoth DEF LoadToken, Take, Enter, Go, TypeOK, Alone, InFlight
<1>4. SnapshotsHold'
  BY <1>0 DEF LoadToken, Take, Enter, Go, TypeOK, SnapshotsHold
<1>5. StagesHold'
  BY <1>0, MeetsBoth, NoneAssumption DEF LoadToken, Take, Enter, Readings, Go, TypeOK, Alone, SnapshotsHold,
    NothingYet, Settled, StagesHold, StageOK, InFlight, IsListed, HasToken, Tokens, Found, Listed
<1>6. Settled'
  BY <1>0, NoneAssumption DEF LoadToken, Take, Enter, Go, TypeOK, SnapshotsHold, StagesHold, StageOK, Settled,
    InFlight, IsListed, HasToken
<1> QED BY <1>1, <1>2, <1>3, <1>4, <1>5, <1>6

\* A new token changes no file.
LEMMA RefreshStep ==
  ASSUME IInv, NEW o \in Ops, Refresh(o)
  PROVE  IInv'
<1> USE DEF IInv
<1>0. /\ Kind(o) \in {"add", "remove", "activate", "refresh"} /\ Id(o) \in Ids
      /\ Meets(o) \subseteq Ids
      /\ \A p \in Ops : Kind(p)' = Kind(p) /\ Id(p)' = Id(p)
  BY RequestFields, MeetsIds DEF Refresh, Issue, Kind, Id
<1>1. TypeOK'
  BY <1>0, NoneAssumption DEF Refresh, Issue, Go, TypeOK, Stages, Tokens, Store, List, Found
<1>2. OneActive' /\ SeenOneActive' /\ NothingYet'
  BY <1>0, NoneAssumption DEF Refresh, Issue, Go, TypeOK, OneActive, SeenOneActive, OneIn, NothingYet
<1>3. Alone'
  BY <1>0, MeetsBoth DEF Refresh, Issue, Go, TypeOK, Alone, InFlight
<1>4. SnapshotsHold'
  BY <1>0, NoneAssumption DEF Refresh, Issue, Go, TypeOK, SnapshotsHold
<1>5. StagesHold'
  BY <1>0, MeetsBoth, NoneAssumption DEF Refresh, Issue, Go, TypeOK, Alone, SnapshotsHold,
    NothingYet, Settled, StagesHold, StageOK, InFlight, IsListed, HasToken, Tokens, Found, Listed
<1>6. Settled'
  BY <1>0, NoneAssumption DEF Refresh, Issue, Go, TypeOK, SnapshotsHold, StagesHold, StageOK, Settled,
    InFlight, IsListed, HasToken
<1> QED BY <1>1, <1>2, <1>3, <1>4, <1>5, <1>6

\* An operation that ends at once has changed nothing.
LEMMA NotFoundStep ==
  ASSUME IInv, NEW o \in Ops, NotFound(o)
  PROVE  IInv'
<1> USE DEF IInv
<1>0. /\ Kind(o) \in {"add", "remove", "activate", "refresh"} /\ Id(o) \in Ids
      /\ Meets(o) \subseteq Ids
      /\ \A p \in Ops : Kind(p)' = Kind(p) /\ Id(p)' = Id(p)
  BY RequestFields, MeetsIds DEF NotFound, Kind, Id
<1>1. TypeOK'
  BY <1>0 DEF NotFound, Readings, Go, TypeOK, Stages, Tokens, Store, List, Found
<1>2. OneActive' /\ SeenOneActive' /\ NothingYet'
  BY <1>0 DEF NotFound, Go, TypeOK, OneActive, SeenOneActive, OneIn, NothingYet
<1>3. Alone'
  BY <1>0, MeetsBoth DEF NotFound, Go, TypeOK, Alone, InFlight
<1>4. SnapshotsHold'
  BY <1>0 DEF NotFound, Go, TypeOK, SnapshotsHold
<1>5. StagesHold'
  BY <1>0, MeetsBoth, NoneAssumption DEF NotFound, Readings, Go, TypeOK, Alone, SnapshotsHold,
    NothingYet, Settled, StagesHold, StageOK, InFlight, IsListed, HasToken, Tokens, Found, Listed
<1>6. Settled'
  BY <1>0, NoneAssumption DEF NotFound, Go, TypeOK, SnapshotsHold, StagesHold, StageOK, Settled,
    InFlight, IsListed, HasToken
<1> QED BY <1>1, <1>2, <1>3, <1>4, <1>5, <1>6

\* With the token in the keyring, a login has only its entry to write.
LEMMA StoreInKeyringStep ==
  ASSUME IInv, NEW o \in Ops, StoreInKeyring(o)
  PROVE  IInv'
<1> USE DEF IInv
<1>0. /\ Kind(o) \in {"add", "remove", "activate", "refresh"} /\ Id(o) \in Ids
      /\ Meets(o) \subseteq Ids
      /\ \A p \in Ops : Kind(p)' = Kind(p) /\ Id(p)' = Id(p)
  BY RequestFields, MeetsIds DEF StoreInKeyring, Kind, Id
<1>1. TypeOK'
  BY <1>0 DEF StoreInKeyring, Go, TypeOK, Stages, Tokens, Store, List, Found
<1>2. OneActive' /\ SeenOneActive' /\ NothingYet'
  BY <1>0 DEF StoreInKeyring, Go, TypeOK, OneActive, SeenOneActive, OneIn, NothingYet
<1>3. Alone'
  BY <1>0, MeetsBoth DEF StoreInKeyring, Go, TypeOK, Alone, InFlight
<1>4. SnapshotsHold'
  BY <1>0 DEF StoreInKeyring, Go, TypeOK, SnapshotsHold
<1>5. StagesHold'
  <2> SUFFICES ASSUME NEW p \in Ops, InFlight(p)', (Id(p) \notin torn)'
               PROVE  StageOK(p)'
    BY DEF StagesHold
  <2>1. p = o
    BY <1>0 DEF Alone, StoreInKeyring, Go, TypeOK, InFlight
  <2>2. CASE Id(o) \in torn
    BY <1>0, <2>1, <2>2 DEF StoreInKeyring
  <2>3. CASE Id(o) \notin torn
    <3>1. StageOK(o) /\ pc[o] = "store" /\ got[o] # None /\ Kind(o) \in {"add", "refresh"}
      BY <1>0, <2>3 DEF StoreInKeyring, Go, TypeOK, StagesHold, StageOK, InFlight
    <3>2. keyring'[Id(o)] # None /\ pc'[o] = "load" /\ list' = list
      BY <1>0, <3>1 DEF StoreInKeyring, Go, TypeOK, Store
    <3> QED BY <1>0, <2>1, <3>1, <3>2 DEF StageOK, IsListed, HasToken
  <2> QED BY <2>2, <2>3
<1>6. Settled'
  BY <1>0, NoneAssumption DEF StoreInKeyring, Go, TypeOK, SnapshotsHold, StagesHold, StageOK, Settled,
    InFlight, IsListed, HasToken
<1> QED BY <1>1, <1>2, <1>3, <1>4, <1>5, <1>6

\* What is about to be written is what was read, with one token changed.
LEMMA FallBackStep ==
  ASSUME IInv, NEW o \in Ops, FallBack(o)
  PROVE  IInv'
<1> USE DEF IInv
<1>0. /\ Kind(o) \in {"add", "remove", "activate", "refresh"} /\ Id(o) \in Ids
      /\ Meets(o) \subseteq Ids
      /\ \A p \in Ops : Kind(p)' = Kind(p) /\ Id(p)' = Id(p)
  BY RequestFields, MeetsIds DEF FallBack, Kind, Id
<1>1. TypeOK'
  BY <1>0 DEF FallBack, Go, TypeOK, Stages, Tokens, Store, List, Found
<1>2. OneActive' /\ SeenOneActive' /\ NothingYet'
  BY <1>0 DEF FallBack, Go, TypeOK, OneActive, SeenOneActive, OneIn, NothingYet
<1>3. Alone'
  BY <1>0, MeetsBoth DEF FallBack, Go, TypeOK, Alone, InFlight
<1>4. SnapshotsHold'
  BY <1>0 DEF FallBack, Go, TypeOK, SnapshotsHold
<1>5. StagesHold'
  BY <1>0, MeetsBoth, NoneAssumption DEF FallBack, Go, TypeOK, Alone, SnapshotsHold,
    NothingYet, Settled, StagesHold, StageOK, InFlight, IsListed, HasToken, Tokens, Found, Listed
<1>6. Settled'
  BY <1>0, NoneAssumption DEF FallBack, Go, TypeOK, SnapshotsHold, StagesHold, StageOK, Settled,
    InFlight, IsListed, HasToken
<1> QED BY <1>1, <1>2, <1>3, <1>4, <1>5, <1>6

\* A keyring that keeps the token it should delete tears the account.
LEMMA DeleteFromKeyringStep ==
  ASSUME IInv, NEW o \in Ops, DeleteFromKeyring(o)
  PROVE  IInv'
<1> USE DEF IInv
<1>0. /\ Kind(o) \in {"add", "remove", "activate", "refresh"} /\ Id(o) \in Ids
      /\ Meets(o) \subseteq Ids
      /\ \A p \in Ops : Kind(p)' = Kind(p) /\ Id(p)' = Id(p)
  BY RequestFields, MeetsIds DEF DeleteFromKeyring, Kind, Id
<1>1. TypeOK'
  BY <1>0 DEF DeleteFromKeyring, Go, TypeOK, Stages, Tokens, Store, List, Found
<1>2. OneActive' /\ SeenOneActive' /\ NothingYet'
  BY <1>0 DEF DeleteFromKeyring, Go, TypeOK, OneActive, SeenOneActive, OneIn, NothingYet
<1>3. Alone'
  BY <1>0, MeetsBoth DEF DeleteFromKeyring, Go, TypeOK, Alone, InFlight
<1>4. SnapshotsHold'
  BY <1>0 DEF DeleteFromKeyring, Go, TypeOK, SnapshotsHold
<1>5. StagesHold'
  <2> SUFFICES ASSUME NEW p \in Ops, InFlight(p)', (Id(p) \notin torn)'
               PROVE  StageOK(p)'
    BY DEF StagesHold
  <2>1. p = o
    BY <1>0, MeetsBoth DEF DeleteFromKeyring, Go, TypeOK, InFlight
  <2>2. pc'[o] = "encread" /\ got'[o] = None /\ Kind(o) = "remove"
    BY <1>0 DEF DeleteFromKeyring, Go, TypeOK, NothingYet
  <2>3. keyring'[Id(o)] = None
    BY <1>0, <2>1 DEF DeleteFromKeyring, Go, TypeOK, Store
  <2> QED BY <1>0, <2>1, <2>2, <2>3 DEF StageOK
<1>6. Settled'
  BY <1>0, NoneAssumption DEF DeleteFromKeyring, Go, TypeOK, SnapshotsHold, StagesHold, StageOK, Settled,
    InFlight, IsListed, HasToken
<1> QED BY <1>1, <1>2, <1>3, <1>4, <1>5, <1>6

\* A removal that finds no entry in the file has no token left.
LEMMA ReadEncStep ==
  ASSUME IInv, NEW o \in Ops, ReadEnc(o)
  PROVE  IInv'
<1> USE DEF IInv
<1>0. /\ Kind(o) \in {"add", "remove", "activate", "refresh"} /\ Id(o) \in Ids
      /\ Meets(o) \subseteq Ids
      /\ \A p \in Ops : Kind(p)' = Kind(p) /\ Id(p)' = Id(p)
  BY RequestFields, MeetsIds DEF ReadEnc, Kind, Id
<1>1. TypeOK'
  BY <1>0 DEF ReadEnc, Go, TypeOK, Stages, Tokens, Store, List, Found
<1>2. OneActive' /\ SeenOneActive' /\ NothingYet'
  BY <1>0 DEF ReadEnc, Go, TypeOK, OneActive, SeenOneActive, OneIn, NothingYet
<1>3. Alone'
  BY <1>0, MeetsBoth DEF ReadEnc, Go, TypeOK, Alone, InFlight
<1>4. SnapshotsHold'
  BY <1>0 DEF ReadEnc, Go, TypeOK, SnapshotsHold
<1>5. StagesHold'
  BY <1>0, MeetsBoth, NoneAssumption DEF ReadEnc, Go, TypeOK, Alone, SnapshotsHold,
    NothingYet, Settled, StagesHold, StageOK, InFlight, IsListed, HasToken, Tokens, Found, Listed
<1>6. Settled'
  BY <1>0, NoneAssumption DEF ReadEnc, Go, TypeOK, SnapshotsHold, StagesHold, StageOK, Settled,
    InFlight, IsListed, HasToken
<1> QED BY <1>1, <1>2, <1>3, <1>4, <1>5, <1>6

\* The file is as it was read for every account that is not torn.
LEMMA WriteEncStep ==
  ASSUME IInv, NEW o \in Ops, WriteEnc(o)
  PROVE  IInv'
<1> USE DEF IInv
<1>0. /\ Kind(o) \in {"add", "remove", "activate", "refresh"} /\ Id(o) \in Ids
      /\ Meets(o) \subseteq Ids
      /\ \A p \in Ops : Kind(p)' = Kind(p) /\ Id(p)' = Id(p)
  BY RequestFields, MeetsIds DEF WriteEnc, Kind, Id
<1>1. TypeOK'
  BY <1>0 DEF WriteEnc, Go, TypeOK, Stages, Tokens, Store, List, Found
<1>2. OneActive' /\ SeenOneActive' /\ NothingYet'
  BY <1>0 DEF WriteEnc, Go, TypeOK, OneActive, SeenOneActive, OneIn, NothingYet
<1>3. Alone'
  BY <1>0, MeetsBoth DEF WriteEnc, Go, TypeOK, Alone, InFlight
<1>4. SnapshotsHold'
  <2>1. \A id \in Ids \ torn : enc'[id] = IF id = Id(o) THEN got[o] ELSE enc[id]
    BY <1>0 DEF WriteEnc, Go, TypeOK, SnapshotsHold, Store
  <2>2. \A p \in Ops \ {o} : InFlight(p) => Id(o) \in torn
    BY DEF Alone, WriteEnc, Go, InFlight
  <2> QED BY <1>0, <2>1, <2>2 DEF WriteEnc, Go, TypeOK, SnapshotsHold, InFlight
<1>5. StagesHold'
  <2> SUFFICES ASSUME NEW p \in Ops, InFlight(p)', (Id(p) \notin torn)'
               PROVE  StageOK(p)'
    BY DEF StagesHold
  <2>1. p = o
    BY <1>0 DEF Alone, WriteEnc, Go, TypeOK, InFlight
  <2>2. CASE Id(o) \in torn
    BY <1>0, <2>1, <2>2 DEF WriteEnc
  <2>3. CASE Id(o) \notin torn
    <3>1. StageOK(o) /\ pc[o] = "encwrite"
      BY <1>0, <2>3 DEF WriteEnc, Go, StagesHold, InFlight
    <3>2. enc'[Id(o)] = got[o] /\ pc'[o] = "load" /\ got' = got
      BY <1>0 DEF WriteEnc, Go, TypeOK, Store
    <3>3. keyring' = keyring /\ list' = list
      BY DEF WriteEnc
    <3> QED BY <1>0, <2>1, <3>1, <3>2, <3>3 DEF StageOK, IsListed, HasToken
  <2> QED BY <2>2, <2>3
<1>6. Settled'
  BY <1>0, NoneAssumption DEF WriteEnc, Go, TypeOK, SnapshotsHold, StagesHold, StageOK, Settled,
    InFlight, IsListed, HasToken
<1> QED BY <1>1, <1>2, <1>3, <1>4, <1>5, <1>6

\* A list just read is the list.
LEMMA LoadListStep ==
  ASSUME IInv, NEW o \in Ops, LoadList(o)
  PROVE  IInv'
<1> USE DEF IInv
<1>0. /\ Kind(o) \in {"add", "remove", "activate", "refresh"} /\ Id(o) \in Ids
      /\ Meets(o) \subseteq Ids
      /\ \A p \in Ops : Kind(p)' = Kind(p) /\ Id(p)' = Id(p)
  BY RequestFields, MeetsIds DEF LoadList, Enter, Kind, Id
<1>1. TypeOK'
  BY <1>0 DEF LoadList, Enter, Go, TypeOK, Stages, Tokens, Store, List, Found
<1>2. OneActive' /\ SeenOneActive' /\ NothingYet'
  BY <1>0 DEF LoadList, Enter, Go, TypeOK, OneActive, SeenOneActive, OneIn, NothingYet
<1>3. Alone'
  BY <1>0, MeetsBoth DEF LoadList, Enter, Go, TypeOK, Alone, InFlight
<1>4. SnapshotsHold'
  BY <1>0 DEF LoadList, Enter, Go, TypeOK, SnapshotsHold
<1>5. StagesHold'
  BY <1>0, MeetsBoth, NoneAssumption DEF LoadList, Enter, Go, TypeOK, Alone, SnapshotsHold,
    NothingYet, Settled, StagesHold, StageOK, InFlight, IsListed, HasToken, Tokens, Found, Listed
<1>6. Settled'
  BY <1>0, NoneAssumption DEF LoadList, Enter, Go, TypeOK, SnapshotsHold, StagesHold, StageOK, Settled,
    InFlight, IsListed, HasToken
<1> QED BY <1>1, <1>2, <1>3, <1>4, <1>5, <1>6

\* The list is as it was read, up to who is active, for accounts that are not torn.
LEMMA SaveListStep ==
  ASSUME IInv, NEW o \in Ops, SaveList(o)
  PROVE  IInv'
<1> USE DEF IInv
<1>0. /\ Kind(o) \in {"add", "remove", "activate", "refresh"} /\ Id(o) \in Ids
      /\ \A p \in Ops : Kind(p)' = Kind(p) /\ Id(p)' = Id(p)
  BY RequestFields DEF SaveList, Kind, Id
<1>a. /\ seenList[o] \in List /\ OneIn(seenList[o])
      /\ list' = Effect(o, seenList[o])
      /\ pc' = [pc EXCEPT ![o] = "done"] /\ pc[o] = "save"
  BY DEF SaveList, Go, TypeOK, SeenOneActive
<1>b. /\ list' \in List /\ OneIn(list')
      /\ \A id \in Ids \ {Id(o)} : list'[id] = "absent" <=> seenList[o][id] = "absent"
      /\ Kind(o) = "add" => list'[Id(o)] # "absent"
      /\ Kind(o) = "remove" => list'[Id(o)] = "absent"
      /\ Kind(o) = "activate" => list'[Id(o)] # "absent"
      /\ Kind(o) = "refresh" => list' = seenList[o]
  BY <1>a, EffectIsList
<1>c. \A id \in Ids \ (torn \cup {Id(o)}) : list'[id] = "absent" <=> list[id] = "absent"
  BY <1>a, <1>b DEF SnapshotsHold
<1>d. \A p \in Ops \ {o} : InFlight(p) => Id(o) \in torn
  BY <1>a DEF Alone, InFlight
<1>1. TypeOK'
  BY <1>a, <1>b DEF SaveList, TypeOK, Stages
<1>2. OneActive' /\ SeenOneActive' /\ NothingYet'
  BY <1>a, <1>b DEF SaveList, TypeOK, OneActive, SeenOneActive, OneIn, NothingYet
<1>3. Alone'
  BY <1>0, <1>a DEF SaveList, TypeOK, Alone, InFlight
<1>4. SnapshotsHold'
  BY <1>0, <1>a, <1>c, <1>d DEF SaveList, TypeOK, SnapshotsHold, InFlight
<1>5. StagesHold'
  BY <1>0, <1>a, <1>d DEF SaveList, TypeOK, Alone, StagesHold, InFlight
<1>6. Settled'
  <2> SUFFICES ASSUME NEW id \in Ids \ torn, \A p \in Ops : InFlight(p)' => Id(p) # id
               PROVE  (IsListed(id) <=> HasToken(id))'
    BY <1>0 DEF Settled, SaveList
  <2>1. CASE id = Id(o)
    <3>1. StageOK(o)
      BY <1>a, <2>1 DEF StagesHold, InFlight
    <3> QED BY <1>0, <1>a, <1>b, <2>1, <3>1 DEF StageOK, SnapshotsHold, SaveList, IsListed, HasToken
  <2>2. CASE id # Id(o)
    <3>1. \A p \in Ops : InFlight(p) => Id(p) # id
      BY <1>a, <2>2 DEF InFlight, TypeOK
    <3> QED BY <1>c, <2>2, <3>1 DEF Settled, SaveList, IsListed, HasToken
  <2> QED BY <2>1, <2>2
<1> QED BY <1>1, <1>2, <1>3, <1>4, <1>5, <1>6

\* An operation that is cut short leaves its account torn unless what it had done
\* leaves entry and token in agreement.
\* What is cut between its two changes tears its account.
LEMMA CutStep ==
  ASSUME IInv, NEW cut \in SUBSET Ops, CutShort(cut)
  PROVE  IInv'
<1> USE DEF IInv
<1>0. \A p \in Ops : Kind(p)' = Kind(p) /\ Id(p)' = Id(p) /\ Id(p) \in Ids
  BY RequestFields DEF CutShort, Kind, Id
<1>1. TypeOK'
  BY <1>0 DEF CutShort, TypeOK, Stages
<1>2. OneActive' /\ SeenOneActive' /\ NothingYet'
  BY DEF CutShort, TypeOK, OneActive, SeenOneActive, OneIn, NothingYet
<1>3. Alone'
  BY <1>0 DEF CutShort, TypeOK, Alone, InFlight
<1>4. SnapshotsHold'
  BY <1>0 DEF CutShort, TypeOK, SnapshotsHold
<1>5. StagesHold'
  BY <1>0 DEF CutShort, TypeOK, StagesHold, StageOK, InFlight, IsListed, HasToken
<1>6. Settled'
  <2> SUFFICES ASSUME NEW id \in Ids \ torn', \A p \in Ops : InFlight(p)' => Id(p) # id
               PROVE  IsListed(id) <=> HasToken(id)
    BY <1>0 DEF Settled, CutShort, IsListed, HasToken
  <2>1. CASE \A p \in Ops : InFlight(p) => Id(p) # id
    BY <2>1 DEF Settled, CutShort
  <2>2. ASSUME NEW p \in Ops, InFlight(p), Id(p) = id PROVE IsListed(id) <=> HasToken(id)
    <3>1. p \in cut
      BY <1>0, <2>2 DEF CutShort, InFlight, TypeOK
    <3>2. StageOK(p) /\ ~HalfDone(p)
      BY <2>2, <3>1 DEF CutShort, StagesHold
    <3> QED BY <2>2, <3>2, RequestFields DEF StageOK, HalfDone
  <2> QED BY <2>1, <2>2
<1> QED BY <1>1, <1>2, <1>3, <1>4, <1>5, <1>6

\* The invariant is inductive.
LEMMA StepIInv == IInv /\ [Next]_vars => IInv'
<1> SUFFICES ASSUME IInv, [Next]_vars PROVE IInv'
  OBVIOUS
<1>1. CASE UNCHANGED vars
  BY <1>1 DEF vars, IInv, TypeOK, OneActive, SeenOneActive, OneIn, NothingYet, Alone,
    SnapshotsHold, StagesHold, StageOK, Settled, InFlight, Kind, Id, IsListed, HasToken
<1>2. CASE Crash
  <2>1. CutShort({o \in Ops : InFlight(o)})
    BY <1>2 DEF Crash
  <2> QED BY <2>1, CutStep
<1>3. ASSUME NEW o \in Ops, Step(o) PROVE IInv'
  <2>1. CASE Fail(o)
    <3>1. {o} \in SUBSET Ops /\ CutShort({o})
      BY <2>1 DEF Fail
    <3> QED BY <3>1, CutStep
  <2> QED BY <1>3, <2>1, LoginStep, LoadTokenStep, RefreshStep, NotFoundStep,
        StoreInKeyringStep, FallBackStep, DeleteFromKeyringStep, ReadEncStep, WriteEncStep,
        LoadListStep, SaveListStep DEF Step
<1> QED BY <1>1, <1>2, <1>3 DEF Next

\* The invariant holds in every reachable state: files, snapshots and stages fit.
THEOREM Invariant == Spec => []IInv
BY InitIInv, StepIInv, PTL DEF Spec

\* Every variable keeps its type; an operation that refreshes or stores a token
\* has one.
THEOREM TypeCorrect == Spec => []TypeOK
<1>1. IInv => TypeOK
  BY DEF IInv
<1> QED BY <1>1, Invariant, PTL

\* No two accounts are ever active, although every operation rewrites the list it
\* read, however old, and none is kept apart from another.
THEOREM ActiveIsUnique == Spec => []OneActive
<1>1. IInv => OneActive
  BY DEF IInv
<1> QED BY <1>1, Invariant, PTL

\* An account that is not torn is listed exactly when a tier has its token,
\* whatever else happens to the other accounts in the same two files.
THEOREM EntriesAndTokens == Spec => []EntryAndTokenAgree
<1>1. IInv => EntryAndTokenAgree
  BY DEF IInv, Settled, EntryAndTokenAgree, Busy, Listed, IsListed, HasToken
<1> QED BY <1>1, Invariant, PTL

-----------------------------------------------------------------------------
(* The newest token is the one that is found. *)

\* Where the newest token of its account is while an operation is under way: still
\* to be found before the exchange, in its hands until it is stored, to be found
\* again afterwards.  The encrypted file gets it only when the keyring has none.
NewestStage(o) ==
  Kind(o) # "remove" =>
    /\ pc[o] \in {"chain", "load", "save"} => Found(Id(o)) = newest[Id(o)]
    /\ pc[o] \in {"store", "encwrite"} => got[o] = newest[Id(o)]
    /\ pc[o] = "encwrite" => keyring[Id(o)] = None
Fresh == \A o \in Ops : InFlight(o) /\ Id(o) \notin torn \cup stale => NewestStage(o)

NewestInv == Fresh /\ NewestFound

\* Every account has the token of its name at first.
LEMMA InitNewest == Init => NewestInv
<1> SUFFICES ASSUME Init PROVE NewestInv
  OBVIOUS
<1>1. PICK inKeyring \in SUBSET Present :
        /\ keyring = [id \in Ids |-> IF id \in inKeyring THEN id ELSE None]
        /\ enc = [id \in Ids |-> IF id \in Present \ inKeyring THEN id ELSE None]
  BY DEF Init
<1>2. \A id \in Ids : id \in Listed(list) => id \in Present
  BY DEF Init, Listed
<1>3. NewestFound
  BY <1>1, <1>2, PresentAssumption, NoneAssumption DEF Init, NewestFound, Found, Tokens, Listed
<1> QED BY <1>3 DEF NewestInv, Fresh, Init, InFlight

\* An operation that begins with nobody else in flight finds its account settled,
\* and one that does not tears it.
LEMMA BeginsSettled ==
  ASSUME IInv, NewestInv, NEW o \in Ops, ~InFlight(o),
         Id(o) \in Listed(list), Id(o) \notin Meets(o), Id(o) \notin torn \cup stale
  PROVE  Found(Id(o)) = newest[Id(o)]
<1>1. \A p \in Ops : ~InFlight(p)
  BY DEF Meets
<1> QED BY <1>1, RequestFields DEF IInv, NewestInv, NewestFound, Busy

\* The files and the list say the same of the account of another operation as
\* before, unless it is torn.
Undisturbed(o) ==
  \A id \in Ids \ torn' : id # Id(o) =>
    /\ Found(id)' = Found(id) /\ newest'[id] = newest[id]
    /\ list'[id] = "absent" <=> list[id] = "absent"

\* What an operation that has changed stage has to show: that its account is
\* as it should be, in flight or not, and that it has left the others alone.
LEMMA NewestByStep ==
  ASSUME IInv, IInv', NewestInv, NEW o \in Ops,
         req' = req, torn \subseteq torn', stale \subseteq stale',
         \A p \in Ops \ {o} : pc'[p] = pc[p] /\ got'[p] = got[p],
         Undisturbed(o),
         InFlight(o)' /\ Id(o) \notin torn' \cup stale' => NewestStage(o)',
         ~Busy(Id(o))' /\ Id(o) \in Listed(list)' \ (torn' \cup stale')
           => Found(Id(o))' = newest'[Id(o)],
         \A p \in Ops \ {o} : InFlight(p) =>
           \/ Id(p) \in torn'
           \/ UNCHANGED <<keyring, enc, newest>>
  PROVE  NewestInv'
<1>0. \A p \in Ops : Kind(p)' = Kind(p) /\ Id(p)' = Id(p) /\ Id(p) \in Ids
  BY RequestFields DEF IInv, Kind, Id
<1>1. Fresh'
  <2> SUFFICES ASSUME NEW p \in Ops, InFlight(p)', Id(p) \notin torn' \cup stale'
               PROVE  NewestStage(p)'
    BY <1>0 DEF Fresh
  <2>1. CASE p = o
    BY <2>1, <1>0
  <2>2. CASE p # o
    <3>1. InFlight(p) /\ UNCHANGED <<keyring, enc, newest>>
      BY <2>2 DEF InFlight
    <3>2. NewestStage(p)
      BY <3>1 DEF NewestInv, Fresh
    <3> QED BY <1>0, <2>2, <3>1, <3>2 DEF NewestStage, Found
  <2> QED BY <2>1, <2>2
<1>2. NewestFound'
  <2> SUFFICES ASSUME NEW id \in Listed(list)' \ (torn' \cup stale'), ~Busy(id)'
               PROVE  Found(id)' = newest'[id]
    BY DEF NewestFound
  <2>1. CASE id = Id(o)
    BY <2>1, <1>0 DEF Busy
  <2>2. CASE id # Id(o)
    <3>1. ~Busy(id)
      BY <1>0, <2>2 DEF Busy, InFlight
    <3>2. id \in Ids /\ id \in Listed(list)
      BY <2>2 DEF Undisturbed, Listed
    <3> QED BY <2>2, <3>1, <3>2 DEF Undisturbed, NewestInv, NewestFound
  <2> QED BY <2>1, <2>2
<1> QED BY <1>1, <1>2 DEF NewestInv

\* What every action of one operation leaves alone.
LEMMA OneOperation ==
  ASSUME IInv, IInv', NEW o \in Ops,
         \/ Login(o) \/ LoadToken(o) \/ Refresh(o) \/ NotFound(o) \/ StoreInKeyring(o)
         \/ FallBack(o) \/ DeleteFromKeyring(o) \/ ReadEnc(o) \/ WriteEnc(o)
         \/ LoadList(o) \/ SaveList(o)
  PROVE  /\ req' = req /\ torn \subseteq torn' /\ stale \subseteq stale'
         /\ \A p \in Ops \ {o} : pc'[p] = pc[p] /\ got'[p] = got[p]
         /\ pc'[o] # pc[o]
         /\ \A p \in Ops \ {o} : InFlight(p) =>
              Id(p) \in torn' \/ UNCHANGED <<keyring, enc, newest>>
<1>1. /\ req' = req /\ torn \subseteq torn' /\ stale \subseteq stale'
      /\ \A p \in Ops \ {o} : pc'[p] = pc[p] /\ got'[p] = got[p]
      /\ pc'[o] # pc[o]
  BY DEF IInv, TypeOK, Login, Issue, Enter, LoadToken, Take, Refresh, NotFound, StoreInKeyring,
    FallBack, DeleteFromKeyring, ReadEnc, WriteEnc, LoadList, SaveList, Go
<1>2. InFlight(o)' \/ UNCHANGED <<keyring, enc, newest>>
  BY DEF IInv, TypeOK, Login, LoadToken, Take, Refresh, NotFound, StoreInKeyring,
    FallBack, DeleteFromKeyring, ReadEnc, WriteEnc, LoadList, SaveList, Go, InFlight
<1>3. ASSUME NEW p \in Ops \ {o}, InFlight(p), InFlight(o)' PROVE Id(p) \in torn'
  BY <1>1, <1>3 DEF IInv, Alone, InFlight, Id
<1> QED BY <1>1, <1>2, <1>3

\* The actions of one operation, one by one.
LEMMA OperationNewest ==
  ASSUME IInv, IInv', NewestInv, NEW o \in Ops,
         \/ Login(o) \/ LoadToken(o) \/ Refresh(o) \/ NotFound(o) \/ StoreInKeyring(o)
         \/ FallBack(o) \/ DeleteFromKeyring(o) \/ ReadEnc(o) \/ WriteEnc(o)
         \/ LoadList(o) \/ SaveList(o)
  PROVE  NewestInv'
<1> DEFINE Mine == Id(o) \notin torn' \cup stale' => NewestStage(o)'
<1> DEFINE Ends == Id(o) \in Listed(list)' \ (torn' \cup stale') => Found(Id(o))' = newest'[Id(o)]
<1>0. /\ Kind(o) \in {"add", "remove", "activate", "refresh"} /\ Id(o) \in Ids
      /\ Kind(o)' = Kind(o) /\ Id(o)' = Id(o)
      /\ torn \subseteq torn' /\ stale \subseteq stale'
  BY RequestFields, OneOperation DEF IInv, Kind, Id
<1> SUFFICES Undisturbed(o) /\ (InFlight(o)' => Mine) /\ (InFlight(o)' \/ (~Busy(Id(o))' => Ends))
  <2>1. InFlight(o)' => Busy(Id(o))'
    BY <1>0 DEF Busy
  <2> QED BY <2>1, OneOperation, NewestByStep
<1>1. CASE Login(o)
  <2>1. Undisturbed(o)
    BY <1>0, <1>1 DEF Undisturbed, Login, Issue, Go, IInv, TypeOK, Store, Found
  <2>2. NewestStage(o)'
    BY <1>0, <1>1 DEF NewestStage, Login, Issue, Go, IInv, TypeOK, Store
  <2> QED BY <2>1, <2>2, <1>1 DEF Login, Go, IInv, TypeOK, InFlight
<1>2. CASE LoadToken(o)
  <2>1. Undisturbed(o) /\ pc'[o] = "chain" /\ ~InFlight(o) /\ InFlight(o)'
    BY <1>0, <1>2 DEF Undisturbed, LoadToken, Take, Go, IInv, TypeOK, Found, InFlight
  <2>2. ASSUME Id(o) \notin torn' \cup stale' PROVE NewestStage(o)'
    <3>1. Id(o) \in Listed(list) /\ Kind(o) = "refresh"
      BY <1>0, <1>2, <2>1, <2>2 DEF LoadToken, Take, IInv, StagesHold, StageOK, Listed, IsListed
    <3>2. Id(o) \notin Meets(o) /\ Id(o) \notin torn \cup stale
      BY <1>2, <2>2 DEF LoadToken, Take, Enter
    <3>3. Found(Id(o)) = newest[Id(o)]
      BY <2>1, <3>1, <3>2, BeginsSettled
    <3> QED BY <1>0, <1>2, <2>1, <3>3 DEF LoadToken, Take, NewestStage, Found
  <2> QED BY <2>1, <2>2
<1>3. CASE Refresh(o)
  <2>1. Undisturbed(o)
    BY <1>0, <1>3 DEF Undisturbed, Refresh, Issue, IInv, TypeOK, Store, Found
  <2>2. NewestStage(o)'
    BY <1>0, <1>3 DEF NewestStage, Refresh, Issue, Go, IInv, TypeOK, Store
  <2> QED BY <2>1, <2>2, <1>3 DEF Refresh, Go, IInv, TypeOK, InFlight
<1>4. CASE NotFound(o)
  <2>1. Undisturbed(o) /\ ~InFlight(o)'
    BY <1>4 DEF Undisturbed, NotFound, Go, IInv, TypeOK, Found, InFlight
  <2>2. ~Busy(Id(o))' => ~Busy(Id(o))
    BY <1>0, <1>4 DEF NotFound, Go, Busy, InFlight, IInv, TypeOK, Id
  <2>3. ~Busy(Id(o))' => Ends
    BY <1>0, <1>4, <2>2 DEF NotFound, Found, Listed, NewestInv, NewestFound
  <2> QED BY <2>1, <2>3
<1>5. CASE StoreInKeyring(o)
  <2>1. Undisturbed(o)
    BY <1>0, <1>5 DEF Undisturbed, StoreInKeyring, IInv, TypeOK, Store, Found
  <2>2. pc[o] = "store" /\ got[o] # None /\ InFlight(o)' /\ pc'[o] = "load"
    BY <1>5 DEF StoreInKeyring, Go, IInv, TypeOK, InFlight
  <2>3. ASSUME Id(o) \notin torn \cup stale PROVE NewestStage(o)'
    <3>1. NewestStage(o)
      BY <2>2, <2>3 DEF NewestInv, Fresh, InFlight
    <3> QED BY <1>0, <1>5, <2>2, <3>1 DEF NewestStage, StoreInKeyring, IInv, TypeOK, Store, Found
  <2> QED BY <1>0, <2>1, <2>2, <2>3
<1>6. CASE FallBack(o)
  <2>1. Undisturbed(o)
    BY <1>0, <1>6 DEF Undisturbed, FallBack, IInv, TypeOK, Store, Found
  <2>2. pc[o] = "store" /\ InFlight(o)' /\ pc'[o] = "encwrite"
    BY <1>6 DEF FallBack, Go, IInv, TypeOK, InFlight
  <2>3. ASSUME Id(o) \notin torn' \cup stale' PROVE NewestStage(o)'
    <3>1. NewestStage(o) /\ keyring[Id(o)] = None
      BY <1>0, <1>6, <2>2, <2>3 DEF FallBack, NewestInv, Fresh, InFlight
    <3> QED BY <1>0, <1>6, <2>2, <3>1 DEF NewestStage, FallBack
  <2> QED BY <2>1, <2>2, <2>3
<1>7. CASE DeleteFromKeyring(o)
  <2>1. Undisturbed(o)
    BY <1>0, <1>7 DEF Undisturbed, DeleteFromKeyring, IInv, TypeOK, Store, Found
  <2>2. InFlight(o)' /\ Kind(o) = "remove"
    BY <1>7 DEF DeleteFromKeyring, Go, IInv, TypeOK, InFlight
  <2> QED BY <1>0, <2>1, <2>2 DEF NewestStage
<1>8. CASE ReadEnc(o)
  <2>1. Undisturbed(o)
    BY <1>0, <1>8 DEF Undisturbed, ReadEnc, Found
  <2>2. pc[o] = "encread" /\ InFlight(o)'
    BY <1>8 DEF ReadEnc, Go, IInv, TypeOK, InFlight
  <2>3. ASSUME Id(o) \notin torn \cup stale PROVE Kind(o) = "remove"
    BY <1>0, <2>2, <2>3 DEF IInv, StagesHold, StageOK, InFlight
  <2> QED BY <1>0, <2>1, <2>2, <2>3 DEF NewestStage
<1>9. CASE WriteEnc(o)
  <2>1. Undisturbed(o)
    BY <1>0, <1>9 DEF Undisturbed, WriteEnc, Go, IInv, TypeOK, SnapshotsHold, Store, Found
  <2>2. pc[o] = "encwrite" /\ InFlight(o)' /\ pc'[o] = "load"
    BY <1>9 DEF WriteEnc, Go, IInv, TypeOK, InFlight
  <2>3. ASSUME Id(o) \notin torn \cup stale PROVE NewestStage(o)'
    <3>1. NewestStage(o)
      BY <2>2, <2>3 DEF NewestInv, Fresh, InFlight
    <3> QED BY <1>0, <1>9, <2>2, <3>1 DEF NewestStage, WriteEnc, IInv, TypeOK, Store, Found
  <2> QED BY <1>0, <2>1, <2>2, <2>3
<1>10. CASE LoadList(o)
  <2>1. Undisturbed(o) /\ InFlight(o)' /\ pc'[o] = "save"
    BY <1>0, <1>10 DEF Undisturbed, LoadList, Go, IInv, TypeOK, Found, InFlight
  <2>2. CASE Go(o, "load", "save")
    <3>1. Id(o) \notin torn \cup stale => NewestStage(o)
      BY <2>2 DEF Go, NewestInv, Fresh, InFlight
    <3> QED BY <1>0, <1>10, <2>1, <2>2, <3>1 DEF LoadList, Go, NewestStage, Found
  <2>3. CASE Kind(o) = "activate" /\ Id(o) \in Listed(list) /\ Go(o, "start", "save") /\ Enter(o)
    <3>1. Id(o) \notin torn' \cup stale' => Found(Id(o)) = newest[Id(o)]
      BY <2>3, BeginsSettled DEF Enter, Go, InFlight
    <3> QED BY <1>0, <1>10, <2>1, <3>1 DEF LoadList, NewestStage, Found
  <2> QED BY <1>10, <2>2, <2>3 DEF LoadList
<1>11. CASE SaveList(o)
  <2>1. /\ pc[o] = "save" /\ ~InFlight(o)'
        /\ UNCHANGED <<keyring, enc, newest, torn, stale>>
        /\ list' = Effect(o, seenList[o]) /\ seenList[o] \in List /\ OneIn(seenList[o])
    BY <1>11 DEF SaveList, Go, IInv, TypeOK, SeenOneActive, InFlight
  <2>2. Undisturbed(o)
    BY <2>1, EffectIsList DEF Undisturbed, IInv, SnapshotsHold, Found
  <2>3. Ends
    <3>1. Kind(o) # "remove"
          \/ Id(o) \notin Listed(list)'
      BY <1>0, <2>1, EffectIsList DEF IInv, Listed
    <3>2. Id(o) \notin torn \cup stale => NewestStage(o)
      BY <2>1 DEF NewestInv, Fresh, InFlight
    <3> QED BY <1>0, <2>1, <3>1, <3>2 DEF NewestStage, Found
  <2> QED BY <2>1, <2>2, <2>3
<1> QED BY <1>1, <1>2, <1>3, <1>4, <1>5, <1>6, <1>7, <1>8, <1>9, <1>10, <1>11

\* What is cut with a new token in its hands makes its account stale.
LEMMA CutNewest ==
  ASSUME IInv, IInv', NewestInv, NEW cut \in SUBSET Ops, CutShort(cut)
  PROVE  NewestInv'
<1>0. \A p \in Ops : Kind(p)' = Kind(p) /\ Id(p)' = Id(p) /\ Id(p) \in Ids
  BY RequestFields DEF IInv, CutShort, Kind, Id
<1>1. Fresh'
  BY <1>0 DEF CutShort, NewestInv, Fresh, NewestStage, InFlight, Found
<1>2. NewestFound'
  <2> SUFFICES ASSUME NEW id \in Listed(list) \ (torn' \cup stale'), ~Busy(id)'
               PROVE  Found(id) = newest[id]
    BY DEF NewestFound, CutShort, Found, Listed
  <2>1. CASE ~Busy(id)
    BY <2>1 DEF CutShort, NewestInv, NewestFound
  <2>2. ASSUME NEW p \in Ops, InFlight(p), Id(p) = id PROVE Found(id) = newest[id]
    <3>1. p \in cut
      BY <1>0, <2>2 DEF CutShort, InFlight, Busy
    <3>2. StageOK(p) /\ ~HalfDone(p) /\ ~Unstored(p) /\ NewestStage(p)
      BY <2>2, <3>1 DEF CutShort, IInv, StagesHold, NewestInv, Fresh
    <3> QED BY <2>2, <3>2, RequestFields DEF IInv, StageOK, HalfDone, Unstored, NewestStage
  <2> QED BY <2>1, <2>2 DEF Busy
<1> QED BY <1>1, <1>2 DEF NewestInv

LEMMA StepNewest == IInv /\ IInv' /\ NewestInv /\ [Next]_vars => NewestInv'
<1> SUFFICES ASSUME IInv, IInv', NewestInv, [Next]_vars PROVE NewestInv'
  OBVIOUS
<1>1. CASE UNCHANGED vars
  BY <1>1 DEF vars, NewestInv, Fresh, NewestStage, NewestFound, InFlight, Kind, Id, Found,
    Busy, Listed
<1>2. CASE Crash
  <2>1. CutShort({o \in Ops : InFlight(o)})
    BY <1>2 DEF Crash
  <2> QED BY <2>1, CutNewest
<1>3. ASSUME NEW o \in Ops, Step(o) PROVE NewestInv'
  <2>1. CASE Fail(o)
    <3>1. {o} \in SUBSET Ops /\ CutShort({o})
      BY <2>1 DEF Fail
    <3> QED BY <3>1, CutNewest
  <2> QED BY <1>3, <2>1, OperationNewest DEF Step
<1> QED BY <1>1, <1>2, <1>3 DEF Next

\* A launch finds the token that was issued last for its account, in whichever tier
\* that one ended up, unless the account is torn or stale.
THEOREM NewestIsFound == Spec => []NewestFound
<1>1. NewestInv => NewestFound
  BY DEF NewestInv
<1> QED BY <1>1, InitNewest, StepNewest, Invariant, PTL DEF Spec

-----------------------------------------------------------------------------
(* Instances and their manifests. *)

\* Of two operations under way on one instance, the later has marked it.
Single ==
  \A o, p \in Writers : o # p /\ Underway(o) /\ Underway(p) /\ target[o] = target[p]
                          /\ target[o] # NoFile => target[o] \in clash

\* An operation has an instance from the moment it is aimed at one.
AimsHold ==
  \A o \in Writers :
    /\ stage[o] \in {"start", "pick"} => target[o] = NoFile
    /\ stage[o] \in {"copy", "mkdir", "open", "write", "rename", "rmdir"} => target[o] \in Slugs
    /\ stage[o] \in {"pick", "copy"} => Doing(o) = "clone"
    /\ stage[o] \in {"mkdir", "open", "write", "rename"} => Doing(o) # "delete"

\* A file never leaves the instance it was created for, and it is created when
\* it is opened; the manifest and the temporary file are two files.
HasOpened(o) == stage[o] \in {"write", "rename", "done"}
Home(i) == IF i \in Writers THEN target[i] ELSE i
Born(i) == i \in Writers => HasOpened(i)
FilesAtHome ==
  /\ \A s \in Slugs :
       /\ tmp[s] # NoFile =>
            tmp[s] \in Writers /\ target[tmp[s]] = s /\ HasOpened(tmp[s]) /\ tmp[s] # manifest[s]
       /\ manifest[s] # NoFile => Home(manifest[s]) = s /\ Born(manifest[s])
  /\ \A o \in Writers : fd[o] # NoFile =>
       fd[o] \in Writers /\ target[fd[o]] = target[o] /\ HasOpened(fd[o])

\* What has been read is still the manifest, what has been opened is still the
\* temporary file and still empty, what has been written is still what the
\* operation makes of the manifest.
ReadHolds(o) ==
  stage[o] \in {"mkdir", "open", "write"} /\ Doing(o) \in {"edit", "record"} =>
    seen[o] = table[target[o]]
OpenHolds(o) ==
  stage[o] = "write" => tmp[target[o]] = fd[o] /\ content[fd[o]] = Empty
WrittenHolds(o) ==
  stage[o] = "rename" =>
    /\ tmp[target[o]] # NoFile
    /\ content[tmp[target[o]]] = Updated(o, table[target[o]])
UndisturbedHold ==
  \A o \in Writers : target[o] \notin clash => ReadHolds(o) /\ OpenHolds(o) /\ WrittenHolds(o)

SInv == /\ StoreTypeOK /\ Single /\ AimsHold /\ FilesAtHome /\ UndisturbedHold
        /\ SerialUnlessClash

\* A request has a kind, an instance and a field.
LEMMA ManifestRequestFields ==
  ASSUME StoreTypeOK, NEW o \in Writers
  PROVE  /\ Doing(o) \in {"create", "clone", "edit", "record", "delete"}
         /\ asked[o].slug \in Slugs
BY ManifestRequestsAssumption DEF StoreTypeOK, ManifestRequest, Doing

\* What an operation makes of a manifest is a manifest; one that makes it anew
\* does not look at the old one.
LEMMA UpdatedIsManifest ==
  ASSUME StoreTypeOK, NEW o \in Writers, NEW old \in SUBSET Inodes
  PROVE  /\ Updated(o, old) \in Manifests
         /\ Updated(o, old) # {}
         /\ Doing(o) \in {"create", "clone"} =>
              \A other : Updated(o, other) = Updated(o, old)
BY DEF StoreTypeOK, Updated, Kept, Manifests, Inodes

\* At first every instance has the manifest of its name.
LEMMA StoreInitSInv == StoreInit => SInv
<1> SUFFICES ASSUME StoreInit PROVE SInv
  OBVIOUS
<1> USE DEF StoreInit
<1>1. StoreTypeOK
  BY InstancesAssumption, InodesAssumption DEF StoreTypeOK, StoreStages, Manifests, Inodes, Empty
<1>2. Single /\ AimsHold /\ UndisturbedHold
  BY DEF Single, AimsHold, UndisturbedHold, ReadHolds, OpenHolds, WrittenHolds, Underway
<1>3. FilesAtHome
  BY InstancesAssumption, InodesAssumption DEF FilesAtHome, Home, Born
<1>4. SerialUnlessClash
  BY InstancesAssumption, InodesAssumption DEF SerialUnlessClash, Inodes
<1> QED BY <1>1, <1>2, <1>3, <1>4 DEF SInv

\* A manifest that is read is the one in the table, if the instance is undisturbed.
LEMMA ReadStep ==
  ASSUME SInv, NEW o \in Writers, Read(o)
  PROVE  SInv'
<1> USE DEF SInv
<1>1. /\ Doing(o) \in {"create", "clone", "edit", "record", "delete"} /\ asked[o].slug \in Slugs
      /\ asked' = asked
      /\ \A p \in Writers : Doing(p)' = Doing(p)
  BY ManifestRequestFields DEF Read, Doing
<1>2. StoreTypeOK'
  <2>1. content[manifest[asked[o].slug]] \in SUBSET Inodes
    BY <1>1 DEF Read, Readable, StoreTypeOK, Manifests
  <2> QED BY <1>1, <2>1, InodesAssumption DEF Read, Aim, Advance, StoreTypeOK, StoreStages
<1>3. Single'
  BY <1>1 DEF Read, Aim, Advance, StoreTypeOK, Single, AimsHold, Underway
<1>4. AimsHold'
  BY <1>1 DEF Read, Aim, Advance, StoreTypeOK, AimsHold
<1>5. FilesAtHome'
  BY <1>1, InodesAssumption DEF Read, Aim, Advance, StoreTypeOK, AimsHold, FilesAtHome, HasOpened, Home, Born, Inodes
<1>6. UndisturbedHold'
  <2> SUFFICES ASSUME NEW p \in Writers, target'[p] \notin clash'
               PROVE  (ReadHolds(p) /\ OpenHolds(p) /\ WrittenHolds(p))'
    BY DEF UndisturbedHold
  <2>1. CASE p = o
    BY <1>1, <2>1 DEF Read, Aim, Advance, Readable, StoreTypeOK, SerialUnlessClash, ReadHolds,
      OpenHolds, WrittenHolds
  <2>2. CASE p # o
    <3>1. target[p] \notin clash /\ target'[p] = target[p] /\ stage'[p] = stage[p] /\ seen'[p] = seen[p]
      BY <2>2 DEF Read, Aim, Advance, StoreTypeOK
    <3> QED
      BY <1>1, <3>1 DEF Read, UndisturbedHold, ReadHolds, OpenHolds, WrittenHolds, Updated, Kept, Edits
  <2> QED BY <2>1, <2>2
<1>7. SerialUnlessClash'
  BY <1>1, InodesAssumption DEF Read, Aim, Advance, StoreTypeOK, AimsHold, FilesAtHome, UndisturbedHold, OpenHolds,
    WrittenHolds, SerialUnlessClash
<1> QED BY <1>2, <1>3, <1>4, <1>5, <1>6, <1>7

\* An operation that ends at once has changed nothing.
LEMMA NoManifestStep ==
  ASSUME SInv, NEW o \in Writers, NoManifest(o)
  PROVE  SInv'
<1> USE DEF SInv
<1>1. /\ Doing(o) \in {"create", "clone", "edit", "record", "delete"} /\ asked[o].slug \in Slugs
      /\ asked' = asked
      /\ \A p \in Writers : Doing(p)' = Doing(p)
  BY ManifestRequestFields DEF NoManifest, Doing
<1>2. StoreTypeOK'
  BY <1>1, InodesAssumption DEF NoManifest, Advance, StoreTypeOK, StoreStages, AimsHold, FilesAtHome, Inodes
<1>3. Single'
  BY <1>1 DEF NoManifest, Advance, StoreTypeOK, Single, AimsHold, Underway
<1>4. AimsHold'
  BY <1>1 DEF NoManifest, Advance, StoreTypeOK, AimsHold
<1>5. FilesAtHome'
  BY <1>1, InodesAssumption DEF NoManifest, Advance, StoreTypeOK, AimsHold, FilesAtHome, HasOpened, Home, Born, Inodes
<1>6. UndisturbedHold'
  BY <1>1, InodesAssumption DEF NoManifest, Advance, StoreTypeOK, Single, AimsHold, FilesAtHome, UndisturbedHold, ReadHolds,
    OpenHolds, WrittenHolds, SerialUnlessClash, Updated, Kept, Edits, Underway
<1>7. SerialUnlessClash'
  BY <1>1, InodesAssumption DEF NoManifest, Advance, StoreTypeOK, AimsHold, FilesAtHome, UndisturbedHold, OpenHolds,
    WrittenHolds, SerialUnlessClash
<1> QED BY <1>2, <1>3, <1>4, <1>5, <1>6, <1>7

\* A name that is picked has nothing of the operation's yet.
LEMMA PickStep ==
  ASSUME SInv, NEW o \in Writers, NEW s \in Slugs, Pick(o, s)
  PROVE  SInv'
<1> USE DEF SInv
<1>1. /\ Doing(o) \in {"create", "clone", "edit", "record", "delete"} /\ asked[o].slug \in Slugs
      /\ asked' = asked
      /\ \A p \in Writers : Doing(p)' = Doing(p)
  BY ManifestRequestFields DEF Pick, Doing
<1>2. StoreTypeOK'
  BY <1>1, InodesAssumption DEF Pick, Aim, Advance, StoreTypeOK, StoreStages, AimsHold, FilesAtHome, Inodes
<1>3. Single'
  BY <1>1 DEF Pick, Aim, Advance, StoreTypeOK, Single, AimsHold, Underway
<1>4. AimsHold'
  BY <1>1 DEF Pick, Aim, Advance, StoreTypeOK, AimsHold
<1>5. FilesAtHome'
  BY <1>1, InodesAssumption DEF Pick, Aim, Advance, StoreTypeOK, AimsHold, FilesAtHome, HasOpened, Home, Born, Inodes
<1>6. UndisturbedHold'
  BY <1>1, InodesAssumption DEF Pick, Aim, Advance, StoreTypeOK, Single, AimsHold, FilesAtHome, UndisturbedHold, ReadHolds,
    OpenHolds, WrittenHolds, SerialUnlessClash, Updated, Kept, Edits, Underway
<1>7. SerialUnlessClash'
  BY <1>1, InodesAssumption DEF Pick, Aim, Advance, StoreTypeOK, AimsHold, FilesAtHome, UndisturbedHold, OpenHolds,
    WrittenHolds, SerialUnlessClash
<1> QED BY <1>2, <1>3, <1>4, <1>5, <1>6, <1>7

\* Directories are no part of what an operation has read or written.
LEMMA MakeDirsStep ==
  ASSUME SInv, NEW o \in Writers, MakeDirs(o)
  PROVE  SInv'
<1> USE DEF SInv
<1>1. /\ Doing(o) \in {"create", "clone", "edit", "record", "delete"} /\ asked[o].slug \in Slugs
      /\ asked' = asked
      /\ \A p \in Writers : Doing(p)' = Doing(p)
  BY ManifestRequestFields DEF MakeDirs, Doing
<1>2. StoreTypeOK'
  BY <1>1, InodesAssumption DEF MakeDirs, Advance, StoreTypeOK, StoreStages, AimsHold, FilesAtHome, Inodes
<1>3. Single'
  BY <1>1 DEF MakeDirs, Advance, StoreTypeOK, Single, AimsHold, Underway
<1>4. AimsHold'
  BY <1>1 DEF MakeDirs, Advance, StoreTypeOK, AimsHold
<1>5. FilesAtHome'
  BY <1>1, InodesAssumption DEF MakeDirs, Advance, StoreTypeOK, AimsHold, FilesAtHome, HasOpened, Home, Born, Inodes
<1>6. UndisturbedHold'
  BY <1>1, InodesAssumption DEF MakeDirs, Advance, StoreTypeOK, Single, AimsHold, FilesAtHome, UndisturbedHold, ReadHolds,
    OpenHolds, WrittenHolds, SerialUnlessClash, Updated, Kept, Edits, Underway
<1>7. SerialUnlessClash'
  BY <1>1, InodesAssumption DEF MakeDirs, Advance, StoreTypeOK, AimsHold, FilesAtHome, UndisturbedHold, OpenHolds,
    WrittenHolds, SerialUnlessClash
<1> QED BY <1>2, <1>3, <1>4, <1>5, <1>6, <1>7

\* The file that is opened is the operation's own, or the one that is there.
LEMMA OpenStep ==
  ASSUME SInv, NEW o \in Writers, Open(o)
  PROVE  SInv'
<1> USE DEF SInv
<1>1. /\ Doing(o) \in {"create", "clone", "edit", "record", "delete"} /\ asked[o].slug \in Slugs
      /\ asked' = asked
      /\ \A p \in Writers : Doing(p)' = Doing(p)
  BY ManifestRequestFields DEF Open, Doing
<1>2. StoreTypeOK'
  BY <1>1, InodesAssumption DEF Open, Advance, StoreTypeOK, StoreStages, AimsHold, FilesAtHome, Inodes
<1>3. Single'
  BY <1>1 DEF Open, Advance, StoreTypeOK, Single, AimsHold, Underway
<1>4. AimsHold'
  BY <1>1 DEF Open, Advance, StoreTypeOK, AimsHold
<1>5. FilesAtHome'
  BY <1>1, InodesAssumption DEF Open, Advance, StoreTypeOK, AimsHold, FilesAtHome, HasOpened, Home, Born, Inodes
<1> DEFINE file == IF tmp[target[o]] = NoFile THEN o ELSE tmp[target[o]]
<1>6. /\ target[o] \in Slugs /\ file \in Writers /\ file # NoFile /\ target[file] = target[o]
      /\ \A s \in Slugs : manifest[s] # file
      /\ \A s \in Slugs \ {target[o]} : tmp[s] # file
  BY InodesAssumption DEF Open, Advance, AimsHold, FilesAtHome, HasOpened, Home, Born, Inodes
<1>7. /\ content' = [content EXCEPT ![file] = Empty] /\ fd' = [fd EXCEPT ![o] = file]
      /\ tmp' = [tmp EXCEPT ![target[o]] = file]
      /\ target' = target /\ clash' = clash /\ seen' = seen /\ table' = table /\ manifest' = manifest
      /\ stage[o] = "open" /\ stage' = [stage EXCEPT ![o] = "write"]
  BY DEF Open, Advance
<1> HIDE DEF file
<1>8. UndisturbedHold'
  <2> SUFFICES ASSUME NEW p \in Writers, target'[p] \notin clash'
               PROVE  (ReadHolds(p) /\ OpenHolds(p) /\ WrittenHolds(p))'
    BY DEF UndisturbedHold
  <2>1. CASE p = o
    BY <1>1, <1>6, <1>7, <2>1 DEF StoreTypeOK, UndisturbedHold, ReadHolds, OpenHolds, WrittenHolds, Inodes
  <2>2. CASE p # o
    <3>1. /\ target[p] \notin clash /\ stage'[p] = stage[p] /\ fd'[p] = fd[p]
          /\ stage[p] \in {"write", "rename"} =>
               target[p] \in Slugs /\ target[p] # target[o] /\ tmp'[target[p]] = tmp[target[p]]
      BY <1>6, <1>7, <2>2, InodesAssumption DEF StoreTypeOK, Single, AimsHold, Underway, Inodes
    <3>2. /\ stage[p] = "write" => content'[fd[p]] = Empty
          /\ stage[p] = "rename" => content'[tmp[target[p]]] = content[tmp[target[p]]]
      BY <1>6, <1>7, <3>1 DEF StoreTypeOK, UndisturbedHold, OpenHolds, FilesAtHome, Inodes
    <3> QED
      BY <1>1, <1>7, <3>1, <3>2 DEF UndisturbedHold, ReadHolds, OpenHolds, WrittenHolds, Updated, Kept, Edits
  <2> QED BY <2>1, <2>2
<1>9. SerialUnlessClash'
  BY <1>6, <1>7 DEF StoreTypeOK, SerialUnlessClash, Inodes
<1> QED BY <1>2, <1>3, <1>4, <1>5, <1>8, <1>9

\* What is written is the whole of the operation's manifest.
LEMMA WriteStep ==
  ASSUME SInv, NEW o \in Writers, Write(o)
  PROVE  SInv'
<1> USE DEF SInv
<1>1. /\ Doing(o) \in {"create", "clone", "edit", "record", "delete"} /\ asked[o].slug \in Slugs
      /\ asked' = asked
      /\ \A p \in Writers : Doing(p)' = Doing(p)
  BY ManifestRequestFields DEF Write, Doing
<1>2. fd[o] \in Writers /\ target[fd[o]] = target[o] /\ target[o] \in Slugs /\ stage[o] = "write"
  BY InodesAssumption DEF Write, Advance, StoreTypeOK, AimsHold, FilesAtHome, Inodes
<1>3. Updated(o, seen[o]) \in Manifests
  BY UpdatedIsManifest DEF StoreTypeOK
<1>4. PICK result \in {Updated(o, seen[o]), Mixed} :
        /\ result = Mixed => content[fd[o]] # Empty
        /\ content' = [content EXCEPT ![fd[o]] = result]
  BY DEF Write
<1>5. /\ fd' = [fd EXCEPT ![o] = NoFile] /\ stage' = [stage EXCEPT ![o] = "rename"]
       /\ target' = target /\ clash' = clash /\ seen' = seen /\ table' = table /\ manifest' = manifest
       /\ tmp' = tmp
  BY DEF Write, Advance
<1>6. target[o] \notin clash => content'[fd[o]] = Updated(o, table[target[o]]) /\ tmp[target[o]] = fd[o]
  <2> SUFFICES ASSUME target[o] \notin clash
               PROVE  content'[fd[o]] = Updated(o, table[target[o]]) /\ tmp[target[o]] = fd[o]
    OBVIOUS
  <2>1. ReadHolds(o) /\ tmp[target[o]] = fd[o] /\ content[fd[o]] = Empty
    BY <1>2 DEF UndisturbedHold, OpenHolds
  <2>2. Updated(o, seen[o]) = Updated(o, table[target[o]])
    BY <1>1, <1>2, <2>1, UpdatedIsManifest DEF ReadHolds, AimsHold, StoreTypeOK
  <2> QED BY <1>2, <1>4, <2>1, <2>2 DEF StoreTypeOK, Inodes
<1>7. \A s \in Slugs \ clash : manifest[s] # fd[o]
  BY <1>2, <1>6, InodesAssumption DEF FilesAtHome, Home, Inodes
<1>8. StoreTypeOK'
  BY <1>1, <1>2, <1>3, <1>4, InodesAssumption DEF Write, Advance, StoreTypeOK, StoreStages, Inodes
<1>9. Single'
  BY <1>1 DEF Write, Advance, StoreTypeOK, Single, AimsHold, Underway
<1>10. AimsHold'
  BY <1>1 DEF Write, Advance, StoreTypeOK, AimsHold
<1>11. FilesAtHome'
  BY <1>1, InodesAssumption DEF Write, Advance, StoreTypeOK, AimsHold, FilesAtHome, HasOpened, Home, Born, Inodes
<1>12. UndisturbedHold'
  <2> SUFFICES ASSUME NEW p \in Writers, target'[p] \notin clash'
               PROVE  (ReadHolds(p) /\ OpenHolds(p) /\ WrittenHolds(p))'
    BY DEF UndisturbedHold
  <2>1. CASE p = o
    BY <1>1, <1>2, <1>5, <1>6, <2>1, InodesAssumption DEF StoreTypeOK, ReadHolds, OpenHolds, WrittenHolds,
      Updated, Kept, Edits, Inodes
  <2>2. CASE p # o
    <3>1. /\ target[p] \notin clash /\ stage'[p] = stage[p] /\ fd'[p] = fd[p]
          /\ stage[p] \in {"write", "rename"} => target[p] \in Slugs /\ target[p] # target[o]
      BY <1>2, <1>5, <2>2, InodesAssumption DEF StoreTypeOK, Single, AimsHold, Underway, Inodes
    <3>2. /\ stage[p] = "write" => content'[fd[p]] = content[fd[p]]
          /\ stage[p] = "rename" => content'[tmp[target[p]]] = content[tmp[target[p]]]
      BY <1>2, <1>4, <3>1 DEF StoreTypeOK, UndisturbedHold, WrittenHolds, FilesAtHome, Inodes
    <3> QED
      BY <1>1, <1>5, <3>1, <3>2 DEF UndisturbedHold, ReadHolds, OpenHolds, WrittenHolds, Updated, Kept, Edits
  <2> QED BY <2>1, <2>2
<1>13. SerialUnlessClash'
  BY <1>4, <1>5, <1>7 DEF StoreTypeOK, SerialUnlessClash
<1> QED BY <1>8, <1>9, <1>10, <1>11, <1>12, <1>13

\* The rename makes the file that was written the manifest.
LEMMA RenameStep ==
  ASSUME SInv, NEW o \in Writers, Rename(o)
  PROVE  SInv'
<1> USE DEF SInv
<1>1. /\ Doing(o) \in {"create", "clone", "edit", "record", "delete"} /\ asked[o].slug \in Slugs
      /\ asked' = asked
      /\ \A p \in Writers : Doing(p)' = Doing(p)
  BY ManifestRequestFields DEF Rename, Doing
<1>2. target[o] \in Slugs /\ tmp[target[o]] # NoFile /\ stage[o] = "rename"
  BY DEF Rename, Advance, AimsHold
<1>3. table[target[o]] \in SUBSET Inodes
  BY <1>2 DEF StoreTypeOK
<1>4. Updated(o, table[target[o]]) \in Manifests /\ Updated(o, table[target[o]]) # {}
  BY <1>3, UpdatedIsManifest
<1>5. StoreTypeOK'
  BY <1>1, <1>2, <1>4, InodesAssumption DEF Rename, Advance, StoreTypeOK, StoreStages, Manifests
<1>6. Single'
  BY <1>1 DEF Rename, Advance, StoreTypeOK, Single, AimsHold, Underway
<1>7. AimsHold'
  BY <1>1 DEF Rename, Advance, StoreTypeOK, AimsHold
<1>8. FilesAtHome'
  BY <1>1, InodesAssumption DEF Rename, Advance, StoreTypeOK, AimsHold, FilesAtHome, HasOpened, Home, Born, Inodes
<1>9. UndisturbedHold'
  <2> SUFFICES ASSUME NEW p \in Writers, target'[p] \notin clash'
               PROVE  (ReadHolds(p) /\ OpenHolds(p) /\ WrittenHolds(p))'
    BY DEF UndisturbedHold
  <2>1. CASE p = o
    BY <1>1, <2>1 DEF Rename, Advance, StoreTypeOK, ReadHolds, OpenHolds, WrittenHolds
  <2>2. CASE p # o
    <3>1. /\ target[p] \notin clash /\ stage'[p] = stage[p] /\ fd'[p] = fd[p]
          /\ Underway(p) => target[p] # target[o]
      BY <1>2, <2>2, InodesAssumption DEF Rename, Advance, StoreTypeOK, Single, AimsHold, Underway,
        Inodes
    <3>2. stage[p] \in {"mkdir", "open", "write", "rename"} =>
            /\ target[p] \in Slugs
            /\ tmp'[target[p]] = tmp[target[p]] /\ table'[target[p]] = table[target[p]]
      BY <1>2, <3>1 DEF Rename, StoreTypeOK, AimsHold, Underway
    <3> QED
      BY <1>1, <3>1, <3>2 DEF Rename, UndisturbedHold, ReadHolds, OpenHolds, WrittenHolds, Updated, Kept, Edits
  <2> QED BY <2>1, <2>2
<1>10. SerialUnlessClash'
  <2>1. target[o] \notin clash => content[tmp[target[o]]] = Updated(o, table[target[o]])
    BY <1>2 DEF UndisturbedHold, WrittenHolds
  <2> QED BY <1>2, <1>4, <2>1 DEF Rename, StoreTypeOK, SerialUnlessClash
<1> QED BY <1>5, <1>6, <1>7, <1>8, <1>9, <1>10

\* A deletion takes both files away.
LEMMA RemoveFilesStep ==
  ASSUME SInv, NEW o \in Writers, RemoveFiles(o)
  PROVE  SInv'
<1> USE DEF SInv
<1>1. /\ Doing(o) \in {"create", "clone", "edit", "record", "delete"} /\ asked[o].slug \in Slugs
      /\ asked' = asked
      /\ \A p \in Writers : Doing(p)' = Doing(p)
  BY ManifestRequestFields DEF RemoveFiles, Doing
<1>2. StoreTypeOK'
  BY <1>1, InodesAssumption DEF RemoveFiles, Aim, Advance, StoreTypeOK, StoreStages, AimsHold, FilesAtHome, Inodes
<1>3. Single'
  BY <1>1 DEF RemoveFiles, Aim, Advance, StoreTypeOK, Single, AimsHold, Underway
<1>4. AimsHold'
  BY <1>1 DEF RemoveFiles, Aim, Advance, StoreTypeOK, AimsHold
<1>5. FilesAtHome'
  BY <1>1, InodesAssumption DEF RemoveFiles, Aim, Advance, StoreTypeOK, AimsHold, FilesAtHome, HasOpened, Home, Born, Inodes
<1>6. UndisturbedHold'
  BY <1>1, InodesAssumption DEF RemoveFiles, Aim, Advance, StoreTypeOK, Single, AimsHold, FilesAtHome, UndisturbedHold, ReadHolds,
    OpenHolds, WrittenHolds, SerialUnlessClash, Updated, Kept, Edits, Underway
<1>7. SerialUnlessClash'
  BY <1>1, InodesAssumption DEF RemoveFiles, Aim, Advance, StoreTypeOK, AimsHold, FilesAtHome, UndisturbedHold, OpenHolds,
    WrittenHolds, SerialUnlessClash
<1> QED BY <1>2, <1>3, <1>4, <1>5, <1>6, <1>7

\* The directory is no part of the manifest.
LEMMA RemoveDirStep ==
  ASSUME SInv, NEW o \in Writers, RemoveDir(o)
  PROVE  SInv'
<1> USE DEF SInv
<1>1. /\ Doing(o) \in {"create", "clone", "edit", "record", "delete"} /\ asked[o].slug \in Slugs
      /\ asked' = asked
      /\ \A p \in Writers : Doing(p)' = Doing(p)
  BY ManifestRequestFields DEF RemoveDir, Doing
<1>2. StoreTypeOK'
  BY <1>1, InodesAssumption DEF RemoveDir, Advance, StoreTypeOK, StoreStages, AimsHold, FilesAtHome, Inodes
<1>3. Single'
  BY <1>1 DEF RemoveDir, Advance, StoreTypeOK, Single, AimsHold, Underway
<1>4. AimsHold'
  BY <1>1 DEF RemoveDir, Advance, StoreTypeOK, AimsHold
<1>5. FilesAtHome'
  BY <1>1, InodesAssumption DEF RemoveDir, Advance, StoreTypeOK, AimsHold, FilesAtHome, HasOpened, Home, Born, Inodes
<1>6. UndisturbedHold'
  BY <1>1, InodesAssumption DEF RemoveDir, Advance, StoreTypeOK, Single, AimsHold, FilesAtHome, UndisturbedHold, ReadHolds,
    OpenHolds, WrittenHolds, SerialUnlessClash, Updated, Kept, Edits, Underway
<1>7. SerialUnlessClash'
  BY <1>1, InodesAssumption DEF RemoveDir, Advance, StoreTypeOK, AimsHold, FilesAtHome, UndisturbedHold, OpenHolds,
    WrittenHolds, SerialUnlessClash
<1> QED BY <1>2, <1>3, <1>4, <1>5, <1>6, <1>7

\* An operation that fails leaves its files behind.
LEMMA BreakOffStep ==
  ASSUME SInv, NEW o \in Writers, BreakOff(o)
  PROVE  SInv'
<1> USE DEF SInv
<1>1. /\ Doing(o) \in {"create", "clone", "edit", "record", "delete"} /\ asked[o].slug \in Slugs
      /\ asked' = asked
      /\ \A p \in Writers : Doing(p)' = Doing(p)
  BY ManifestRequestFields DEF BreakOff, Doing
<1>2. StoreTypeOK'
  BY <1>1, InodesAssumption DEF BreakOff, StoreTypeOK, StoreStages, AimsHold, FilesAtHome, Inodes
<1>3. Single'
  BY <1>1 DEF BreakOff, StoreTypeOK, Single, AimsHold, Underway
<1>4. AimsHold'
  BY <1>1 DEF BreakOff, StoreTypeOK, AimsHold
<1>5. FilesAtHome'
  BY <1>1, InodesAssumption DEF BreakOff, StoreTypeOK, AimsHold, FilesAtHome, HasOpened, Home, Born, Inodes
<1>6. UndisturbedHold'
  BY <1>1, InodesAssumption DEF BreakOff, StoreTypeOK, Single, AimsHold, FilesAtHome, UndisturbedHold, ReadHolds,
    OpenHolds, WrittenHolds, SerialUnlessClash, Updated, Kept, Edits, Underway
<1>7. SerialUnlessClash'
  BY <1>1, InodesAssumption DEF BreakOff, StoreTypeOK, AimsHold, FilesAtHome, UndisturbedHold, OpenHolds,
    WrittenHolds, SerialUnlessClash
<1> QED BY <1>2, <1>3, <1>4, <1>5, <1>6, <1>7

\* A crash ends what is under way.
LEMMA StoreCrashStep ==
  ASSUME SInv, StoreCrash
  PROVE  SInv'
<1> USE DEF SInv
<1>1. /\ asked' = asked
      /\ \A p \in Writers : Doing(p)' = Doing(p)
      /\ \A p \in Writers : stage'[p] \in {"start", "done"} /\ (stage'[p] = "start" => stage[p] = "start")
  BY DEF StoreCrash, Doing, Underway, StoreTypeOK
<1>2. StoreTypeOK'
  BY <1>1 DEF StoreCrash, StoreTypeOK, StoreStages
<1>3. Single' /\ AimsHold' /\ UndisturbedHold'
  BY <1>1 DEF StoreCrash, Single, AimsHold, UndisturbedHold, ReadHolds, OpenHolds, WrittenHolds, Underway
<1>4. FilesAtHome'
  BY <1>1 DEF StoreCrash, StoreTypeOK, FilesAtHome, HasOpened, Home, Born, Underway
<1>5. SerialUnlessClash'
  BY DEF StoreCrash, SerialUnlessClash
<1> QED BY <1>2, <1>3, <1>4, <1>5

LEMMA SInvStep == SInv /\ [StoreNext]_storeVars => SInv'
<1> SUFFICES ASSUME SInv, [StoreNext]_storeVars PROVE SInv'
  OBVIOUS
<1>1. CASE StoreCrash
  BY <1>1, StoreCrashStep
<1>2. ASSUME NEW o \in Writers, StoreStep(o) PROVE SInv'
  BY <1>2, ReadStep, NoManifestStep, PickStep, MakeDirsStep, OpenStep, WriteStep, RenameStep,
     RemoveFilesStep, RemoveDirStep, BreakOffStep DEF StoreStep
<1>3. CASE UNCHANGED storeVars
  BY <1>3 DEF storeVars, SInv, StoreTypeOK, Single, AimsHold, FilesAtHome, UndisturbedHold, ReadHolds,
    OpenHolds, WrittenHolds, SerialUnlessClash, Updated, Kept, Edits, Underway, Doing, HasOpened, Home, Born
<1> QED BY <1>1, <1>2, <1>3 DEF StoreNext

LEMMA SInvHolds == StoreSpec => []SInv
BY StoreInitSInv, SInvStep, PTL DEF StoreSpec

\* The variables of the manifests have their types, and an operation has a file
\* open exactly between opening it and the end of its write (atomic_write).
THEOREM StoreTypeCorrect == StoreSpec => []StoreTypeOK
<1>1. SInv => StoreTypeOK
  BY DEF SInv
<1> QED BY <1>1, SInvHolds, PTL

\* Operations on an instance that do not overlap have their effects one after
\* the other, whatever fails, crashes or happens to other instances
\* (services/instance_service.rs, instance/store.rs, atomic_write of
\* mojang/cache.rs): no update is lost and what is deleted stays deleted.
THEOREM SerialHolds == StoreSpec => []SerialUnlessClash
<1>1. SInv => SerialUnlessClash
  BY DEF SInv
<1> QED BY <1>1, SInvHolds, PTL

-----------------------------------------------------------------------------
(* Packs: what is in place and what is under way. *)

\* The lock is held from the reading of the ledger to its writing, so the copy
\* that was read is the ledger.
Mine(o, r) == r.id = wanted[o].id /\ r.pack = wanted[o].pack
LockHolds ==
  /\ \A o \in PackOps : at[o] \in {"moving", "rewriting"} <=> lock = o
  /\ lock # NoOp => snap = ledger /\ ~Adds(lock) /\ \E r \in ledger : Mine(lock, r)

\* Which operations get how far, and what a file that is being written is called.
StagesFit ==
  \A o \in PackOps :
    /\ at[o] \in {"ready", "open", "written", "placing"} => Adds(o)
    /\ at[o] = "placing" => wanted[o].kind = "install"
    /\ writing[o] # Nowhere => at[o] = "open" /\ \E form \in Forms : writing[o] = <<Goal(o), form>>

OneRowEach == \A r, s \in ledger : r.id = s.id => r = s

\* Two operations that overlap have spoilt what they are about.
ConcernsSpoilt(o) == Concerns(o) \subseteq spoilt
Overlaps ==
  \A o, p \in PackOps : o # p /\ Running(o) /\ Running(p) /\ Overlap(o, p) =>
    ConcernsSpoilt(o) /\ ConcernsSpoilt(p)

\* An operation that adds a pack has spoilt the file of each row it is to replace
\* and that of each row whose file it takes, unless it is to be refused.
Displaces(o, r) ==
  \/ r.id = wanted[o].id /\ FileOf(r) # FileOf(NewRow(o))
  \/ r.id # wanted[o].id /\ TargetOf(r) = Goal(o)
Displaced(o) == \A r \in ledger : Displaces(o, r) => TargetOf(r) \in spoilt
Displacements ==
  \A o \in PackOps : Running(o) /\ Adds(o) => (at[o] = "asked" /\ Refused(o)) \/ Displaced(o)

\* The files of one pack, enabled, disabled or half downloaded.
Zip(t) == files[<<t, "zip">>]
Dis(t) == files[<<t, "disabled">>]
Part(t) == files[<<t, "tmp">>]
Lies(t, hash, enabled) ==
  IF enabled THEN Zip(t) = hash /\ Dis(t) = Absent ELSE Zip(t) = Absent /\ Dis(t) = hash

\* Where nothing adds a pack its row has its file, but for the moment in which it
\* has been turned on or off or removed and its row has not.
Rows(t) == {r \in ledger : TargetOf(r) = t}
InHand(r) == lock # NoOp /\ at[lock] = "rewriting" /\ Mine(lock, r)
RowHolds(t, r) ==
  IF ~InHand(r) THEN Lies(t, r.hash, r.enabled)
  ELSE IF wanted[lock].kind = "toggle" THEN Lies(t, r.hash, ~r.enabled)
  ELSE Lies(t, Absent, TRUE)
Quiet(t) ==
  /\ \A r \in Rows(t) : RowHolds(t, r)
  /\ Rows(t) = {} => Lies(t, Absent, TRUE)

\* A dropped file, stage by stage.
AddsTo(o, t) == Running(o) /\ Adds(o) /\ Goal(o) = t
DropHolds(o, t) ==
  /\ at[o] = "asked" => Quiet(t) /\ (Zip(t) # Absent \/ Rows(t) = {})
  /\ at[o] # "asked" => Rows(t) = {} /\ Dis(t) = Absent
  /\ at[o] = "ready" => Zip(t) = Absent
  /\ at[o] = "open" => writing[o] = <<t, "zip">>
  /\ at[o] = "written" => Zip(t) = wanted[o].hash

\* Downloads of one and the same file: of the row and the file the one may be
\* ahead of the other as long as somebody is to write the rest or to rename it.
WrittenAt(t, form) == \E p \in PackOps : AddsTo(p, t) /\ writing[p] = <<t, form>>
PlacedAt(t) == Part(t) # Absent /\ \E p \in PackOps : AddsTo(p, t) /\ at[p] = "placing"
DownloadHolds(o, t) ==
  /\ at[o] \in {"open", "written", "placing"} =>
       /\ Part(t) \in {Absent, Torn, wanted[o].hash}
       /\ Part(t) = Torn => WrittenAt(t, "tmp")
       /\ Part(t) # Absent \/ Zip(t) = wanted[o].hash \/ WrittenAt(t, "zip")
  /\ at[o] = "placing" => NewRow(o) \in Rows(t)
  /\ writing[o] # <<t, "disabled">>
  /\ writing[o] = <<t, "tmp">> => Part(t) # Absent
  /\ writing[o] = <<t, "zip">> =>
       /\ Zip(t) \in {Torn, wanted[o].hash} /\ NewRow(o) \in Rows(t)
       /\ \E p \in PackOps \ {o} : at[p] # "idle" /\ wanted[p] = wanted[o]
InstallHolds(o, t) ==
  /\ \A r \in Rows(t) : /\ r.id = wanted[o].id /\ r.enabled
                        /\ Zip(t) = r.hash \/ WrittenAt(t, "zip") \/ PlacedAt(t)
  /\ Dis(t) = Absent
  /\ Rows(t) = {} => Zip(t) = Absent
  /\ DownloadHolds(o, t)

InOrder(t) ==
  /\ \A r, s \in Rows(t) : r = s
  /\ (\A o \in PackOps : ~AddsTo(o, t)) => Quiet(t)
  /\ \A o \in PackOps : AddsTo(o, t) =>
       IF wanted[o].kind = "drop" THEN DropHolds(o, t) ELSE InstallHolds(o, t)
Unspoilt == \A t \in Targets \ spoilt : InOrder(t)

PInv == /\ PackTypeOK /\ LockHolds /\ StagesFit /\ OneRowEach /\ Overlaps /\ Displacements
        /\ Unspoilt

-----------------------------------------------------------------------------
\* A request has its fields, and what it asks for is a row of a file.
LEMMA PackRequestFields ==
  ASSUME PackTypeOK, NEW o \in PackOps
  PROVE  /\ wanted[o].kind \in Kinds /\ wanted[o].hash \in Hashes
         /\ wanted[o].hash # Absent /\ wanted[o].hash # Torn
         /\ Goal(o) \in Targets
         /\ NewRow(o) \in Row /\ NewRow(o).id = wanted[o].id /\ NewRow(o).hash = wanted[o].hash
         /\ NewRow(o).enabled = TRUE /\ TargetOf(NewRow(o)) = Goal(o)
         /\ FileOf(NewRow(o)) = <<Goal(o), "zip">>
<1>1. wanted[o] \in PackRequest
  BY PackRequestsAssumption DEF PackTypeOK
<1>2. /\ wanted[o].kind \in Kinds /\ wanted[o].hash \in Hashes /\ wanted[o].id \in PackIds
      /\ wanted[o].pack \in Packs /\ wanted[o].name \in Names
  BY <1>1 DEF PackRequest
<1> QED
  BY <1>2, ContentsAssumption DEF Goal, TargetOf, Targets, NewRow, Row, FileOf

\* A row names a file of its target.
LEMMA RowFields ==
  ASSUME NEW r \in Row
  PROVE  /\ TargetOf(r) \in Targets /\ r.hash \in Hashes /\ r.hash # Absent /\ r.hash # Torn
         /\ r.enabled \in BOOLEAN
         /\ FileOf(r) = IF r.enabled THEN <<TargetOf(r), "zip">> ELSE <<TargetOf(r), "disabled">>
         /\ Flipped(r) \in Row /\ Flipped(r).id = r.id /\ Flipped(r).pack = r.pack
         /\ Flipped(r).hash = r.hash /\ Flipped(r).enabled = ~r.enabled
         /\ TargetOf(Flipped(r)) = TargetOf(r)
         /\ FileOf(Flipped(r)) = IF r.enabled THEN <<TargetOf(r), "disabled">> ELSE <<TargetOf(r), "zip">>
BY ContentsAssumption DEF Row, Flipped, TargetOf, Targets, FileOf

\* Nowhere is no path.
LEMMA NowhereIsNoPath == Nowhere \notin Paths
BY DEF Nowhere, Paths

\* What an operation is about.
LEMMA ConcernsAre ==
  ASSUME NEW o \in PackOps
  PROVE  \A t : t \in Concerns(o) <=>
           \/ \E r \in ledger : r.id = wanted[o].id /\ TargetOf(r) = t
           \/ Adds(o) /\ t = Goal(o)
BY DEF Concerns, RowsOf

-----------------------------------------------------------------------------
\* At first every row has its file.
LEMMA PackInitPInv == PackInit => PInv
<1> SUFFICES ASSUME PackInit PROVE PInv
  OBVIOUS
<1> USE DEF PackInit
<1>1. \A r \in Preinstalled : r \in Row /\ r.hash \in Hashes
  BY PreinstalledAssumption DEF Row
<1>2. PackTypeOK
  <2>1. files \in [Paths -> Hashes \cup {Absent, Torn}]
    BY <1>1
  <2> QED BY <2>1, PreinstalledAssumption DEF PackTypeOK, PackStages
<1>3. LockHolds /\ StagesFit /\ OneRowEach /\ Overlaps /\ Displacements
  BY PreinstalledAssumption, NoOpAssumption DEF LockHolds, StagesFit, OneRowEach, Overlaps, Displacements, Running
<1>4. Unspoilt
  <2> SUFFICES ASSUME NEW t \in Targets PROVE InOrder(t)
    BY DEF Unspoilt
  <2>1. \A o \in PackOps : ~AddsTo(o, t)
    BY DEF AddsTo, Running
  <2>2. \A r, s \in Rows(t) : r = s
    BY PreinstalledAssumption DEF Rows
  <2>3. \A r \in Rows(t) : ~InHand(r)
    BY DEF InHand
  <2>4. \A form \in {"zip", "disabled"} : <<t, form>> \in Paths
    BY DEF Paths, Forms
  <2>5. ASSUME NEW r \in Rows(t) PROVE Lies(t, r.hash, r.enabled)
    <3>1. r \in Row /\ TargetOf(r) = t /\ r \in Preinstalled
      BY <1>1, <2>5 DEF Rows
    <3>2. \A s \in Preinstalled : \A form \in Forms : FileOf(s) = <<t, form>> => s = r
      BY <3>1, PreinstalledAssumption DEF FileOf
    <3>3. files[FileOf(r)] = r.hash
      BY <3>1, <3>2, <2>4, RowFields DEF Forms
    <3>4. \A form \in {"zip", "disabled"} : FileOf(r) # <<t, form>> => files[<<t, form>>] = Absent
      BY <3>2, <2>4 DEF Forms
    <3>5. FileOf(r) = IF r.enabled THEN <<t, "zip">> ELSE <<t, "disabled">>
      BY <3>1 DEF FileOf
    <3>6. <<t, "zip">> # <<t, "disabled">>
      OBVIOUS
    <3> QED BY <3>3, <3>4, <3>5, <3>6 DEF Lies, Zip, Dis
  <2>6. Rows(t) = {} => Lies(t, Absent, TRUE)
    <3> SUFFICES ASSUME Rows(t) = {} PROVE Lies(t, Absent, TRUE)
      OBVIOUS
    <3>1. \A s \in Preinstalled, form \in Forms : FileOf(s) # <<t, form>>
      BY DEF Rows, FileOf
    <3> QED BY <3>1, <2>4 DEF Lies, Zip, Dis, Forms
  <2> QED BY <2>1, <2>2, <2>3, <2>5, <2>6 DEF InOrder, Quiet, RowHolds
<1> QED BY <1>2, <1>3, <1>4 DEF PInv

-----------------------------------------------------------------------------
(* Types. *)

\* What an operation writes is a path.
LEMMA PathsOfOperations ==
  ASSUME PackTypeOK, NEW o \in PackOps
  PROVE  Final(o) \in Paths /\ Tmp(o) \in Paths /\ Written(o) \in Paths
BY PackRequestFields DEF Final, Tmp, Written, Paths, Forms

LEMMA PathsOfRows ==
  ASSUME NEW r \in Row
  PROVE  FileOf(r) \in Paths /\ FileOf(Flipped(r)) \in Paths
BY RowFields DEF Paths, Forms

LEMMA ConcernsAreTargets ==
  ASSUME PackTypeOK, NEW o \in PackOps
  PROVE  Concerns(o) \subseteq Targets
<1>1. \A r \in ledger : TargetOf(r) \in Targets
  BY RowFields DEF PackTypeOK
<1> QED BY <1>1, ConcernsAre, PackRequestFields

\* Every step keeps the types.
LEMMA PackTypes ==
  ASSUME PInv, [PackNext]_packVars
  PROVE  PackTypeOK'
<1> USE DEF PInv
<1>1. ASSUME NEW o \in PackOps, Begin(o) PROVE PackTypeOK'
  <2>1. Concerns(o) \subseteq Targets /\ \A p \in Overlapping(o) : Concerns(p) \subseteq Targets
    BY ConcernsAreTargets DEF Overlapping
  <2>2. Orphaned(o) \subseteq Concerns(o)
    BY ConcernsAre DEF Orphaned, RowsOf
  <2>3. Claimed(o) \subseteq Targets
    BY RowFields DEF Claimed, PackTypeOK
  <2> DEFINE met == UNION {Concerns(o) \cup Concerns(p) : p \in Overlapping(o)}
             own == IF Adds(o) /\ ~Refused(o) THEN Orphaned(o) \cup Claimed(o) ELSE {}
  <2>4. met \subseteq Targets /\ own \subseteq Targets
    BY <2>1, <2>2, <2>3
  <2>5. spoilt' = spoilt \cup met \cup own
    BY <1>1 DEF Begin
  <2> HIDE DEF met, own
  <2>6. spoilt' \subseteq Targets
    BY <2>4, <2>5 DEF PackTypeOK
  <2> QED BY <1>1, <2>6 DEF Begin, PackTypeOK, PackStages
<1>2. ASSUME NEW o \in PackOps, Prepare(o) \/ Start(o) PROVE PackTypeOK'
  BY <1>2 DEF Prepare, Start, PackTypeOK, PackStages
<1>3. ASSUME NEW o \in PackOps, OpenPack(o) PROVE PackTypeOK'
  BY <1>3, PathsOfOperations DEF OpenPack, PackTypeOK, PackStages
<1>4. ASSUME NEW o \in PackOps, WriteBytes(o) PROVE PackTypeOK'
  BY <1>4, PackRequestFields DEF WriteBytes, PackTypeOK, PackStages
<1>5. ASSUME NEW o \in PackOps, Upsert(o) PROVE PackTypeOK'
  BY <1>5, PackRequestFields DEF Upsert, PackTypeOK, PackStages
<1>6. ASSUME NEW o \in PackOps, Place(o) PROVE PackTypeOK'
  <2>1. Tmp(o) \in Paths /\ Final(o) \in Paths
    BY PathsOfOperations
  <2> QED BY <1>6, <2>1 DEF Place, Moved, Followed, PackTypeOK, PackStages
<1>7. ASSUME NEW o \in PackOps, MoveFile(o) \/ RemoveFile(o) PROVE PackTypeOK'
  <2>1. \A r \in Sought(o, snap) : FileOf(r) \in Paths /\ FileOf(Flipped(r)) \in Paths
    BY PathsOfRows DEF Sought, RowsOf, PackTypeOK
  <2> QED
    BY <1>7, <2>1 DEF MoveFile, RemoveFile, Moved, Followed, Gone, Release, PackTypeOK, PackStages
<1>8. ASSUME NEW o \in PackOps, Rewrite(o) PROVE PackTypeOK'
  <2>1. \A r \in Sought(o, snap) : Flipped(r) \in Row
    BY RowFields DEF Sought, RowsOf, PackTypeOK
  <2> QED BY <1>8, <2>1 DEF Rewrite, Rewritten, Release, PackTypeOK, PackStages
<1>9. \A o \in PackOps : SpoiltBy(o) \subseteq Targets
  BY ConcernsAreTargets DEF SpoiltBy
<1>10. ASSUME NEW o \in PackOps, PackFail(o) \/ Cancel(o) PROVE PackTypeOK'
  BY <1>9, <1>10, PathsOfOperations DEF PackFail, Cancel, Gone, Release, PackTypeOK, PackStages
<1>11. ASSUME PackCrash PROVE PackTypeOK'
  BY <1>9, <1>11 DEF PackCrash, Release, PackTypeOK, PackStages
<1>12. ASSUME UNCHANGED packVars PROVE PackTypeOK'
  BY <1>12 DEF packVars, PackTypeOK
<1> QED
  BY <1>1, <1>2, <1>3, <1>4, <1>5, <1>6, <1>7, <1>8, <1>10, <1>11, <1>12 DEF PackNext, PackStep

-----------------------------------------------------------------------------
(* The lock, the stages and the rows. *)

\* Every step keeps who holds the lock and what the ledger was then.
LEMMA LockStep ==
  ASSUME PInv, [PackNext]_packVars
  PROVE  LockHolds'
<1> USE DEF PInv
<1>0. wanted' = wanted
  BY DEF PackNext, PackStep, Begin, Prepare, OpenPack, WriteBytes, Upsert, Place, Start, MoveFile, RemoveFile,
    Rewrite, PackFail, Cancel, PackCrash, packVars
<1>1. ASSUME NEW o \in PackOps,
             Begin(o) \/ Prepare(o) \/ OpenPack(o) \/ WriteBytes(o) \/ Upsert(o) \/ Place(o) \/ Cancel(o)
      PROVE  LockHolds'
  <2>1. lock # o
    BY <1>1, NoOpAssumption DEF Begin, Prepare, OpenPack, WriteBytes, Upsert, Place, Cancel, LockHolds, Adds
  <2>2. lock' = lock /\ snap' = snap /\ (lock # NoOp => ledger' = ledger)
    BY <1>1 DEF Begin, Prepare, OpenPack, WriteBytes, Upsert, Place, Cancel
  <2>3. \A p \in PackOps : p # o => at'[p] = at[p]
    BY <1>1 DEF Begin, Prepare, OpenPack, WriteBytes, Upsert, Place, Cancel, PackTypeOK
  <2>4. at'[o] \notin {"moving", "rewriting"}
    BY <1>1 DEF Begin, Prepare, OpenPack, WriteBytes, Upsert, Place, Cancel, PackTypeOK
  <2> QED BY <1>0, <2>1, <2>2, <2>3, <2>4 DEF LockHolds, Adds, Mine
<1>2. ASSUME NEW o \in PackOps, Start(o) PROVE LockHolds'
  BY <1>0, <1>2, NoOpAssumption DEF Start, LockHolds, PackTypeOK, Adds, Mine, Sought, RowsOf
<1>3. ASSUME NEW o \in PackOps, MoveFile(o) \/ RemoveFile(o) \/ Rewrite(o) \/ PackFail(o) PROVE LockHolds'
  BY <1>0, <1>3, NoOpAssumption DEF MoveFile, RemoveFile, Rewrite, PackFail, Release, LockHolds, PackTypeOK,
    Adds, Mine
<1>4. ASSUME PackCrash PROVE LockHolds'
  BY <1>4, NoOpAssumption DEF PackCrash, Release, LockHolds, Running
<1>5. ASSUME UNCHANGED packVars PROVE LockHolds'
  BY <1>5 DEF packVars, LockHolds, Adds, Mine
<1> QED BY <1>1, <1>2, <1>3, <1>4, <1>5 DEF PackNext, PackStep

\* Every step keeps what the stages of an operation go with.
LEMMA StagesStep ==
  ASSUME PInv, [PackNext]_packVars
  PROVE  StagesFit'
<1> USE DEF PInv
<1>0. wanted' = wanted /\ \A o \in PackOps : Goal(o)' = Goal(o)
  BY DEF PackNext, PackStep, Begin, Prepare, OpenPack, WriteBytes, Upsert, Place, Start, MoveFile, RemoveFile,
    Rewrite, PackFail, Cancel, PackCrash, packVars, Goal
<1>1. ASSUME NEW o \in PackOps, Begin(o) \/ Prepare(o) \/ Upsert(o) \/ Start(o) \/ Rewrite(o) \/ Cancel(o)
      PROVE  StagesFit'
  <2>1. writing' = writing /\ writing[o] = Nowhere
    BY <1>1 DEF Begin, Prepare, Upsert, Start, Rewrite, Cancel, StagesFit
  <2> QED
    BY <1>0, <1>1, <2>1, PackRequestFields DEF Begin, Prepare, Upsert, Start, Rewrite, Cancel, StagesFit,
      PackTypeOK, Adds, Kinds
<1>2. ASSUME NEW o \in PackOps, OpenPack(o) \/ WriteBytes(o) PROVE StagesFit'
  <2>1. \A p \in PackOps : writing'[p] # Nowhere => writing'[p] = writing[p] \/ p = o
    BY <1>2 DEF OpenPack, WriteBytes, PackTypeOK
  <2>2. writing'[o] # Nowhere => at'[o] = "open" /\ \E form \in Forms : writing'[o] = <<Goal(o), form>>
    BY <1>2 DEF OpenPack, WriteBytes, PackTypeOK, Written, Tmp, Final, Forms
  <2> QED BY <1>0, <1>2, <2>1, <2>2 DEF OpenPack, WriteBytes, StagesFit, PackTypeOK, Adds
<1>3. ASSUME NEW o \in PackOps, Place(o) \/ MoveFile(o) \/ RemoveFile(o) \/ PackFail(o) PROVE StagesFit'
  <2>1. ASSUME NEW t, NEW from \in Forms, NEW to \in Forms, writing' = Followed(<<t, from>>, <<t, to>>),
               NEW p \in PackOps, writing'[p] # Nowhere
        PROVE  writing[p] # Nowhere /\ \E g \in Forms : writing'[p] = <<Goal(p), g>>
    BY <2>1, NowhereIsNoPath DEF Followed, StagesFit, Nowhere
  <2>2. ASSUME NEW p \in PackOps, writing'[p] # Nowhere
        PROVE  writing[p] # Nowhere /\ \E g \in Forms : writing'[p] = <<Goal(p), g>>
    <3>1. CASE Place(o)
      BY <2>1, <2>2, <3>1 DEF Place, Tmp, Final, Forms, StagesFit
    <3>2. CASE MoveFile(o)
      <4>1. PICK r \in Sought(o, snap) :
               \/ UNCHANGED writing
               \/ writing' = Followed(FileOf(r), FileOf(Flipped(r)))
        BY <3>2 DEF MoveFile
      <4>2. r \in Row
        BY DEF Sought, RowsOf, PackTypeOK
      <4>3. CASE UNCHANGED writing
        BY <2>2, <4>3 DEF StagesFit
      <4>4. CASE writing' = Followed(FileOf(r), FileOf(Flipped(r)))
        <5>1. \E from, to \in Forms : FileOf(r) = <<TargetOf(r), from>> /\ FileOf(Flipped(r)) = <<TargetOf(r), to>>
          BY <4>2, RowFields DEF Forms
        <5> QED BY <2>1, <2>2, <4>4, <5>1
      <4> QED BY <4>1, <4>3, <4>4
    <3>3. CASE RemoveFile(o) \/ PackFail(o)
      BY <2>2, <3>3 DEF RemoveFile, PackFail, Gone, StagesFit, PackTypeOK
    <3> QED BY <1>3, <3>1, <3>2, <3>3
  <2>3. writing'[o] = Nowhere
    BY <1>3, <2>2 DEF Place, MoveFile, RemoveFile, PackFail, Gone, PackTypeOK, StagesFit
  <2> QED
    BY <1>0, <1>3, <2>2, <2>3 DEF Place, MoveFile, RemoveFile, PackFail, Gone, Release, StagesFit, PackTypeOK, Adds
<1>4. ASSUME PackCrash PROVE StagesFit'
  BY <1>4 DEF PackCrash, StagesFit, Running
<1>5. ASSUME UNCHANGED packVars PROVE StagesFit'
  BY <1>5 DEF packVars, StagesFit, Goal, Adds
<1> QED BY <1>1, <1>2, <1>3, <1>4, <1>5 DEF PackNext, PackStep

\* The ledger after a row has been put down, and after one has been rewritten.
LEMMA AfterUpsert ==
  ASSUME NEW o \in PackOps, Upsert(o)
  PROVE  \A r : r \in ledger' <=> r = NewRow(o) \/ (r \in ledger /\ r.id # wanted[o].id)
BY DEF Upsert, RowsOf

LEMMA AfterRewrite ==
  ASSUME PInv, NEW o \in PackOps, Rewrite(o)
  PROVE  \E r \in ledger :
           /\ Mine(o, r)
           /\ \A s \in ledger : s.id = r.id => s = r
           /\ ledger' = (ledger \ {r}) \cup (IF wanted[o].kind = "toggle" THEN {Flipped(r)} ELSE {})
<1> USE DEF PInv
<1>1. lock = o /\ snap = ledger
  BY NoOpAssumption DEF Rewrite, LockHolds
<1>2. PICK r \in ledger : Mine(o, r)
  BY <1>1, NoOpAssumption DEF LockHolds
<1>3. \A s \in ledger : s.id = r.id => s = r
  BY <1>2 DEF OneRowEach
<1>4. Sought(o, snap) = {r}
  BY <1>1, <1>2, <1>3 DEF Sought, RowsOf, Mine
<1> QED BY <1>1, <1>2, <1>3, <1>4 DEF Rewrite, Rewritten

\* No id has two rows.
LEMMA RowsStep ==
  ASSUME PInv, [PackNext]_packVars
  PROVE  OneRowEach'
<1> USE DEF PInv
<1>1. ASSUME NEW o \in PackOps, Upsert(o) PROVE OneRowEach'
  <2>1. NewRow(o).id = wanted[o].id
    BY PackRequestFields
  <2>2. \A r \in ledger' : r = NewRow(o) \/ (r \in ledger /\ r.id # NewRow(o).id)
    BY <1>1, <2>1, AfterUpsert
  <2> QED BY <2>2 DEF OneRowEach
<1>2. ASSUME NEW o \in PackOps, Rewrite(o) PROVE OneRowEach'
  <2>1. PICK r \in ledger :
           /\ \A s \in ledger : s.id = r.id => s = r
           /\ ledger' = (ledger \ {r}) \cup (IF wanted[o].kind = "toggle" THEN {Flipped(r)} ELSE {})
    BY <1>2, AfterRewrite
  <2>2. Flipped(r).id = r.id
    BY RowFields DEF PackTypeOK
  <2> QED BY <2>1, <2>2 DEF OneRowEach
<1>3. ASSUME ledger' = ledger PROVE OneRowEach'
  BY <1>3 DEF OneRowEach
<1> QED
  BY <1>1, <1>2, <1>3 DEF PackNext, PackStep, Begin, Prepare, OpenPack, WriteBytes, Place, Start, MoveFile,
    RemoveFile, PackFail, Cancel, PackCrash, packVars

-----------------------------------------------------------------------------
(* Operations that overlap, and rows that are displaced. *)

\* What is spoilt stays so, and what is asked for does not change.
LEMMA SpoiltGrows ==
  ASSUME [PackNext]_packVars
  PROVE  /\ spoilt \subseteq spoilt'
         /\ wanted' = wanted
         /\ \A o \in PackOps : /\ Adds(o)' = Adds(o) /\ Goal(o)' = Goal(o) /\ NewRow(o)' = NewRow(o)
                               /\ \A r : Mine(o, r)' = Mine(o, r)
<1>1. spoilt \subseteq spoilt' /\ wanted' = wanted
  BY DEF PackNext, PackStep, Begin, Prepare, OpenPack, WriteBytes, Upsert, Place, Start, MoveFile, RemoveFile,
    Rewrite, PackFail, Cancel, PackCrash, packVars
<1> QED BY <1>1 DEF Adds, Goal, NewRow, Mine

\* An operation that begins is the only one to set out.
LEMMA WhoRuns ==
  ASSUME PackTypeOK, [PackNext]_packVars, NEW o \in PackOps, at'[o] \notin {"idle", "done"}
  PROVE  Running(o) \/ Begin(o)
BY DEF PackNext, PackStep, Begin, Prepare, OpenPack, WriteBytes, Upsert, Place, Start, MoveFile, RemoveFile,
    Rewrite, PackFail, Cancel, PackCrash, packVars, PackTypeOK, Running

\* Whatever operation a row concerns, or whoever adds a pack where another one
\* does, they overlap.
LEMMA Overlapped ==
  ASSUME PInv, NEW o \in PackOps, NEW p \in PackOps, o # p, Running(o), Running(p), Overlap(o, p)
  PROVE  ConcernsSpoilt(o) /\ ConcernsSpoilt(p)
BY DEF PInv, Overlaps

LEMMA BeginSpoils ==
  ASSUME NEW o \in PackOps, Begin(o), NEW p \in PackOps, o # p, Running(p), Overlap(o, p)
  PROVE  Concerns(o) \subseteq spoilt' /\ Concerns(p) \subseteq spoilt'
<1>1. p \in Overlapping(o)
  BY DEF Overlapping
<1>2. Concerns(o) \cup Concerns(p) \subseteq UNION {Concerns(o) \cup Concerns(q) : q \in Overlapping(o)}
  BY <1>1
<1> DEFINE met == UNION {Concerns(o) \cup Concerns(q) : q \in Overlapping(o)}
<1>3. met \subseteq spoilt'
  BY DEF Begin
<1> HIDE DEF met
<1> QED BY <1>2, <1>3 DEF met

\* What two operations are asked for, in terms of their ids and concerns.
LEMMA OverlapIs ==
  ASSUME NEW o \in PackOps, NEW p \in PackOps
  PROVE  /\ Overlap(o, p) <=> Overlap(p, o)
         /\ Adds(o) /\ (wanted[o].id = wanted[p].id \/ \E t : t \in Concerns(o) /\ t \in Concerns(p)) =>
              Overlap(o, p) \/ (wanted[o] = wanted[p] /\ wanted[o].kind = "install")
BY DEF Overlap

\* Every step that changes no row.
LEMMA OverlapsSameRows ==
  ASSUME PInv, [PackNext]_packVars, ledger' = ledger
  PROVE  Overlaps'
<1> USE DEF PInv
<1>1. \A o \in PackOps : Concerns(o)' = Concerns(o)
  BY SpoiltGrows DEF Concerns
<1>2. \A o, p \in PackOps : Overlap(o, p)' = Overlap(o, p)
  BY <1>1, SpoiltGrows DEF Overlap
<1> SUFFICES ASSUME NEW o \in PackOps, NEW p \in PackOps, o # p, Running(o)', Running(p)', Overlap(o, p)
             PROVE  Concerns(o) \subseteq spoilt' /\ Concerns(p) \subseteq spoilt'
  BY <1>1, <1>2 DEF Overlaps, ConcernsSpoilt
<1>3. (Running(o) \/ Begin(o)) /\ (Running(p) \/ Begin(p))
  BY WhoRuns DEF Running
<1>4. CASE Running(o) /\ Running(p)
  BY <1>4, Overlapped, SpoiltGrows DEF ConcernsSpoilt
<1>5. CASE Begin(o) /\ Running(p)
  BY <1>5, BeginSpoils
<1>6. CASE Running(o) /\ Begin(p)
  BY <1>6, BeginSpoils, OverlapIs
<1>7. CASE Begin(o) /\ Begin(p)
  BY <1>7 DEF Begin, Running, PackTypeOK
<1> QED BY <1>3, <1>4, <1>5, <1>6, <1>7

\* The step that puts a row down moves what its id is about to its file.
LEMMA ConcernsAfterUpsert ==
  ASSUME NEW q \in PackOps, Upsert(q), PackTypeOK, NEW o \in PackOps
  PROVE  /\ Concerns(o)' \subseteq Concerns(o) \cup {Goal(q)}
         /\ wanted[o].id # wanted[q].id => Concerns(o)' = Concerns(o)
<1>1. wanted' = wanted /\ Adds(o)' = Adds(o) /\ Goal(o)' = Goal(o)
  BY DEF Upsert, Adds, Goal
<1>2. NewRow(q).id = wanted[q].id /\ TargetOf(NewRow(q)) = Goal(q)
  BY PackRequestFields
<1>3. \A t : t \in Concerns(o)' <=> \/ \E r \in ledger' : r.id = wanted[o].id /\ TargetOf(r) = t
                                    \/ Adds(o) /\ t = Goal(o)
  BY <1>1 DEF Concerns, RowsOf
<1> QED BY <1>2, <1>3, AfterUpsert, ConcernsAre

LEMMA OverlapsUpsert ==
  ASSUME PInv, NEW q \in PackOps, Upsert(q)
  PROVE  Overlaps'
<1> USE DEF PInv
<1>1. /\ wanted' = wanted /\ spoilt' = spoilt
      /\ \A o \in PackOps : Adds(o)' = Adds(o) /\ (at'[o] \notin {"idle", "done"} => Running(o))
  BY DEF Upsert, Adds, Running, PackTypeOK
<1>2. Running(q) /\ Adds(q) /\ Goal(q) \in Concerns(q)
  BY ConcernsAre DEF Upsert, Running, StagesFit
<1>3. ASSUME NEW o \in PackOps, o # q, Running(o), wanted[o].id = wanted[q].id
      PROVE  Concerns(o) = Concerns(q) \/ (ConcernsSpoilt(o) /\ ConcernsSpoilt(q))
  <2>1. CASE Overlap(q, o)
    BY <1>2, <1>3, <2>1, Overlapped
  <2>2. CASE wanted[o] = wanted[q]
    BY <2>2 DEF Concerns, Adds, Goal
  <2> QED BY <1>2, <1>3, <2>1, <2>2 DEF Overlap
<1>4. ASSUME NEW o \in PackOps, NEW p \in PackOps, o # p, Running(o), Running(p), Overlap(o, p)'
      PROVE  ConcernsSpoilt(o) /\ Concerns(o)' \subseteq spoilt
  <2>1. /\ Adds(o) \/ Adds(p)
        /\ wanted[o].id = wanted[p].id \/ \E t : t \in Concerns(o)' /\ t \in Concerns(p)'
        /\ ~(wanted[o] = wanted[p] /\ wanted[o].kind = "install")
    BY <1>1, <1>4 DEF Overlap
  <2>2. /\ Concerns(o)' \subseteq Concerns(o) \cup {Goal(q)}
        /\ Concerns(p)' \subseteq Concerns(p) \cup {Goal(q)}
        /\ wanted[o].id # wanted[q].id => Concerns(o)' = Concerns(o)
        /\ wanted[p].id # wanted[q].id => Concerns(p)' = Concerns(p)
    BY ConcernsAfterUpsert
  <2>3. CASE Overlap(o, p)
    <3>1. ConcernsSpoilt(o) /\ ConcernsSpoilt(p)
      BY <1>4, <2>3, Overlapped
    <3> QED BY <1>2, <1>3, <1>4, <2>2, <3>1 DEF ConcernsSpoilt
  <2>4. CASE ~Overlap(o, p)
    <3>1. wanted[o].id # wanted[p].id /\ \A t : ~(t \in Concerns(o) /\ t \in Concerns(p))
      BY <2>1, <2>4 DEF Overlap
    <3>2. CASE wanted[o].id = wanted[q].id
      <4>1. Goal(q) \in Concerns(p) /\ p # q
        BY <2>1, <2>2, <3>1, <3>2
      <4>2. Overlap(q, p)
        BY <1>2, <3>1, <3>2, <4>1 DEF Overlap
      <4>3. ConcernsSpoilt(q)
        BY <1>2, <1>4, <4>1, <4>2, Overlapped
      <4> QED BY <1>2, <1>3, <1>4, <2>2, <3>2, <4>3 DEF ConcernsSpoilt
    <3>3. CASE wanted[p].id = wanted[q].id
      <4>1. Goal(q) \in Concerns(o) /\ o # q
        BY <2>1, <2>2, <3>1, <3>3
      <4>2. Overlap(q, o)
        BY <1>2, <3>1, <3>3, <4>1 DEF Overlap
      <4>3. ConcernsSpoilt(q) /\ ConcernsSpoilt(o)
        BY <1>2, <1>4, <4>1, <4>2, Overlapped
      <4> QED BY <1>2, <2>2, <4>3 DEF ConcernsSpoilt
    <3> QED BY <2>1, <2>2, <3>1, <3>2, <3>3
  <2> QED BY <2>3, <2>4
<1> SUFFICES ASSUME NEW o \in PackOps, NEW p \in PackOps, o # p, Running(o)', Running(p)', Overlap(o, p)'
             PROVE  Concerns(o)' \subseteq spoilt' /\ Concerns(p)' \subseteq spoilt'
  BY DEF Overlaps, ConcernsSpoilt
<1>5. Running(o) /\ Running(p)
  BY <1>1 DEF Running
<1>6. Overlap(p, o)'
  BY <1>1 DEF Overlap
<1> QED BY <1>1, <1>4, <1>5, <1>6

\* The step that rewrites a row leaves it about the same file, or removes it.
LEMMA OverlapsRewrite ==
  ASSUME PInv, NEW q \in PackOps, Rewrite(q)
  PROVE  Overlaps'
<1> USE DEF PInv
<1>1. /\ wanted' = wanted /\ spoilt' = spoilt
      /\ \A o \in PackOps : /\ Adds(o)' = Adds(o) /\ Goal(o)' = Goal(o)
                            /\ (at'[o] \notin {"idle", "done"} => Running(o))
  BY DEF Rewrite, Adds, Goal, Running, PackTypeOK
<1>2. PICK r \in ledger :
           ledger' = (ledger \ {r}) \cup (IF wanted[q].kind = "toggle" THEN {Flipped(r)} ELSE {})
  BY AfterRewrite
<1>3. TargetOf(Flipped(r)) = TargetOf(r) /\ Flipped(r).id = r.id
  BY RowFields DEF PackTypeOK
<1>4. ASSUME NEW o \in PackOps PROVE Concerns(o)' \subseteq Concerns(o)
  <2>1. \A t : t \in Concerns(o)' => \/ \E s \in ledger' : s.id = wanted[o].id /\ TargetOf(s) = t
                                     \/ Adds(o) /\ t = Goal(o)
    BY <1>1 DEF Concerns, RowsOf
  <2> QED BY <1>2, <1>3, <2>1, ConcernsAre
<1> SUFFICES ASSUME NEW o \in PackOps, NEW p \in PackOps, o # p, Running(o)', Running(p)', Overlap(o, p)'
             PROVE  Concerns(o)' \subseteq spoilt' /\ Concerns(p)' \subseteq spoilt'
  BY DEF Overlaps, ConcernsSpoilt
<1>5. Running(o) /\ Running(p)
  BY <1>1 DEF Running
<1>6. Overlap(o, p)
  <2>1. /\ Adds(o) \/ Adds(p)
        /\ wanted[o].id = wanted[p].id \/ \E t : t \in Concerns(o)' /\ t \in Concerns(p)'
        /\ ~(wanted[o] = wanted[p] /\ wanted[o].kind = "install")
    BY <1>1 DEF Overlap
  <2> QED BY <1>4, <2>1 DEF Overlap
<1> QED BY <1>1, <1>4, <1>5, <1>6, Overlapped DEF ConcernsSpoilt

LEMMA OverlapsStep ==
  ASSUME PInv, [PackNext]_packVars
  PROVE  Overlaps'
<1>1. ledger' = ledger \/ \E q \in PackOps : Upsert(q) \/ Rewrite(q)
  BY DEF PackNext, PackStep, Begin, Prepare, OpenPack, WriteBytes, Place, Start, MoveFile, RemoveFile,
    PackFail, Cancel, PackCrash, packVars
<1> QED BY <1>1, OverlapsSameRows, OverlapsUpsert, OverlapsRewrite

\* A step of one operation changes no file but those it is about, and moves no
\* write of another but along with the file.
LEMMA Touches ==
  ASSUME PInv, NEW x \in PackOps, PackStep(x) \/ PackFail(x) \/ Cancel(x), NEW t \in Targets,
         Adds(x) => t # Goal(x),
         at[x] = "moving" => \A r \in ledger : Mine(x, r) => TargetOf(r) # t
  PROVE  /\ \A form \in Forms : files'[<<t, form>>] = files[<<t, form>>]
         /\ \A p \in PackOps : p # x /\ Goal(p) = t => writing'[p] = writing[p]
<1> USE DEF PInv
<1>1. CASE Begin(x) \/ Prepare(x) \/ Upsert(x) \/ Start(x) \/ Rewrite(x) \/ Cancel(x)
  BY <1>1 DEF Begin, Prepare, Upsert, Start, Rewrite, Cancel
<1>2. ASSUME NEW u, u # t, NEW from \in Forms, NEW to \in Forms,
             \/ files' = Moved(<<u, from>>, <<u, to>>) /\ writing' = Followed(<<u, from>>, <<u, to>>)
             \/ Gone(<<u, from>>)
             \/ (\E v : files' = [files EXCEPT ![<<u, from>>] = v])
                  /\ \A p \in PackOps : p # x => writing'[p] = writing[p]
      PROVE  /\ \A form \in Forms : files'[<<t, form>>] = files[<<t, form>>]
             /\ \A p \in PackOps : p # x /\ Goal(p) = t => writing'[p] = writing[p]
  <2>1. \A form, g \in Forms : <<t, form>> \in Paths /\ <<t, form>> # <<u, g>>
    BY <1>2 DEF Paths
  <2>2. \A form \in Forms : files'[<<t, form>>] = files[<<t, form>>]
    BY <1>2, <2>1 DEF Moved, Gone, PackTypeOK
  <2>3. ASSUME NEW p \in PackOps, p # x, Goal(p) = t PROVE writing'[p] = writing[p]
    <3>1. \A g \in Forms : writing[p] # <<u, g>>
      <4>1. \A g : Nowhere # <<u, g>>
        BY DEF Nowhere
      <4>2. writing[p] = Nowhere \/ \E form \in Forms : writing[p] = <<t, form>>
        BY <2>3 DEF StagesFit
      <4> QED BY <2>1, <4>1, <4>2
    <3> QED BY <1>2, <2>3, <3>1 DEF Followed, Gone
  <2> QED BY <2>2, <2>3
<1>3. CASE OpenPack(x) \/ WriteBytes(x) \/ Place(x)
  <2>1. Adds(x) /\ Goal(x) # t
    BY <1>3 DEF OpenPack, WriteBytes, Place, StagesFit
  <2>2. /\ Tmp(x) = <<Goal(x), "tmp">> /\ Final(x) = <<Goal(x), "zip">>
        /\ Written(x) \in {<<Goal(x), "tmp">>, <<Goal(x), "zip">>}
        /\ writing[x] # Nowhere => \E form \in Forms : writing[x] = <<Goal(x), form>>
    BY DEF Tmp, Final, Written, StagesFit
  <2>3. CASE OpenPack(x)
    BY <1>2, <2>1, <2>2, <2>3 DEF OpenPack, Forms, PackTypeOK
  <2>4. CASE WriteBytes(x)
    BY <1>2, <2>1, <2>2, <2>4 DEF WriteBytes, Forms, PackTypeOK
  <2>5. CASE Place(x)
    BY <1>2, <2>1, <2>2, <2>5 DEF Place, Forms
  <2> QED BY <1>3, <2>3, <2>4, <2>5
<1>4. CASE MoveFile(x) \/ RemoveFile(x)
  <2>1. snap = ledger /\ at[x] = "moving"
    BY <1>4, NoOpAssumption DEF MoveFile, RemoveFile, LockHolds
  <2>2. \A r \in Sought(x, snap) : /\ TargetOf(r) # t
                                   /\ \E from, to \in Forms : FileOf(r) = <<TargetOf(r), from>>
                                                          /\ FileOf(Flipped(r)) = <<TargetOf(r), to>>
    BY <2>1, RowFields DEF Sought, RowsOf, Mine, PackTypeOK, Forms
  <2>3. CASE MoveFile(x)
    <3>1. PICK r \in Sought(x, snap) :
            \/ UNCHANGED <<files, writing>>
            \/ files' = Moved(FileOf(r), FileOf(Flipped(r))) /\ writing' = Followed(FileOf(r), FileOf(Flipped(r)))
      BY <2>3 DEF MoveFile
    <3> QED BY <1>2, <2>2, <3>1
  <2>4. CASE RemoveFile(x)
    <3>1. PICK r \in Sought(x, snap) : Gone(FileOf(r))
      BY <2>4 DEF RemoveFile
    <3> QED BY <1>2, <2>2, <3>1
  <2> QED BY <1>4, <2>3, <2>4
<1>5. CASE PackFail(x)
  <2>1. CASE at[x] = "placing"
    BY <1>2, <1>5, <2>1 DEF PackFail, StagesFit, Tmp, Forms
  <2>2. CASE at[x] # "placing"
    BY <1>5, <2>2 DEF PackFail, PackTypeOK
  <2> QED BY <2>1, <2>2
<1> QED BY <1>1, <1>3, <1>4, <1>5 DEF PackStep

\* The step of another operation leaves an operation that adds a pack as it was:
\* refused, or with the rows it displaces spoilt.
LEMMA DisplacedByAnother ==
  ASSUME PInv, NEW x \in PackOps, PackStep(x) \/ PackFail(x) \/ Cancel(x), [PackNext]_packVars,
         NEW o \in PackOps, o # x, Running(o), Adds(o)
  PROVE  (at'[o] = "asked" /\ Refused(o)') \/ Displaced(o)'
<1> USE DEF PInv
<1>0. /\ spoilt \subseteq spoilt' /\ NewRow(o)' = NewRow(o) /\ Goal(o)' = Goal(o) /\ wanted' = wanted
  BY SpoiltGrows
<1>1. at'[o] = at[o]
  BY DEF PackStep, Begin, Prepare, OpenPack, WriteBytes, Upsert, Place, Start, MoveFile, RemoveFile,
    Rewrite, PackFail, Cancel, PackTypeOK
<1>2. Goal(o) \in Targets /\ Goal(o) \in Concerns(o) /\ NewRow(o).id = wanted[o].id
  BY PackRequestFields, ConcernsAre
<1>3. CASE ConcernsSpoilt(o) /\ ledger' = ledger
  <2>1. \A r \in ledger : Displaces(o, r) => TargetOf(r) \in Concerns(o)
    BY <1>2, ConcernsAre DEF Displaces
  <2> QED BY <1>0, <1>3, <2>1 DEF Displaced, Displaces, ConcernsSpoilt
<1>4. CASE ~ConcernsSpoilt(o) /\ Running(x)
  <2>1. ~Overlap(o, x) /\ ~Overlap(x, o)
    BY <1>4, Overlapped
  <2>2. \/ wanted[o].id # wanted[x].id /\ \A t : ~(t \in Concerns(o) /\ t \in Concerns(x))
        \/ wanted[o] = wanted[x] /\ wanted[o].kind = "install"
    BY <2>1 DEF Overlap
  <2>3. wanted[o].kind = "drop" => files'[Final(o)] = files[Final(o)]
    <3> SUFFICES ASSUME wanted[o].kind = "drop" PROVE files'[Final(o)] = files[Final(o)]
      OBVIOUS
    <3>1. Goal(o) \notin Concerns(x)
      BY <1>2, <2>2
    <3>2. Adds(x) => Goal(x) # Goal(o)
      BY <3>1, ConcernsAre
    <3>3. \A r \in ledger : Mine(x, r) => TargetOf(r) # Goal(o)
      BY <3>1, ConcernsAre DEF Mine
    <3> QED BY <1>2, <3>2, <3>3, Touches DEF Final, Forms
  <2>4. ASSUME NEW r \in ledger', r \notin ledger, Displaces(o, r) PROVE FALSE
    <3>1. CASE Upsert(x)
      <4>1. r = NewRow(x) /\ Goal(x) \in Concerns(x) /\ TargetOf(r) = Goal(x) /\ r.id = wanted[x].id
        BY <2>4, <3>1, AfterUpsert, ConcernsAre, PackRequestFields DEF Upsert, StagesFit
      <4>2. wanted[o] = wanted[x]
        BY <1>2, <2>2, <2>4, <4>1 DEF Displaces
      <4>3. NewRow(o) = NewRow(x)
        BY <4>2 DEF NewRow
      <4> QED BY <1>2, <2>4, <4>1, <4>3 DEF Displaces
    <3>2. CASE Rewrite(x)
      <4>1. PICK s \in ledger : /\ Mine(x, s)
                                /\ ledger' \subseteq ledger \cup {Flipped(s)}
        BY <3>2, AfterRewrite
      <4>2. r = Flipped(s) /\ TargetOf(r) = TargetOf(s) /\ r.id = wanted[x].id
        BY <2>4, <4>1, RowFields DEF PackTypeOK, Mine
      <4>3. TargetOf(s) \in Concerns(x)
        BY <4>1, ConcernsAre DEF Mine
      <4>4. wanted[o] = wanted[x] /\ wanted[o].kind = "install"
        BY <1>2, <2>2, <2>4, <4>2, <4>3 DEF Displaces
      <4>5. lock = x /\ lock # NoOp
        BY <3>2, NoOpAssumption DEF Rewrite, LockHolds
      <4> QED BY <4>4, <4>5 DEF LockHolds, Adds
    <3>3. CASE ledger' = ledger
      BY <2>4, <3>3
    <3> QED BY <3>1, <3>2, <3>3 DEF PackStep, Begin, Prepare, OpenPack, WriteBytes, Place, Start, MoveFile,
      RemoveFile, PackFail, Cancel
  <2>5. CASE Displaced(o)
    BY <1>0, <2>4, <2>5 DEF Displaced, Displaces
  <2>6. CASE at[o] = "asked" /\ Refused(o)
    BY <1>0, <1>1, <2>3, <2>6 DEF Refused, Final
  <2> QED BY <2>5, <2>6 DEF Displacements
<1>5. CASE ConcernsSpoilt(o) /\ ledger' # ledger
  <2>1. CASE Upsert(x)
    <3>1. Goal(x) \in Concerns(x) /\ Running(x) /\ Adds(x) /\ TargetOf(NewRow(x)) = Goal(x)
          /\ NewRow(x).id = wanted[x].id
      BY <2>1, ConcernsAre, PackRequestFields DEF Upsert, StagesFit, Running
    <3>2. \A r \in ledger : Displaces(o, r) => TargetOf(r) \in Concerns(o)
      BY <1>2, ConcernsAre DEF Displaces
    <3>3. ASSUME Displaces(o, NewRow(x)) PROVE Goal(x) \in spoilt
      <4>1. CASE Overlap(x, o)
        BY <3>1, <4>1, Overlapped DEF ConcernsSpoilt
      <4>2. CASE wanted[o] = wanted[x]
        <5>1. Goal(x) = Goal(o)
          BY <4>2 DEF Goal
        <5> QED BY <1>2, <1>5, <5>1 DEF ConcernsSpoilt
      <4>3. wanted[o].id = wanted[x].id \/ Goal(x) = Goal(o)
        BY <3>1, <3>3 DEF Displaces
      <4> QED BY <1>2, <3>1, <4>1, <4>2, <4>3 DEF Overlap
    <3>4. \A r \in ledger' : r = NewRow(x) \/ r \in ledger
      BY <2>1, AfterUpsert
    <3> QED BY <1>0, <1>5, <3>1, <3>2, <3>3, <3>4 DEF Displaced, Displaces, ConcernsSpoilt
  <2>2. CASE Rewrite(x)
    <3>1. PICK s \in ledger : /\ Mine(x, s)
                              /\ ledger' \subseteq ledger \cup {Flipped(s)}
      BY <2>2, AfterRewrite
    <3>2. TargetOf(Flipped(s)) = TargetOf(s) /\ Flipped(s).id = wanted[x].id /\ s.id = wanted[x].id
      BY <3>1, RowFields DEF PackTypeOK, Mine
    <3>3. \A r \in ledger : Displaces(o, r) => TargetOf(r) \in Concerns(o)
      BY <1>2, ConcernsAre DEF Displaces
    <3>4. ASSUME Displaces(o, Flipped(s)) PROVE TargetOf(s) \in Concerns(o)
      BY <1>2, <3>2, <3>4, ConcernsAre DEF Displaces
    <3> QED BY <1>0, <1>5, <3>1, <3>2, <3>3, <3>4 DEF Displaced, Displaces, ConcernsSpoilt
  <2> QED BY <1>5, <2>1, <2>2 DEF PackStep, Begin, Prepare, OpenPack, WriteBytes, Place, Start, MoveFile,
      RemoveFile, PackFail, Cancel
<1>6. CASE ~Running(x)
  <2>1. Begin(x)
    BY <1>6 DEF PackStep, Begin, Prepare, OpenPack, WriteBytes, Upsert, Place, Start, MoveFile, RemoveFile,
      Rewrite, PackFail, Cancel, Running
  <2> QED BY <1>0, <1>1, <2>1 DEF Begin, Displacements, Displaced, Displaces, Refused, Final
<1> QED BY <1>3, <1>4, <1>5, <1>6

\* The steps of the operation itself: when it begins it spoils what it displaces,
\* and it puts down its row.
LEMMA DisplacedByItself ==
  ASSUME PInv, NEW o \in PackOps, PackStep(o) \/ PackFail(o) \/ Cancel(o), [PackNext]_packVars,
         at'[o] \notin {"idle", "done"}, Adds(o)
  PROVE  (at'[o] = "asked" /\ Refused(o)') \/ Displaced(o)'
<1> USE DEF PInv
<1>0. /\ spoilt \subseteq spoilt' /\ NewRow(o)' = NewRow(o) /\ Goal(o)' = Goal(o) /\ wanted' = wanted
  BY SpoiltGrows
<1>1. CASE Begin(o)
  <2>1. at'[o] = "asked" /\ ledger' = ledger /\ files' = files /\ Refused(o)' = Refused(o)
    BY <1>0, <1>1 DEF Begin, PackTypeOK, Refused, Final
  <2> SUFFICES ASSUME ~Refused(o) PROVE Displaced(o)'
    BY <2>1
  <2>2. Orphaned(o) \cup Claimed(o) \subseteq spoilt'
    BY <1>1 DEF Begin
  <2>3. ASSUME NEW r \in ledger, Displaces(o, r) PROVE TargetOf(r) \in spoilt'
    BY <2>2, <2>3 DEF Displaces, Orphaned, Claimed, RowsOf
  <2> QED BY <1>0, <2>1, <2>3 DEF Displaced, Displaces
<1>2. CASE Prepare(o) \/ OpenPack(o) \/ WriteBytes(o)
  <2>1. ledger' = ledger /\ Displaced(o)
    BY <1>2 DEF Prepare, OpenPack, WriteBytes, Displacements, Running, PackTypeOK
  <2> QED BY <1>0, <2>1 DEF Displaced, Displaces
<1>3. CASE Upsert(o)
  <2>1. Displaced(o) /\ \A r \in ledger' : r = NewRow(o) \/ r \in ledger
    BY <1>3, AfterUpsert DEF Upsert, Displacements, Running
  <2>2. ~Displaces(o, NewRow(o))
    BY PackRequestFields DEF Displaces
  <2> QED BY <1>0, <2>1, <2>2 DEF Displaced, Displaces
<1>4. CASE Place(o) \/ PackFail(o) \/ Cancel(o) \/ Rewrite(o)
  BY <1>4 DEF Place, PackFail, Cancel, Rewrite, PackTypeOK
<1>5. CASE Start(o) \/ MoveFile(o) \/ RemoveFile(o)
  BY <1>5, NoOpAssumption DEF Start, MoveFile, RemoveFile, LockHolds
<1> QED BY <1>1, <1>2, <1>3, <1>4, <1>5 DEF PackStep

LEMMA DisplacementsStep ==
  ASSUME PInv, [PackNext]_packVars
  PROVE  Displacements'
<1> SUFFICES ASSUME NEW o \in PackOps, Running(o)', Adds(o)'
             PROVE  (at[o] = "asked" /\ Refused(o))' \/ Displaced(o)'
  BY DEF Displacements
<1>1. at'[o] \notin {"idle", "done"} /\ Adds(o)
  BY SpoiltGrows DEF Running
<1>2. ASSUME NEW x \in PackOps, PackStep(x) \/ PackFail(x) \/ Cancel(x)
      PROVE  (at[o] = "asked" /\ Refused(o))' \/ Displaced(o)'
  <2>1. CASE x = o
    BY <1>1, <1>2, <2>1, DisplacedByItself
  <2>2. CASE x # o
    <3>1. Running(o)
      BY <1>1, <1>2, <2>2 DEF PackStep, Begin, Prepare, OpenPack, WriteBytes, Upsert, Place, Start, MoveFile,
        RemoveFile, Rewrite, PackFail, Cancel, PackTypeOK, PInv, Running
    <3> QED BY <1>1, <1>2, <2>2, <3>1, DisplacedByAnother
  <2> QED BY <2>1, <2>2
<1>3. CASE PackCrash
  BY <1>1, <1>3 DEF PackCrash, Running
<1>4. CASE UNCHANGED packVars
  BY <1>1, <1>4 DEF packVars, PInv, Displacements, Running, Refused, Displaced, Displaces, Final, Goal, NewRow
<1> QED BY <1>2, <1>3, <1>4 DEF PackNext

-----------------------------------------------------------------------------
(* A pack about which nothing changes. *)

\* A step that changes neither the files nor the rows of a pack, nor how far those
\* have got that add it, leaves it in order.
LEMMA Elsewhere ==
  ASSUME NEW t, InOrder(t), wanted' = wanted, Rows(t)' = Rows(t),
         Zip(t)' = Zip(t), Dis(t)' = Dis(t), Part(t)' = Part(t),
         \A r \in Rows(t) : RowHolds(t, r) => RowHolds(t, r)',
         \A p \in PackOps : Adds(p) /\ Goal(p) = t => at'[p] = at[p] /\ writing'[p] = writing[p]
  PROVE  InOrder(t)'
<1>1. /\ \A p \in PackOps : /\ AddsTo(p, t)' <=> AddsTo(p, t)
                            /\ AddsTo(p, t) => at'[p] = at[p] /\ writing'[p] = writing[p]
                            /\ NewRow(p)' = NewRow(p)
  BY DEF AddsTo, Running, Adds, Goal, NewRow
<1>2. \A p, q \in PackOps : AddsTo(q, t) /\ wanted[p] = wanted[q] => at'[p] = at[p]
  BY DEF AddsTo, Adds, Goal
<1>3. \A form : WrittenAt(t, form)' <=> WrittenAt(t, form)
  BY <1>1 DEF WrittenAt
<1>4. PlacedAt(t)' <=> PlacedAt(t)
  BY <1>1 DEF PlacedAt
<1>5. Quiet(t) => Quiet(t)'
  BY DEF Quiet, Lies
<1>6. ASSUME NEW o \in PackOps, AddsTo(o, t), DropHolds(o, t) PROVE DropHolds(o, t)'
  BY <1>1, <1>5, <1>6 DEF DropHolds
<1>7. ASSUME NEW o \in PackOps, AddsTo(o, t), InstallHolds(o, t) PROVE InstallHolds(o, t)'
  <2>1. DownloadHolds(o, t)'
    BY <1>1, <1>2, <1>3, <1>7 DEF InstallHolds, DownloadHolds
  <2> QED BY <1>1, <1>3, <1>4, <1>7, <2>1 DEF InstallHolds
<1> QED BY <1>1, <1>5, <1>6, <1>7 DEF InOrder

\* Of what an operation is about it changes only the file it adds and the file of
\* the row it has in hand.
LEMMA Untouched ==
  ASSUME PInv, NEW x \in PackOps, PackStep(x) \/ PackFail(x) \/ Cancel(x), NEW t, t \in Targets,
         t \notin spoilt,
         Adds(x) => t # Goal(x),
         at[x] \in {"moving", "rewriting"} => \A r \in ledger : Mine(x, r) => TargetOf(r) # t
  PROVE  InOrder(t)'
<1> USE DEF PInv
<1>1. wanted' = wanted
  BY DEF PackStep, Begin, Prepare, OpenPack, WriteBytes, Upsert, Place, Start, MoveFile, RemoveFile,
    Rewrite, PackFail, Cancel
<1>2. /\ Zip(t)' = Zip(t) /\ Dis(t)' = Dis(t) /\ Part(t)' = Part(t)
      /\ \A p \in PackOps : p # x /\ Goal(p) = t => writing'[p] = writing[p]
  BY Touches DEF Zip, Dis, Part, Forms
<1>3. \A p \in PackOps : p # x => at'[p] = at[p]
  BY DEF PackStep, Begin, Prepare, OpenPack, WriteBytes, Upsert, Place, Start, MoveFile, RemoveFile,
    Rewrite, PackFail, Cancel, PackTypeOK
<1>4. Rows(t)' = Rows(t)
  <2>1. CASE Upsert(x)
    <3>1. Adds(x) /\ Displaced(x)
      BY <2>1 DEF Upsert, StagesFit, Displacements, Running
    <3>2. ASSUME NEW r \in ledger, r.id = wanted[x].id PROVE TargetOf(r) # t
      <4>1. TargetOf(r) # Goal(x) => FileOf(r) # FileOf(NewRow(x))
        <5>1. FileOf(NewRow(x)) = <<Goal(x), "zip">>
          BY PackRequestFields
        <5>2. \E form \in Forms : FileOf(r) = <<TargetOf(r), form>>
          BY DEF FileOf, Forms
        <5> QED BY <5>1, <5>2
      <4> QED BY <3>1, <3>2, <4>1 DEF Displaced, Displaces
    <3>3. TargetOf(NewRow(x)) # t
      BY <3>1, PackRequestFields
    <3> QED BY <2>1, <3>2, <3>3, AfterUpsert DEF Rows
  <2>2. CASE Rewrite(x)
    <3>1. PICK r \in ledger :
            /\ Mine(x, r)
            /\ ledger' = (ledger \ {r}) \cup (IF wanted[x].kind = "toggle" THEN {Flipped(r)} ELSE {})
      BY <2>2, AfterRewrite
    <3>2. TargetOf(r) # t /\ TargetOf(Flipped(r)) # t
      BY <2>2, <3>1, RowFields DEF Rewrite, PackTypeOK
    <3> QED BY <3>1, <3>2 DEF Rows
  <2>3. CASE ledger' = ledger
    BY <2>3 DEF Rows
  <2> QED BY <2>1, <2>2, <2>3 DEF PackStep, Begin, Prepare, OpenPack, WriteBytes, Place, Start, MoveFile,
      RemoveFile, PackFail, Cancel
<1>5. ASSUME NEW r \in Rows(t) PROVE RowHolds(t, r)' <=> RowHolds(t, r)
  <2>1. r \in ledger /\ TargetOf(r) = t
    BY DEF Rows
  <2>2. CASE lock = x
    <3>1. at[x] \in {"moving", "rewriting"} /\ ~Mine(x, r)
      BY <2>1, <2>2 DEF LockHolds
    <3>2. ~InHand(r) /\ ~InHand(r)'
      BY <1>1, <2>2, <3>1, NoOpAssumption DEF InHand, Mine, PackStep, Begin, Prepare, OpenPack, WriteBytes, Upsert,
        Place, Start, MoveFile, RemoveFile, Rewrite, Release, PackFail, Cancel
    <3> QED BY <1>2, <3>2 DEF RowHolds, Lies
  <2>3. CASE lock # x
    <3>1. InHand(r)' <=> InHand(r)
      <4>1. CASE lock' = lock
        BY <1>1, <1>3, <2>3, <4>1 DEF InHand, Mine, PackTypeOK
      <4>2. CASE lock' # lock
        BY <2>3, <4>2, NoOpAssumption DEF InHand, LockHolds, PackTypeOK, PackStep, Begin, Prepare, OpenPack,
          WriteBytes, Upsert, Place, Start, MoveFile, RemoveFile, Rewrite, Release, PackFail, Cancel
      <4> QED BY <4>1, <4>2
    <3>2. InHand(r) => lock' = lock
      BY <2>3, NoOpAssumption DEF InHand, LockHolds, PackTypeOK, PackStep, Begin, Prepare, OpenPack,
        WriteBytes, Upsert, Place, Start, MoveFile, RemoveFile, Rewrite, Release, PackFail, Cancel
    <3> QED BY <1>1, <1>2, <3>1, <3>2 DEF RowHolds, Lies
  <2> QED BY <2>2, <2>3
<1>6. InOrder(t)
  BY DEF Unspoilt
<1>7. \A p \in PackOps : Adds(p) /\ Goal(p) = t => at'[p] = at[p] /\ writing'[p] = writing[p]
  BY <1>2, <1>3
<1> QED BY <1>1, <1>2, <1>4, <1>5, <1>6, <1>7, Elsewhere

\* Who is about a pack that is not spoilt: of those that add it there is but one, or
\* all of them download the same; and then nobody has a row of it in hand.
LEMMA Company ==
  ASSUME PInv, NEW t, t \notin spoilt, NEW o \in PackOps, AddsTo(o, t)
  PROVE  /\ \A p \in PackOps : p # o /\ AddsTo(p, t) =>
              wanted[p] = wanted[o] /\ wanted[o].kind = "install" /\ NewRow(p) = NewRow(o)
         /\ \A p \in PackOps : \A r \in Rows(t) :
              Running(p) /\ ~Adds(p) => ~Mine(p, r)
         /\ \A r \in Rows(t) : ~InHand(r)
<1> USE DEF PInv
<1>1. Running(o) /\ Adds(o) /\ Goal(o) = t /\ t \in Concerns(o)
  BY ConcernsAre DEF AddsTo
<1>2. ASSUME NEW p \in PackOps, p # o, Running(p), t \in Concerns(p)
      PROVE  wanted[p] = wanted[o] /\ wanted[o].kind = "install"
  <2>1. ~Overlap(o, p)
    BY <1>1, <1>2, Overlapped DEF ConcernsSpoilt
  <2> QED BY <1>1, <1>2, <2>1 DEF Overlap
<1>3. \A p \in PackOps : wanted[p] = wanted[o] => NewRow(p) = NewRow(o) /\ (Adds(p) <=> Adds(o))
  BY DEF NewRow, Adds
<1>4. ASSUME NEW p \in PackOps, NEW r \in Rows(t), Running(p), ~Adds(p) PROVE ~Mine(p, r)
  <2>1. Mine(p, r) => t \in Concerns(p)
    BY ConcernsAre DEF Rows, Mine
  <2> QED BY <1>1, <1>2, <1>3, <1>4, <2>1
<1>5. ASSUME NEW r \in Rows(t), InHand(r) PROVE FALSE
  <2>1. lock \in PackOps /\ Running(lock) /\ ~Adds(lock) /\ Mine(lock, r)
    BY <1>5 DEF InHand, LockHolds, Running, PackTypeOK
  <2> QED BY <1>4, <2>1
<1>6. \A p \in PackOps : AddsTo(p, t) => Running(p) /\ t \in Concerns(p)
  BY ConcernsAre DEF AddsTo
<1> QED BY <1>2, <1>3, <1>4, <1>5, <1>6

-----------------------------------------------------------------------------
(* The pack that an operation adds. *)

\* The three names of a pack are three paths.
LEMMA ThreeNames ==
  ASSUME NEW t \in Targets
  PROVE  /\ <<t, "zip">> \in Paths /\ <<t, "disabled">> \in Paths /\ <<t, "tmp">> \in Paths
         /\ <<t, "zip">> # <<t, "disabled">> /\ <<t, "zip">> # <<t, "tmp">>
         /\ <<t, "disabled">> # <<t, "tmp">>
         /\ Nowhere # <<t, "zip">> /\ Nowhere # <<t, "tmp">> /\ Nowhere # <<t, "disabled">>
<1>1. /\ <<t, "zip">> \in Paths /\ <<t, "disabled">> \in Paths /\ <<t, "tmp">> \in Paths
  BY DEF Paths, Forms
<1> QED BY <1>1, NowhereIsNoPath

\* What is known of a drop and of a download of a pack that is not spoilt.
LEMMA OfDrop ==
  ASSUME PInv, NEW t, t \in Targets, t \notin spoilt,
         NEW x \in PackOps, AddsTo(x, t), wanted[x].kind = "drop"
  PROVE  /\ DropHolds(x, t)
         /\ \A p \in PackOps : p # x => ~AddsTo(p, t)
         /\ \A r \in Rows(t) : ~InHand(r)
         /\ \A r, s \in Rows(t) : r = s
BY Company DEF PInv, Unspoilt, InOrder

LEMMA OfInstall ==
  ASSUME PInv, NEW t, t \in Targets, t \notin spoilt,
         NEW x \in PackOps, AddsTo(x, t), wanted[x].kind = "install"
  PROVE  /\ \A p \in PackOps : AddsTo(p, t) =>
              wanted[p] = wanted[x] /\ NewRow(p) = NewRow(x) /\ InstallHolds(p, t)
         /\ \A r \in Rows(t) : ~InHand(r)
         /\ \A r, s \in Rows(t) : r = s
BY Company DEF PInv, Unspoilt, InOrder

\* A step of an operation changes the stage of no other.
LEMMA OneActs ==
  ASSUME PackTypeOK, NEW x \in PackOps, PackStep(x) \/ PackFail(x) \/ Cancel(x)
  PROVE  /\ wanted' = wanted
         /\ \A p \in PackOps : /\ Adds(p)' = Adds(p) /\ Goal(p)' = Goal(p) /\ NewRow(p)' = NewRow(p)
                               /\ p # x => at'[p] = at[p]
         /\ \A p \in PackOps : \A t : p # x => (AddsTo(p, t)' <=> AddsTo(p, t))
<1>1. /\ wanted' = wanted
      /\ \A p \in PackOps : p # x => at'[p] = at[p]
  BY DEF PackStep, Begin, Prepare, OpenPack, WriteBytes, Upsert, Place, Start, MoveFile, RemoveFile,
    Rewrite, PackFail, Cancel, PackTypeOK
<1> QED BY <1>1 DEF Adds, Goal, NewRow, AddsTo, Running

\* A dropped file is read, written and entered in the ledger, by nobody but one.
LEMMA DropInOrder ==
  ASSUME PInv, NEW x \in PackOps, Prepare(x) \/ OpenPack(x) \/ WriteBytes(x) \/ Upsert(x),
         NEW t, t = Goal(x), t \notin spoilt, wanted[x].kind = "drop"
  PROVE  InOrder(t)'
<1> USE DEF PInv
<1>1. AddsTo(x, t) /\ t \in Targets /\ Displacements
  BY PackRequestFields DEF AddsTo, Adds, Running, Prepare, OpenPack, WriteBytes, Upsert
<1>2. /\ DropHolds(x, t)
      /\ \A p \in PackOps : p # x => ~AddsTo(p, t)
      /\ \A r \in Rows(t) : ~InHand(r)
      /\ \A r, s \in Rows(t) : r = s
  BY <1>1, OfDrop
<1>3. wanted' = wanted /\ \A p \in PackOps : p # x => ~AddsTo(p, t)'
  BY <1>2, OneActs DEF PackStep
<1>4. Final(x) = <<t, "zip">> /\ Written(x) = <<t, "zip">>
  BY DEF Final, Written
<1>5. CASE Prepare(x)
  <2>1. Rows(t)' = Rows(t) /\ Zip(t)' = Zip(t) /\ Dis(t)' = Dis(t) /\ at[x] = "asked"
    BY <1>5 DEF Prepare, Rows, Zip, Dis
  <2>2. \A r \in Rows(t) : ~InHand(r)'
    BY <1>2, <1>3, <1>5, NoOpAssumption DEF InHand, Mine, Prepare, LockHolds, PackTypeOK
  <2>3. Quiet(t)'
    BY <1>2, <2>1, <2>2 DEF DropHolds, Quiet, RowHolds, Lies
  <2>4. CASE Refused(x)
    <3>1. ~AddsTo(x, t)'
      BY <1>5, <2>4 DEF Prepare, AddsTo, Running, PackTypeOK
    <3> QED BY <1>2, <1>3, <2>1, <2>3, <3>1 DEF InOrder
  <2>5. CASE ~Refused(x)
    <3>1. at'[x] = "ready" /\ Zip(t) = Absent
      BY <1>4, <1>5, <2>5 DEF Prepare, PackTypeOK, Refused, Zip
    <3>2. DropHolds(x, t)'
      BY <1>2, <2>1, <3>1 DEF DropHolds, Quiet, Lies
    <3> QED BY <1>1, <1>2, <1>3, <2>1, <3>1, <3>2 DEF InOrder, AddsTo, Running, Adds, Goal
  <2> QED BY <2>4, <2>5
<1>6. CASE OpenPack(x)
  <2>1. Rows(t)' = Rows(t) /\ Dis(t)' = Dis(t)
    BY <1>1, <1>4, <1>6, ThreeNames DEF OpenPack, Rows, Dis, PackTypeOK
  <2>2. at[x] = "ready" /\ at'[x] = "open" /\ writing'[x] = <<t, "zip">>
    BY <1>4, <1>6 DEF OpenPack, PackTypeOK
  <2>3. DropHolds(x, t)'
    BY <1>2, <2>1, <2>2 DEF DropHolds
  <2> QED BY <1>1, <1>2, <1>3, <2>1, <2>2, <2>3 DEF InOrder, AddsTo, Running, Adds, Goal
<1>7. CASE WriteBytes(x)
  <2>1. at[x] = "open" /\ at'[x] = "written" /\ writing[x] = <<t, "zip">>
    BY <1>2, <1>7 DEF WriteBytes, PackTypeOK, DropHolds
  <2>2. Rows(t)' = Rows(t) /\ Dis(t)' = Dis(t) /\ Zip(t)' = wanted[x].hash
    BY <1>1, <1>7, <2>1, ThreeNames DEF WriteBytes, Rows, Dis, Zip, PackTypeOK
  <2>3. DropHolds(x, t)'
    BY <1>2, <1>3, <2>1, <2>2 DEF DropHolds
  <2> QED BY <1>1, <1>2, <1>3, <2>1, <2>2, <2>3 DEF InOrder, AddsTo, Running, Adds, Goal
<1>8. CASE Upsert(x)
  <2>1. at[x] = "written" /\ at'[x] = "done" /\ lock' = NoOp /\ files' = files
    BY <1>8 DEF Upsert, PackTypeOK
  <2>2. Rows(t)' = {NewRow(x)}
    BY <1>2, <1>8, <2>1, AfterUpsert, PackRequestFields DEF DropHolds, Rows
  <2>3. Zip(t)' = wanted[x].hash /\ Dis(t)' = Absent
    BY <1>2, <2>1 DEF DropHolds, Zip, Dis
  <2>4. Quiet(t)'
    BY <2>1, <2>2, <2>3, PackRequestFields DEF Quiet, RowHolds, InHand, Lies
  <2>5. ~AddsTo(x, t)'
    BY <2>1 DEF AddsTo, Running
  <2> QED BY <1>3, <2>2, <2>4, <2>5 DEF InOrder
<1> QED BY <1>5, <1>6, <1>7, <1>8

\* A download up to the end of its writing.
LEMMA PrepareInOrder ==
  ASSUME PInv, NEW x \in PackOps, Prepare(x), NEW t, t = Goal(x), t \notin spoilt,
         wanted[x].kind = "install"
  PROVE  InOrder(t)'
<1> USE DEF PInv
<1>1. AddsTo(x, t) /\ t \in Targets
  BY PackRequestFields DEF AddsTo, Adds, Running, Prepare
<1>2. /\ \A p \in PackOps : AddsTo(p, t) =>
           wanted[p] = wanted[x] /\ NewRow(p) = NewRow(x) /\ InstallHolds(p, t)
      /\ \A r, s \in Rows(t) : r = s
  BY <1>1, OfInstall
<1>3. /\ wanted' = wanted /\ \A p \in PackOps : p # x => at'[p] = at[p] /\ (AddsTo(p, t)' <=> AddsTo(p, t))
      /\ \A p \in PackOps : NewRow(p)' = NewRow(p)
  BY OneActs DEF PackStep
<1>4. /\ at[x] = "asked" /\ at'[x] = "ready" /\ AddsTo(x, t)' /\ writing' = writing /\ Rows(t)' = Rows(t)
      /\ Zip(t)' = Zip(t) /\ Dis(t)' = Dis(t) /\ Part(t)' = Part(t)
  BY <1>1, <1>3 DEF Prepare, Refused, PackTypeOK, Rows, Zip, Dis, Part, AddsTo, Running, Adds, Goal
<1>5. /\ \A form : WrittenAt(t, form)' <=> WrittenAt(t, form)
      /\ PlacedAt(t)' <=> PlacedAt(t)
  BY <1>1, <1>3, <1>4 DEF WrittenAt, PlacedAt
<1>6. ASSUME NEW o \in PackOps, AddsTo(o, t)' PROVE InstallHolds(o, t)'
  <2>1. InstallHolds(o, t) /\ AddsTo(o, t)
    BY <1>1, <1>2, <1>3, <1>6
  <2>2. DownloadHolds(o, t)'
    BY <1>3, <1>4, <1>5, <2>1 DEF InstallHolds, DownloadHolds
  <2> QED BY <1>3, <1>4, <1>5, <2>1, <2>2 DEF InstallHolds
<1>7. \A o \in PackOps : AddsTo(o, t)' => wanted[o].kind = "install"
  BY <1>1, <1>2, <1>3
<1> QED BY <1>2, <1>3, <1>4, <1>6, <1>7 DEF InOrder

LEMMA OpenInOrder ==
  ASSUME PInv, NEW x \in PackOps, OpenPack(x), NEW t, t = Goal(x), t \notin spoilt,
         wanted[x].kind = "install"
  PROVE  InOrder(t)'
<1> USE DEF PInv
<1>1. AddsTo(x, t) /\ t \in Targets
  BY PackRequestFields DEF AddsTo, Adds, Running, OpenPack
<1>2. /\ \A p \in PackOps : AddsTo(p, t) =>
           wanted[p] = wanted[x] /\ NewRow(p) = NewRow(x) /\ InstallHolds(p, t)
      /\ \A r, s \in Rows(t) : r = s
  BY <1>1, OfInstall
<1>3. /\ wanted' = wanted /\ \A p \in PackOps : p # x => at'[p] = at[p] /\ (AddsTo(p, t)' <=> AddsTo(p, t))
      /\ \A p \in PackOps : NewRow(p)' = NewRow(p)
  BY OneActs DEF PackStep
<1>4. /\ at[x] = "ready" /\ at'[x] = "open" /\ AddsTo(x, t)' /\ Rows(t)' = Rows(t) /\ Written(x) = <<t, "tmp">>
      /\ writing[x] = Nowhere /\ writing'[x] = <<t, "tmp">>
      /\ \A p \in PackOps : p # x => writing'[p] = writing[p]
  BY <1>1, <1>3 DEF OpenPack, StagesFit, PackTypeOK, Rows, AddsTo, Running, Adds, Goal, Written, Tmp
<1>5. Zip(t)' = Zip(t) /\ Dis(t)' = Dis(t) /\ Part(t)' = Torn
  BY <1>1, <1>4, ThreeNames DEF OpenPack, PackTypeOK, Zip, Dis, Part
<1>6. /\ WrittenAt(t, "tmp")'
      /\ WrittenAt(t, "zip") => WrittenAt(t, "zip")'
      /\ PlacedAt(t) => PlacedAt(t)'
  BY <1>1, <1>3, <1>4, <1>5, ThreeNames, ContentsAssumption DEF WrittenAt, PlacedAt
<1>7. ASSUME NEW o \in PackOps, AddsTo(o, t)' PROVE InstallHolds(o, t)'
  <2>1. InstallHolds(o, t) /\ AddsTo(o, t)
    BY <1>1, <1>2, <1>3, <1>7
  <2>2. DownloadHolds(o, t)'
    BY <1>1, <1>3, <1>4, <1>5, <1>6, <2>1, ThreeNames, ContentsAssumption DEF InstallHolds, DownloadHolds
  <2> QED BY <1>3, <1>4, <1>5, <1>6, <2>1, <2>2 DEF InstallHolds
<1>8. \A o \in PackOps : AddsTo(o, t)' => wanted[o].kind = "install"
  BY <1>1, <1>2, <1>3
<1> QED BY <1>2, <1>3, <1>4, <1>7, <1>8 DEF InOrder

LEMMA WriteInOrder ==
  ASSUME PInv, NEW x \in PackOps, WriteBytes(x), NEW t, t = Goal(x), t \notin spoilt,
         wanted[x].kind = "install"
  PROVE  InOrder(t)'
<1> USE DEF PInv
<1> DEFINE h == wanted[x].hash
<1>1. AddsTo(x, t) /\ t \in Targets /\ h # Absent /\ h # Torn
  BY PackRequestFields DEF AddsTo, Adds, Running, WriteBytes, StagesFit
<1>2. /\ \A p \in PackOps : AddsTo(p, t) =>
           wanted[p] = wanted[x] /\ NewRow(p) = NewRow(x) /\ InstallHolds(p, t)
      /\ \A r, s \in Rows(t) : r = s
  BY <1>1, OfInstall
<1>3. /\ wanted' = wanted /\ \A p \in PackOps : p # x => at'[p] = at[p] /\ (AddsTo(p, t)' <=> AddsTo(p, t))
      /\ \A p \in PackOps : NewRow(p)' = NewRow(p)
  BY OneActs DEF PackStep
<1>4. /\ at[x] = "open" /\ at'[x] = "written" /\ AddsTo(x, t)' /\ Rows(t)' = Rows(t)
      /\ writing'[x] = Nowhere
      /\ \A p \in PackOps : p # x => writing'[p] = writing[p]
  BY <1>1, <1>3 DEF WriteBytes, PackTypeOK, Rows, AddsTo, Running, Adds, Goal
<1>5. \/ writing[x] = Nowhere /\ Zip(t)' = Zip(t) /\ Dis(t)' = Dis(t) /\ Part(t)' = Part(t)
      \/ writing[x] = <<t, "tmp">> /\ Zip(t)' = Zip(t) /\ Dis(t)' = Dis(t) /\ Part(t)' = h
      \/ writing[x] = <<t, "zip">> /\ Zip(t)' = h /\ Dis(t)' = Dis(t) /\ Part(t)' = Part(t)
  <2>1. writing[x] \in {Nowhere, <<t, "tmp">>, <<t, "zip">>}
    BY <1>1, <1>2 DEF InstallHolds, DownloadHolds, StagesFit, Forms
  <2> QED BY <1>1, <2>1, ThreeNames DEF WriteBytes, PackTypeOK, Zip, Dis, Part
<1>6. writing[x] = <<t, "zip">> => \A r \in Rows(t) : r = NewRow(x) /\ r.hash = h
  BY <1>1, <1>2, PackRequestFields DEF InstallHolds, DownloadHolds
<1>7. /\ WrittenAt(t, "tmp") => WrittenAt(t, "tmp")' \/ Part(t)' = h
      /\ WrittenAt(t, "zip") => WrittenAt(t, "zip")' \/ Zip(t)' = h
      /\ Part(t)' # Absent <=> Part(t) # Absent
      /\ PlacedAt(t) => PlacedAt(t)'
      /\ Zip(t) = h => Zip(t)' = h
      /\ \A r \in Rows(t) : WrittenAt(t, "zip") => WrittenAt(t, "zip")' \/ Zip(t)' = r.hash
  <2>1. Part(t)' # Absent <=> Part(t) # Absent
    BY <1>1, <1>2, <1>5 DEF InstallHolds, DownloadHolds
  <2>2. PlacedAt(t) => PlacedAt(t)'
    BY <1>3, <1>4, <2>1 DEF PlacedAt
  <2>3. WrittenAt(t, "zip") => WrittenAt(t, "zip")' \/ writing[x] = <<t, "zip">>
    BY <1>3, <1>4 DEF WrittenAt
  <2>4. WrittenAt(t, "tmp") => WrittenAt(t, "tmp")' \/ writing[x] = <<t, "tmp">>
    BY <1>3, <1>4 DEF WrittenAt
  <2> QED BY <1>1, <1>5, <1>6, <2>1, <2>2, <2>3, <2>4, ThreeNames
<1>8. ASSUME NEW o \in PackOps, AddsTo(o, t)' PROVE InstallHolds(o, t)'
  <2>1. InstallHolds(o, t) /\ AddsTo(o, t) /\ wanted[o].hash = h
    BY <1>1, <1>2, <1>3, <1>8
  <2>2. DownloadHolds(x, t) /\ DownloadHolds(o, t)
    BY <1>1, <1>2, <2>1 DEF InstallHolds
  <2>3. DownloadHolds(o, t)'
    <3>1. at'[o] \in {"open", "written", "placing"} =>
            /\ Part(t)' \in {Absent, Torn, wanted[o].hash}
            /\ Part(t)' = Torn => WrittenAt(t, "tmp")'
            /\ Part(t)' # Absent \/ Zip(t)' = wanted[o].hash \/ WrittenAt(t, "zip")'
      BY <1>1, <1>3, <1>4, <1>5, <1>7, <2>1, <2>2 DEF DownloadHolds
    <3>2. at'[o] = "placing" => NewRow(o) \in Rows(t)
      BY <1>3, <1>4, <2>2 DEF DownloadHolds
    <3>3. writing'[o] \in {Nowhere, writing[o]} /\ (o = x => writing'[o] = Nowhere)
      BY <1>4
    <3>4. writing'[o] # <<t, "disabled">> /\ (writing'[o] = <<t, "tmp">> => Part(t)' # Absent)
      BY <1>1, <1>7, <2>2, <3>3, ThreeNames DEF DownloadHolds
    <3>5. writing'[o] = <<t, "zip">> =>
            /\ Zip(t)' \in {Torn, wanted[o].hash} /\ NewRow(o) \in Rows(t)
            /\ \E p \in PackOps \ {o} : at'[p] # "idle" /\ wanted[p] = wanted[o]
      BY <1>1, <1>3, <1>4, <1>5, <2>1, <2>2, <3>3, ThreeNames DEF DownloadHolds
    <3> QED BY <1>3, <1>4, <3>1, <3>2, <3>4, <3>5 DEF DownloadHolds
  <2>4. \A r \in Rows(t) : Zip(t)' = r.hash \/ WrittenAt(t, "zip")' \/ PlacedAt(t)'
    BY <1>5, <1>6, <1>7, <2>1 DEF InstallHolds
  <2>5. Dis(t)' = Absent /\ (Rows(t) = {} => Zip(t)' = Absent)
    BY <1>1, <1>2, <1>5, <2>1 DEF InstallHolds, DownloadHolds
  <2> QED BY <1>3, <1>4, <2>1, <2>3, <2>4, <2>5 DEF InstallHolds
<1>9. \A o \in PackOps : AddsTo(o, t)' => wanted[o].kind = "install"
  BY <1>1, <1>2, <1>3
<1> QED BY <1>2, <1>3, <1>4, <1>8, <1>9 DEF InOrder

\* A download has its row put down before its file is renamed into place.
LEMMA UpsertInOrder ==
  ASSUME PInv, NEW x \in PackOps, Upsert(x), NEW t, t = Goal(x), t \notin spoilt,
         wanted[x].kind = "install"
  PROVE  InOrder(t)'
<1> USE DEF PInv
<1> DEFINE h == wanted[x].hash
<1>1. AddsTo(x, t) /\ t \in Targets /\ h # Absent /\ h # Torn
  BY PackRequestFields DEF AddsTo, Adds, Running, Upsert, StagesFit
<1>2. \A p \in PackOps : AddsTo(p, t) =>
        wanted[p] = wanted[x] /\ NewRow(p) = NewRow(x) /\ InstallHolds(p, t)
  BY <1>1, OfInstall
<1>3. /\ wanted' = wanted /\ \A p \in PackOps : p # x => at'[p] = at[p] /\ (AddsTo(p, t)' <=> AddsTo(p, t))
      /\ \A p \in PackOps : NewRow(p)' = NewRow(p)
  BY OneActs DEF PackStep
<1>4. /\ at[x] = "written" /\ at'[x] = "placing" /\ AddsTo(x, t)' /\ writing' = writing
      /\ Zip(t)' = Zip(t) /\ Dis(t)' = Dis(t) /\ Part(t)' = Part(t)
  BY <1>1, <1>3 DEF Upsert, PackTypeOK, Zip, Dis, Part, AddsTo, Running, Adds, Goal
<1>5. Rows(t)' = {NewRow(x)} /\ NewRow(x).hash = h /\ NewRow(x).id = wanted[x].id /\ NewRow(x).enabled
  <2>1. TargetOf(NewRow(x)) = t
    BY PackRequestFields
  <2>2. ASSUME NEW r \in ledger', r # NewRow(x) PROVE TargetOf(r) # t
    <3>1. r \in ledger /\ r.id # wanted[x].id
      BY <2>2, AfterUpsert
    <3> QED BY <1>1, <1>4, <3>1 DEF Displacements, Displaced, Displaces, AddsTo
  <2> QED BY <2>1, <2>2, AfterUpsert, PackRequestFields DEF Rows
<1>6. /\ \A form : WrittenAt(t, form)' <=> WrittenAt(t, form)
      /\ Part(t)' # Absent => PlacedAt(t)'
  BY <1>1, <1>3, <1>4 DEF WrittenAt, PlacedAt
<1>7. DownloadHolds(x, t)
  BY <1>1, <1>2 DEF InstallHolds
<1>8. \A r \in Rows(t)' : /\ r.id = wanted[x].id /\ r.enabled
                          /\ Zip(t)' = r.hash \/ WrittenAt(t, "zip")' \/ PlacedAt(t)'
  BY <1>4, <1>5, <1>6, <1>7 DEF DownloadHolds
<1>9. ASSUME NEW o \in PackOps, AddsTo(o, t)' PROVE InstallHolds(o, t)'
  <2>1. InstallHolds(o, t) /\ AddsTo(o, t) /\ wanted[o] = wanted[x] /\ NewRow(o) = NewRow(x)
    BY <1>1, <1>2, <1>3, <1>9
  <2>2. DownloadHolds(o, t)
    BY <2>1 DEF InstallHolds
  <2>3. DownloadHolds(o, t)'
    <3>1. at'[o] \in {"open", "written", "placing"} =>
            /\ Part(t)' \in {Absent, Torn, wanted[o].hash}
            /\ Part(t)' = Torn => WrittenAt(t, "tmp")'
            /\ Part(t)' # Absent \/ Zip(t)' = wanted[o].hash \/ WrittenAt(t, "zip")'
      BY <1>3, <1>4, <1>6, <1>7, <2>1, <2>2 DEF DownloadHolds
    <3>2. NewRow(o)' \in Rows(t)'
      BY <1>3, <1>5, <2>1
    <3>3. writing'[o] = <<t, "zip">> =>
            /\ Zip(t)' \in {Torn, wanted[o].hash}
            /\ \E p \in PackOps \ {o} : at'[p] # "idle" /\ wanted[p] = wanted[o]
      BY <1>3, <1>4, <2>2 DEF DownloadHolds
    <3> QED BY <1>3, <1>4, <2>2, <3>1, <3>2, <3>3 DEF DownloadHolds
  <2> QED BY <1>3, <1>4, <1>5, <1>8, <2>1, <2>3 DEF InstallHolds
<1>10. \A o \in PackOps : AddsTo(o, t)' => wanted[o].kind = "install"
  BY <1>1, <1>2, <1>3
<1> QED BY <1>3, <1>4, <1>5, <1>9, <1>10 DEF InOrder

\* The rename takes the downloaded file, and whoever is writing it, along.
LEMMA PlaceInOrder ==
  ASSUME PInv, NEW x \in PackOps, Place(x), NEW t, t = Goal(x), t \notin spoilt
  PROVE  InOrder(t)'
<1> USE DEF PInv
<1> DEFINE h == wanted[x].hash
<1>1. AddsTo(x, t) /\ t \in Targets /\ h # Absent /\ h # Torn /\ wanted[x].kind = "install" /\ Torn # Absent
  BY PackRequestFields, ContentsAssumption DEF AddsTo, Running, Place, StagesFit
<1>2. /\ \A p \in PackOps : AddsTo(p, t) =>
           wanted[p] = wanted[x] /\ NewRow(p) = NewRow(x) /\ InstallHolds(p, t) /\ DownloadHolds(p, t)
      /\ \A r \in Rows(t) : ~InHand(r)
      /\ \A r, s \in Rows(t) : r = s
  BY <1>1, OfInstall DEF InstallHolds
<1>3. /\ wanted' = wanted /\ \A p \in PackOps : p # x => at'[p] = at[p] /\ (AddsTo(p, t)' <=> AddsTo(p, t))
      /\ \A p \in PackOps : NewRow(p)' = NewRow(p)
  BY OneActs DEF PackStep
<1>4. /\ at[x] = "placing" /\ at'[x] = "done" /\ ~AddsTo(x, t)' /\ writing[x] = Nowhere /\ Rows(t)' = Rows(t)
      /\ Final(x) = <<t, "zip">> /\ Tmp(x) = <<t, "tmp">>
  BY DEF Place, PackTypeOK, AddsTo, Running, StagesFit, Rows, Final, Tmp
<1>5. /\ NewRow(x) \in Rows(t) /\ Rows(t) = {NewRow(x)} /\ NewRow(x).hash = h
      /\ NewRow(x).id = wanted[x].id /\ NewRow(x).enabled = TRUE
      /\ Dis(t) = Absent
      /\ Part(t) \in {Absent, Torn, h} /\ (Part(t) = Torn => WrittenAt(t, "tmp"))
      /\ Part(t) # Absent \/ Zip(t) = h \/ WrittenAt(t, "zip")
  BY <1>1, <1>2, <1>4, PackRequestFields DEF DownloadHolds, InstallHolds
<1>6. /\ Dis(t)' = Absent /\ Part(t)' = Absent
      /\ IF Part(t) # Absent
           THEN /\ Zip(t)' = Part(t)
                /\ \A p \in PackOps : writing'[p] = IF writing[p] = <<t, "tmp">> THEN <<t, "zip">>
                                                    ELSE IF writing[p] = <<t, "zip">> THEN Nowhere ELSE writing[p]
           ELSE Zip(t)' = Zip(t) /\ writing' = writing
  BY <1>1, <1>4, <1>5, ThreeNames DEF Place, Moved, Followed, PackTypeOK, Zip, Dis, Part
<1>7. Zip(t)' = h \/ WrittenAt(t, "zip")'
  <2>1. ASSUME NEW form, WrittenAt(t, form) PROVE \E p \in PackOps : p # x /\ AddsTo(p, t)' /\ writing[p] = <<t, form>>
    BY <1>3, <1>4, <2>1 DEF WrittenAt, Nowhere
  <2>2. CASE Part(t) = Torn
    BY <1>1, <1>5, <1>6, <2>1, <2>2 DEF WrittenAt
  <2>3. CASE Part(t) = Absent
    BY <1>5, <1>6, <2>1, <2>3 DEF WrittenAt
  <2>4. CASE Part(t) = h
    BY <1>1, <1>6, <2>4
  <2> QED BY <1>5, <2>2, <2>3, <2>4
<1>8. ASSUME NEW o \in PackOps, AddsTo(o, t)' PROVE InstallHolds(o, t)' /\ wanted[o].kind = "install"
  <2>1. o # x /\ InstallHolds(o, t) /\ AddsTo(o, t) /\ wanted[o] = wanted[x] /\ NewRow(o) = NewRow(x)
        /\ DownloadHolds(o, t)
    BY <1>2, <1>3, <1>4, <1>8
  <2>2. DownloadHolds(o, t)'
    <3>1. at'[o] \in {"open", "written", "placing"} =>
            /\ Part(t)' \in {Absent, Torn, wanted[o].hash}
            /\ Part(t)' # Torn
            /\ Part(t)' # Absent \/ Zip(t)' = wanted[o].hash \/ WrittenAt(t, "zip")'
      BY <1>1, <1>6, <1>7, <2>1
    <3>2. writing'[o] # <<t, "disabled">>
      BY <1>1, <1>6, <2>1, ThreeNames DEF DownloadHolds
    <3>3. writing'[o] # <<t, "tmp">>
      BY <1>1, <1>6, <2>1, ThreeNames DEF DownloadHolds
    <3>4. writing'[o] = <<t, "zip">> => Zip(t)' \in {Torn, wanted[o].hash}
      BY <1>1, <1>5, <1>6, <2>1, ThreeNames DEF DownloadHolds
    <3>5. at'[x] # "idle" /\ wanted[x] = wanted[o] /\ x \in PackOps \ {o}
      BY <1>4, <2>1
    <3>6. NewRow(o)' \in Rows(t)'
      BY <1>3, <1>4, <1>5, <2>1
    <3> QED BY <1>3, <3>1, <3>2, <3>3, <3>4, <3>5, <3>6 DEF DownloadHolds
  <2> QED BY <1>1, <1>3, <1>4, <1>5, <1>6, <1>7, <2>1, <2>2 DEF InstallHolds
<1>9. ASSUME \A o \in PackOps : ~AddsTo(o, t)' PROVE Quiet(t)'
  <2>1. Zip(t)' = h
    BY <1>7, <1>9 DEF WrittenAt
  <2>2. \A r \in Rows(t) : ~InHand(r)'
    BY <1>2, <1>3, <1>4, NoOpAssumption DEF InHand, Mine, Place, LockHolds, PackTypeOK
  <2> QED BY <1>4, <1>5, <1>6, <2>1, <2>2 DEF Quiet, RowHolds, Lies
<1> QED BY <1>2, <1>3, <1>4, <1>8, <1>9 DEF InOrder

\* An operation that begins finds the pack in order, and spoils it if it is not
\* for this operation alone.
LEMMA BeginInOrder ==
  ASSUME PInv, NEW x \in PackOps, Begin(x), Adds(x), NEW t, t = Goal(x), t \notin spoilt'
  PROVE  InOrder(t)'
<1> USE DEF PInv
<1>1. /\ t \in Targets /\ t \notin spoilt /\ InOrder(t) /\ t \in Concerns(x) /\ ~AddsTo(x, t)
      /\ at[x] = "idle" /\ at'[x] = "asked" /\ wanted' = wanted
      /\ lock' = lock /\ writing' = writing /\ files' = files /\ ledger' = ledger
  BY PackRequestFields, ConcernsAre DEF Begin, Unspoilt, PackTypeOK, AddsTo, Running
<1>2. /\ \A p \in PackOps : p # x => at'[p] = at[p] /\ (AddsTo(p, t)' <=> AddsTo(p, t))
      /\ \A p \in PackOps : NewRow(p)' = NewRow(p) /\ Adds(p)' = Adds(p) /\ Goal(p)' = Goal(p)
      /\ AddsTo(x, t)'
  BY <1>1, OneActs DEF PackStep, AddsTo, Running
<1>3. ASSUME NEW p \in PackOps, p # x, Running(p), t \in Concerns(p)
      PROVE  wanted[p] = wanted[x] /\ wanted[x].kind = "install" /\ Adds(p) /\ NewRow(p) = NewRow(x)
  <2>1. ~Overlap(x, p)
    BY <1>1, <1>3, BeginSpoils
  <2>2. wanted[p] = wanted[x] /\ wanted[x].kind = "install"
    BY <1>1, <1>3, <2>1 DEF Overlap
  <2> QED BY <2>2 DEF Adds, NewRow
<1>4. /\ \A p \in PackOps : AddsTo(p, t) => p # x /\ wanted[p] = wanted[x] /\ wanted[x].kind = "install"
                                            /\ NewRow(p) = NewRow(x)
      /\ \A r \in Rows(t) : ~InHand(r) /\ ~InHand(r)'
  <2>1. \A p \in PackOps : AddsTo(p, t) => p # x /\ Running(p) /\ t \in Concerns(p)
    BY <1>1, ConcernsAre DEF AddsTo
  <2>2. ASSUME NEW r \in Rows(t), InHand(r) PROVE FALSE
    <3>1. lock \in PackOps /\ Running(lock) /\ ~Adds(lock) /\ t \in Concerns(lock) /\ lock # x
      BY <1>1, <2>2, ConcernsAre DEF InHand, LockHolds, Running, PackTypeOK, Rows, Mine
    <3> QED BY <1>3, <3>1
  <2>3. \A r \in Rows(t) : InHand(r)' => InHand(r)
    BY <1>1, <1>2, NoOpAssumption DEF InHand, Mine, PackTypeOK, LockHolds
  <2> QED BY <1>3, <2>1, <2>2, <2>3
<1>5. /\ Rows(t)' = Rows(t) /\ Zip(t)' = Zip(t) /\ Dis(t)' = Dis(t) /\ Part(t)' = Part(t)
      /\ \A form : WrittenAt(t, form) => WrittenAt(t, form)'
      /\ PlacedAt(t) => PlacedAt(t)'
  BY <1>1, <1>2 DEF Rows, Zip, Dis, Part, WrittenAt, PlacedAt
<1>6. ~Refused(x) => \A r \in Rows(t) : r.id = wanted[x].id /\ FileOf(r) = <<t, "zip">>
  <2> SUFFICES ASSUME ~Refused(x), NEW r \in Rows(t) PROVE r.id = wanted[x].id /\ FileOf(r) = <<t, "zip">>
    OBVIOUS
  <2>1. Orphaned(x) \cup Claimed(x) \subseteq spoilt'
    BY DEF Begin
  <2>2. r \in ledger /\ TargetOf(r) = t /\ FileOf(NewRow(x)) = <<t, "zip">>
    BY PackRequestFields DEF Rows
  <2>3. r.id # wanted[x].id => t \in Claimed(x)
    BY <2>2 DEF Claimed
  <2>4. r.id = wanted[x].id /\ FileOf(r) # <<t, "zip">> => t \in Orphaned(x)
    BY <2>2 DEF Orphaned, RowsOf
  <2> QED BY <2>1, <2>3, <2>4
<1>7. ~Refused(x) => \A r \in Rows(t) : r.enabled
  BY <1>1, <1>6, ThreeNames DEF FileOf, Rows
<1>8. CASE wanted[x].kind = "drop"
  <2>1. \A p \in PackOps : p # x => ~AddsTo(p, t)'
    BY <1>2, <1>4, <1>8
  <2>2. Quiet(t)
    BY <1>1, <1>4, <1>8 DEF InOrder
  <2>3. Quiet(t)'
    BY <1>4, <1>5, <2>2 DEF Quiet, RowHolds, Lies
  <2>4. Zip(t) # Absent \/ Rows(t) = {}
    <3> SUFFICES ASSUME Zip(t) = Absent, NEW r \in Rows(t) PROVE FALSE
      OBVIOUS
    <3>1. ~Refused(x)
      BY DEF Refused, Zip, Final
    <3>2. Zip(t) = r.hash /\ r.hash # Absent
      BY <1>4, <1>7, <2>2, <3>1, RowFields DEF Quiet, RowHolds, Lies, Rows, PackTypeOK
    <3> QED BY <3>2
  <2>5. DropHolds(x, t)'
    BY <1>1, <1>5, <2>3, <2>4 DEF DropHolds
  <2> QED BY <1>1, <1>2, <1>5, <1>8, <2>1, <2>5 DEF InOrder
<1>9. CASE wanted[x].kind = "install"
  <2>1. ~Refused(x) /\ writing[x] = Nowhere
    BY <1>1, <1>9 DEF Refused, StagesFit
  <2>2. /\ \A r \in Rows(t) : Zip(t) = r.hash \/ WrittenAt(t, "zip") \/ PlacedAt(t)
        /\ Dis(t) = Absent
        /\ Rows(t) = {} => Zip(t) = Absent
    <3>1. CASE \E p \in PackOps : AddsTo(p, t)
      BY <1>1, <1>4, <1>9, <3>1 DEF InOrder, InstallHolds
    <3>2. CASE \A p \in PackOps : ~AddsTo(p, t)
      <4>1. Quiet(t)
        BY <1>1, <3>2 DEF InOrder
      <4> QED BY <1>4, <1>7, <2>1, <4>1 DEF Quiet, RowHolds, Lies
    <3> QED BY <3>1, <3>2
  <2>3. DownloadHolds(x, t)'
    BY <1>1, <2>1, ThreeNames DEF DownloadHolds
  <2>4. InstallHolds(x, t)'
    BY <1>1, <1>5, <1>6, <1>7, <2>1, <2>2, <2>3 DEF InstallHolds
  <2>5. ASSUME NEW o \in PackOps, o # x, AddsTo(o, t)' PROVE InstallHolds(o, t)' /\ wanted[o].kind = "install"
    <3>1. AddsTo(o, t) /\ wanted[o].kind = "install" /\ InstallHolds(o, t) /\ DownloadHolds(o, t)
      BY <1>1, <1>2, <1>4, <2>5 DEF InOrder, InstallHolds
    <3>2. \A p \in PackOps : at[p] # "idle" => at'[p] # "idle"
      BY <1>1, <1>2
    <3>3. DownloadHolds(o, t)'
      BY <1>1, <1>2, <1>5, <2>5, <3>1, <3>2 DEF DownloadHolds
    <3> QED BY <1>1, <1>5, <3>1, <3>3 DEF InstallHolds
  <2> QED BY <1>1, <1>2, <1>5, <1>9, <2>4, <2>5 DEF InOrder
<1> QED BY <1>8, <1>9 DEF Adds

-----------------------------------------------------------------------------
(* The pack that is turned on or off, or uninstalled. *)

\* Nobody adds a pack while the row of it is in somebody's hand.
LEMMA OfRow ==
  ASSUME PInv, NEW x \in PackOps, Running(x), ~Adds(x), NEW r \in ledger, Mine(x, r),
         NEW t, t = TargetOf(r), t \notin spoilt
  PROVE  /\ t \in Targets /\ Rows(t) = {r} /\ RowHolds(t, r)
         /\ \A p \in PackOps : ~AddsTo(p, t)
<1> USE DEF PInv
<1>1. t \in Targets /\ r \in Rows(t)
  BY RowFields DEF PackTypeOK, Rows
<1>2. \A p \in PackOps : ~AddsTo(p, t)
  BY <1>1, Company
<1>3. (\A q, s \in Rows(t) : q = s) /\ Quiet(t)
  BY <1>1, <1>2 DEF Unspoilt, InOrder
<1> QED BY <1>1, <1>2, <1>3 DEF Quiet

\* The row of a file that is renamed or removed is still to be rewritten.
LEMMA MoveInOrder ==
  ASSUME PInv, NEW x \in PackOps, MoveFile(x) \/ RemoveFile(x), NEW r \in ledger, Mine(x, r),
         NEW t, t = TargetOf(r), t \notin spoilt
  PROVE  InOrder(t)'
<1> USE DEF PInv
<1>1. /\ lock = x /\ lock # NoOp /\ at[x] = "moving" /\ snap = ledger /\ Running(x) /\ ~Adds(x)
      /\ r \in Row
  BY NoOpAssumption DEF MoveFile, RemoveFile, LockHolds, Running, PackTypeOK
<1>2. t \in Targets /\ Rows(t) = {r} /\ RowHolds(t, r) /\ \A p \in PackOps : ~AddsTo(p, t)
  BY <1>1, OfRow
<1>3. Sought(x, snap) = {r}
  BY <1>1 DEF OneRowEach, Sought, RowsOf, Mine
<1>4. /\ wanted' = wanted /\ ledger' = ledger
      /\ \A p \in PackOps : p # x => (AddsTo(p, t)' <=> AddsTo(p, t))
  BY OneActs DEF PackStep, MoveFile, RemoveFile
<1>5. ~AddsTo(x, t)' /\ Rows(t)' = {r} /\ Lies(t, r.hash, r.enabled)
  BY <1>1, <1>2, <1>4 DEF AddsTo, Adds, Rows, RowHolds, InHand
<1>6. /\ r.hash # Absent /\ r.enabled \in BOOLEAN
      /\ FileOf(r) = IF r.enabled THEN <<t, "zip">> ELSE <<t, "disabled">>
      /\ FileOf(Flipped(r)) = IF r.enabled THEN <<t, "disabled">> ELSE <<t, "zip">>
  BY <1>1, RowFields
<1>7. files[FileOf(r)] = r.hash
  BY <1>5, <1>6 DEF Lies, Zip, Dis
<1>8. lock' = x /\ at'[x] = "rewriting"
  BY <1>1, <1>3, <1>6, <1>7 DEF MoveFile, RemoveFile, PackTypeOK
<1>9. InHand(r)'
  BY <1>1, <1>4, <1>8 DEF InHand, Mine
<1>10. RowHolds(t, r)'
  <2>1. CASE MoveFile(x)
    <3>1. wanted[x].kind = "toggle" /\ files' = Moved(FileOf(r), FileOf(Flipped(r)))
      BY <1>3, <1>6, <1>7, <2>1 DEF MoveFile
    <3>2. Lies(t, r.hash, ~r.enabled)'
      BY <1>2, <1>5, <1>6, <1>7, <3>1, ThreeNames DEF Moved, Lies, Zip, Dis, PackTypeOK
    <3> QED BY <1>4, <1>8, <1>9, <3>1, <3>2 DEF RowHolds, Lies, Zip, Dis
  <2>2. CASE RemoveFile(x)
    <3>1. wanted[x].kind = "uninstall" /\ files' = [files EXCEPT ![FileOf(r)] = Absent]
      BY <1>3, <2>2 DEF RemoveFile, Gone
    <3>2. Lies(t, Absent, TRUE)'
      BY <1>2, <1>5, <1>6, <3>1, ThreeNames DEF Lies, Zip, Dis, PackTypeOK
    <3> QED BY <1>4, <1>8, <1>9, <3>1, <3>2 DEF RowHolds, Lies, Zip, Dis
  <2> QED BY <2>1, <2>2
<1> QED BY <1>2, <1>4, <1>5, <1>10 DEF InOrder, Quiet

\* The row that is rewritten is that of the file as it is by then.
LEMMA RewriteInOrder ==
  ASSUME PInv, NEW x \in PackOps, Rewrite(x), NEW r \in ledger, Mine(x, r),
         NEW t, t = TargetOf(r), t \notin spoilt
  PROVE  InOrder(t)'
<1> USE DEF PInv
<1>1. /\ lock = x /\ lock # NoOp /\ at[x] = "rewriting" /\ Running(x) /\ ~Adds(x) /\ r \in Row
      /\ lock' = NoOp /\ files' = files
  BY NoOpAssumption DEF Rewrite, Release, LockHolds, Running, PackTypeOK
<1>2. t \in Targets /\ Rows(t) = {r} /\ RowHolds(t, r) /\ \A p \in PackOps : ~AddsTo(p, t)
  BY <1>1, OfRow
<1>3. /\ wanted' = wanted
      /\ \A p \in PackOps : p # x => (AddsTo(p, t)' <=> AddsTo(p, t))
  BY OneActs DEF PackStep
<1>4. ~AddsTo(x, t)' /\ InHand(r)
  BY <1>1, <1>3 DEF AddsTo, Adds, InHand
<1>5. PICK s \in ledger : /\ Mine(x, s)
                          /\ ledger' = (ledger \ {s}) \cup (IF wanted[x].kind = "toggle" THEN {Flipped(s)} ELSE {})
  BY AfterRewrite
<1>6. s = r
  BY <1>5 DEF OneRowEach, Mine
<1>7. /\ TargetOf(Flipped(r)) = t /\ Flipped(r).hash = r.hash /\ Flipped(r).enabled = ~r.enabled
  BY <1>1, RowFields
<1>8. Rows(t)' = IF wanted[x].kind = "toggle" THEN {Flipped(r)} ELSE {}
  BY <1>2, <1>5, <1>6, <1>7 DEF Rows
<1>9. \A q \in Rows(t)' : ~InHand(q)'
  BY <1>1 DEF InHand
<1>10. Quiet(t)'
  <2>1. CASE wanted[x].kind = "toggle"
    <3>1. Lies(t, r.hash, ~r.enabled)'
      BY <1>1, <1>2, <1>4, <2>1 DEF RowHolds, Lies, Zip, Dis
    <3> QED BY <1>7, <1>8, <1>9, <2>1, <3>1 DEF Quiet, RowHolds, Lies, Zip, Dis
  <2>2. CASE wanted[x].kind # "toggle"
    <3>1. Lies(t, Absent, TRUE)'
      BY <1>1, <1>2, <1>4, <2>2 DEF RowHolds, Lies, Zip, Dis
    <3> QED BY <1>8, <2>2, <3>1 DEF Quiet
  <2> QED BY <2>1, <2>2
<1>11. \A q, u \in Rows(t)' : q = u
  BY <1>8
<1> QED BY <1>2, <1>3, <1>4, <1>10, <1>11 DEF InOrder

-----------------------------------------------------------------------------
(* What is cut short. *)

\* A pack that those who add it do not spoil when they are cut short has its file,
\* or has neither row nor file.
LEMMA NothingHalfDone ==
  ASSUME PInv, NEW t, t \in Targets, t \notin spoilt, NEW o \in PackOps, AddsTo(o, t),
         \A p \in PackOps : AddsTo(p, t) => ~HalfChanged(p) /\ ~SharesTmp(p)
  PROVE  /\ \A r \in Rows(t) : ~InHand(r) /\ Lies(t, r.hash, r.enabled)
         /\ Rows(t) = {} => Lies(t, Absent, TRUE)
         /\ \A r, s \in Rows(t) : r = s
<1> USE DEF PInv
<1>1. CASE wanted[o].kind = "drop"
  <2>1. /\ DropHolds(o, t) /\ \A r \in Rows(t) : ~InHand(r)
        /\ \A r, s \in Rows(t) : r = s
    BY <1>1, OfDrop
  <2>2. at[o] \in {"asked", "ready"}
    BY <1>1, NoOpAssumption DEF HalfChanged, AddsTo, Running, Adds, LockHolds, StagesFit, PackTypeOK, PackStages
  <2> QED BY <2>1, <2>2 DEF DropHolds, Quiet, RowHolds, Lies
<1>2. CASE wanted[o].kind = "install"
  <2>1. /\ \A p \in PackOps : AddsTo(p, t) =>
             wanted[p] = wanted[o] /\ NewRow(p) = NewRow(o) /\ InstallHolds(p, t)
        /\ \A r \in Rows(t) : ~InHand(r)
        /\ \A r, s \in Rows(t) : r = s
    BY <1>2, OfInstall
  <2>2. ~PlacedAt(t)
    BY DEF PlacedAt, HalfChanged
  <2>3. ASSUME NEW p \in PackOps, AddsTo(p, t), writing[p] = <<t, "zip">> PROVE FALSE
    <3>1. /\ \E q \in PackOps \ {p} : at[q] # "idle" /\ wanted[q] = wanted[p]
          /\ at[p] = "open"
      BY <2>1, <2>3, ThreeNames DEF InstallHolds, DownloadHolds, StagesFit
    <3> QED BY <2>3, <3>1 DEF SharesTmp
  <2>4. ~WrittenAt(t, "zip")
    BY <2>3 DEF WrittenAt
  <2> QED BY <2>1, <2>2, <2>4 DEF InstallHolds, Lies
<1> QED BY <1>1, <1>2 DEF AddsTo, Adds

\* A crash.
LEMMA CrashInOrder ==
  ASSUME PInv, PackCrash, NEW t, t \in Targets, t \notin spoilt'
  PROVE  InOrder(t)'
<1> USE DEF PInv
<1>1. /\ files' = files /\ ledger' = ledger /\ lock' = NoOp /\ wanted' = wanted
      /\ Zip(t)' = Zip(t) /\ Dis(t)' = Dis(t) /\ Rows(t)' = Rows(t)
      /\ \A p \in PackOps : ~AddsTo(p, t)'
  BY DEF PackCrash, Release, Zip, Dis, Rows, AddsTo, Running
<1> DEFINE met == UNION {SpoiltBy(o) : o \in {p \in PackOps : Running(p)}}
<1>2. \A p \in PackOps : Running(p) => SpoiltBy(p) \subseteq met
  OBVIOUS
<1>3. spoilt' = spoilt \cup met
  BY DEF PackCrash
<1> HIDE DEF met
<1>4. \A p \in PackOps : Running(p) /\ t \in Concerns(p) => ~HalfChanged(p) /\ ~SharesTmp(p)
  BY <1>2, <1>3 DEF SpoiltBy
<1>5. \A r \in Rows(t) : ~InHand(r) /\ ~InHand(r)'
  BY <1>1, <1>4, ConcernsAre DEF InHand, Mine, HalfChanged, Running, Rows, PackTypeOK
<1>6. /\ \A r \in Rows(t) : Lies(t, r.hash, r.enabled)
      /\ Rows(t) = {} => Lies(t, Absent, TRUE)
      /\ \A r, s \in Rows(t) : r = s
  <2>1. CASE \E o \in PackOps : AddsTo(o, t)
    BY <1>3, <1>4, <2>1, NothingHalfDone, ConcernsAre DEF AddsTo
  <2>2. CASE \A o \in PackOps : ~AddsTo(o, t)
    BY <1>3, <1>5, <2>2 DEF Unspoilt, InOrder, Quiet, RowHolds
  <2> QED BY <2>1, <2>2
<1>7. Quiet(t)'
  BY <1>1, <1>5, <1>6 DEF Quiet, RowHolds, Lies
<1> QED BY <1>1, <1>6, <1>7 DEF InOrder

\* An operation that adds a pack fails, or is cancelled.
LEMMA CutShortInOrder ==
  ASSUME PInv, NEW x \in PackOps, PackFail(x) \/ Cancel(x), Adds(x), NEW t, t = Goal(x), t \notin spoilt'
  PROVE  InOrder(t)'
<1> USE DEF PInv
<1>1. /\ t \in Targets /\ t \notin spoilt /\ t \in Concerns(x) /\ AddsTo(x, t)
      /\ ~HalfChanged(x) /\ ~SharesTmp(x) /\ at[x] # "placing"
  BY PackRequestFields, ConcernsAre DEF PackFail, Cancel, AddsTo, SpoiltBy, HalfChanged
<1>2. /\ at'[x] = "done" /\ ~AddsTo(x, t)'
      /\ files' = files /\ ledger' = ledger
      /\ Zip(t)' = Zip(t) /\ Dis(t)' = Dis(t) /\ Part(t)' = Part(t) /\ Rows(t)' = Rows(t)
      /\ \A p \in PackOps : p # x => writing'[p] = writing[p]
  BY <1>1 DEF PackFail, Cancel, PackTypeOK, AddsTo, Running, Zip, Dis, Part, Rows
<1>3. /\ wanted' = wanted
      /\ \A p \in PackOps : p # x => at'[p] = at[p] /\ (AddsTo(p, t)' <=> AddsTo(p, t))
      /\ \A p \in PackOps : NewRow(p)' = NewRow(p)
  BY OneActs
<1>4. CASE \E o \in PackOps : o # x /\ AddsTo(o, t)
  <2>1. PICK o \in PackOps : o # x /\ AddsTo(o, t)
    BY <1>4
  <2>2. wanted[o] = wanted[x] /\ wanted[x].kind = "install"
    BY <1>1, <2>1, Company
  <2>3. /\ \A p \in PackOps : AddsTo(p, t) =>
             wanted[p] = wanted[x] /\ NewRow(p) = NewRow(x) /\ InstallHolds(p, t) /\ DownloadHolds(p, t)
        /\ \A r, s \in Rows(t) : r = s
    BY <1>1, <2>2, OfInstall DEF InstallHolds
  <2>4. at[x] # "open"
    BY <1>1, <2>1, <2>2 DEF SharesTmp, AddsTo, Running
  <2>5. writing[x] = Nowhere
    BY <2>4 DEF StagesFit
  <2>6. /\ \A form : WrittenAt(t, form) /\ form \in Forms => WrittenAt(t, form)'
        /\ PlacedAt(t) => PlacedAt(t)'
    BY <1>1, <1>2, <1>3, <2>5, NowhereIsNoPath, ThreeNames DEF WrittenAt, PlacedAt, Forms
  <2>7. ASSUME NEW p \in PackOps, AddsTo(p, t)' PROVE InstallHolds(p, t)' /\ wanted[p].kind = "install"
    <3>1. p # x /\ AddsTo(p, t) /\ InstallHolds(p, t) /\ DownloadHolds(p, t) /\ wanted[p].kind = "install"
      BY <1>2, <1>3, <2>2, <2>3, <2>7
    <3>2. \A q \in PackOps : at[q] # "idle" => at'[q] # "idle"
      BY <1>2, <1>3
    <3>3. DownloadHolds(p, t)'
      BY <1>2, <1>3, <2>6, <3>1, <3>2 DEF DownloadHolds, Forms
    <3> QED BY <1>2, <1>3, <2>6, <3>1, <3>3 DEF InstallHolds, Forms
  <2>8. AddsTo(o, t)'
    BY <1>3, <2>1
  <2> QED BY <1>2, <1>3, <2>3, <2>7, <2>8 DEF InOrder
<1>5. CASE \A o \in PackOps : o # x => ~AddsTo(o, t)
  <2>1. /\ \A r \in Rows(t) : ~InHand(r) /\ Lies(t, r.hash, r.enabled)
        /\ Rows(t) = {} => Lies(t, Absent, TRUE)
        /\ \A r, s \in Rows(t) : r = s
    BY <1>1, <1>5, NothingHalfDone
  <2>2. \A r \in Rows(t) : ~InHand(r)'
    BY <1>2, <1>3, <2>1, NoOpAssumption DEF InHand, Mine, PackFail, Cancel, Release, LockHolds, PackTypeOK
  <2>3. Quiet(t)'
    BY <1>2, <2>1, <2>2 DEF Quiet, RowHolds, Lies
  <2> QED BY <1>2, <1>3, <1>5, <2>1, <2>3 DEF InOrder
<1> QED BY <1>4, <1>5

-----------------------------------------------------------------------------
(* The invariant, and what it says of rows and files. *)

LEMMA UnspoiltStep ==
  ASSUME PInv, [PackNext]_packVars
  PROVE  Unspoilt'
<1> USE DEF PInv
<1> SUFFICES ASSUME NEW t, t \in Targets, t \notin spoilt' PROVE InOrder(t)'
  BY DEF Unspoilt, Targets
<1>1. t \notin spoilt
  BY SpoiltGrows
<1>2. ASSUME NEW x \in PackOps, PackStep(x) \/ PackFail(x) \/ Cancel(x) PROVE InOrder(t)'
  <2>1. CASE /\ Adds(x) => t # Goal(x)
             /\ at[x] \in {"moving", "rewriting"} => \A r \in ledger : Mine(x, r) => TargetOf(r) # t
    BY <1>1, <1>2, <2>1, Untouched
  <2>2. CASE Adds(x) /\ t = Goal(x)
    <3>1. wanted[x].kind \in {"drop", "install"}
      BY <2>2 DEF Adds
    <3>2. CASE Begin(x)
      BY <2>2, <3>2, BeginInOrder
    <3>3. CASE Prepare(x)
      BY <1>1, <2>2, <3>1, <3>3, DropInOrder, PrepareInOrder
    <3>4. CASE OpenPack(x)
      BY <1>1, <2>2, <3>1, <3>4, DropInOrder, OpenInOrder
    <3>5. CASE WriteBytes(x)
      BY <1>1, <2>2, <3>1, <3>5, DropInOrder, WriteInOrder
    <3>6. CASE Upsert(x)
      BY <1>1, <2>2, <3>1, <3>6, DropInOrder, UpsertInOrder
    <3>7. CASE Place(x)
      BY <1>1, <2>2, <3>7, PlaceInOrder
    <3>8. CASE PackFail(x) \/ Cancel(x)
      BY <2>2, <3>8, CutShortInOrder
    <3>9. ~Start(x) /\ ~MoveFile(x) /\ ~RemoveFile(x) /\ ~Rewrite(x)
      BY <2>2, NoOpAssumption DEF Start, MoveFile, RemoveFile, Rewrite, LockHolds
    <3> QED BY <1>2, <3>2, <3>3, <3>4, <3>5, <3>6, <3>7, <3>8, <3>9 DEF PackStep
  <2>3. ASSUME at[x] \in {"moving", "rewriting"}, NEW r \in ledger, Mine(x, r), TargetOf(r) = t
        PROVE  InOrder(t)'
    <3>1. CASE MoveFile(x) \/ RemoveFile(x)
      BY <1>1, <2>3, <3>1, MoveInOrder
    <3>2. CASE Rewrite(x)
      BY <1>1, <2>3, <3>2, RewriteInOrder
    <3>3. CASE PackFail(x)
      <4>1. t \in Concerns(x) /\ ~Adds(x) /\ lock = x
        BY <2>3, NoOpAssumption, ConcernsAre DEF Mine, LockHolds
      <4>2. ~HalfChanged(x)
        BY <3>3, <4>1 DEF PackFail, SpoiltBy
      <4>3. at[x] = "moving"
        BY <2>3, <4>2 DEF HalfChanged
      <4>4. /\ wanted' = wanted /\ files' = files /\ ledger' = ledger /\ lock' = NoOp
            /\ \A p \in PackOps : p # x => at'[p] = at[p] /\ writing'[p] = writing[p]
        BY <3>3, <4>1, <4>3, OneActs DEF PackFail, Release, PackTypeOK
      <4>5. \A s \in Rows(t) : RowHolds(t, s) => RowHolds(t, s)'
        BY <4>1, <4>3, <4>4 DEF RowHolds, InHand, Lies, Zip, Dis
      <4>6. InOrder(t) /\ Rows(t)' = Rows(t) /\ Zip(t)' = Zip(t) /\ Dis(t)' = Dis(t) /\ Part(t)' = Part(t)
        BY <1>1, <4>4 DEF Unspoilt, Rows, Zip, Dis, Part
      <4>7. \A p \in PackOps : Adds(p) /\ Goal(p) = t => at'[p] = at[p] /\ writing'[p] = writing[p]
        BY <4>1, <4>4
      <4> QED BY <4>4, <4>5, <4>6, <4>7, Elsewhere
    <3>4. ~Begin(x) /\ ~Prepare(x) /\ ~OpenPack(x) /\ ~WriteBytes(x) /\ ~Upsert(x) /\ ~Place(x) /\ ~Start(x)
          /\ ~Cancel(x)
      BY <2>3, NoOpAssumption DEF Begin, Prepare, OpenPack, WriteBytes, Upsert, Place, Start, Cancel, LockHolds, Adds
    <3> QED BY <1>2, <3>1, <3>2, <3>3, <3>4 DEF PackStep
  <2> QED BY <2>1, <2>2, <2>3
<1>3. CASE PackCrash
  BY <1>3, CrashInOrder
<1>4. CASE UNCHANGED packVars
  <2>1. InOrder(t)
    BY <1>1 DEF Unspoilt
  <2>2. /\ wanted' = wanted /\ Rows(t)' = Rows(t) /\ Zip(t)' = Zip(t) /\ Dis(t)' = Dis(t) /\ Part(t)' = Part(t)
        /\ \A p \in PackOps : at'[p] = at[p] /\ writing'[p] = writing[p]
        /\ \A r \in Rows(t) : RowHolds(t, r) => RowHolds(t, r)'
    BY <1>4 DEF packVars, Rows, Zip, Dis, Part, RowHolds, InHand, Mine, Lies
  <2> QED BY <2>1, <2>2, Elsewhere
<1> QED BY <1>2, <1>3, <1>4 DEF PackNext

LEMMA PInvHolds == PackSpec => []PInv
<1>1. PInv /\ [PackNext]_packVars => PInv'
  BY PackTypes, LockStep, StagesStep, RowsStep, OverlapsStep, DisplacementsStep, UnspoiltStep DEF PInv
<1> QED BY <1>1, PackInitPInv, PTL DEF PackSpec

\* The variables of the packs have their types.
THEOREM PackTypeCorrect == PackSpec => []PackTypeOK
<1>1. PInv => PackTypeOK
  BY DEF PInv
<1> QED BY <1>1, PInvHolds, PTL

\* A pack that nothing has spoilt, and about which nothing is under way, has the
\* rows and the files that go with each other.
LEMMA SoundIsQuiet ==
  ASSUME PInv, NEW t \in Targets, Sound(t)
  PROVE  /\ \A r \in Rows(t) : Lies(t, r.hash, r.enabled)
         /\ Rows(t) = {} => Lies(t, Absent, TRUE)
<1> USE DEF PInv
<1>1. t \notin spoilt /\ \A o \in PackOps : Running(o) => t \notin Concerns(o)
  BY DEF Sound, InUse
<1>2. \A o \in PackOps : ~AddsTo(o, t)
  BY <1>1, ConcernsAre DEF AddsTo
<1>3. Quiet(t)
  BY <1>1, <1>2 DEF Unspoilt, InOrder
<1>4. \A r \in Rows(t) : ~InHand(r)
  BY <1>1, ConcernsAre DEF InHand, Mine, Rows, Running, PackTypeOK
<1> QED BY <1>3, <1>4 DEF Quiet, RowHolds

\* A row of the ledger that nothing has spoilt names a file that is there with its
\* content (install_pack_as of packs/service.rs, toggle_pack_enabled, drop_pack of
\* packs/install.rs): also when the same file was downloaded twice at a time.
THEOREM RowsHaveTheirFileHolds == PackSpec => []RowsHaveTheirFile
<1>1. PInv => RowsHaveTheirFile
  <2> SUFFICES ASSUME PInv, NEW r \in ledger, Sound(TargetOf(r)) PROVE files[FileOf(r)] = r.hash
    BY DEF RowsHaveTheirFile
  <2>1. r \in Row /\ TargetOf(r) \in Targets /\ r \in Rows(TargetOf(r))
    BY RowFields DEF PInv, PackTypeOK, Rows
  <2>2. Lies(TargetOf(r), r.hash, r.enabled)
    BY <2>1, SoundIsQuiet
  <2> QED BY <2>1, <2>2, RowFields DEF Lies, Zip, Dis
<1> QED BY <1>1, PInvHolds, PTL

\* A file in a pack directory that nothing has spoilt is the file of a row: what
\* is uninstalled is gone, what is turned off is there once (uninstall_pack,
\* toggle_pack_enabled of packs/service.rs).
THEOREM FilesHaveTheirRowHolds == PackSpec => []FilesHaveTheirRow
<1>1. PInv => FilesHaveTheirRow
  <2> SUFFICES ASSUME PInv, NEW t \in Targets, NEW form \in {"zip", "disabled"}, Sound(t),
                      files[<<t, form>>] # Absent
               PROVE  \E r \in ledger : FileOf(r) = <<t, form>>
    BY DEF FilesHaveTheirRow
  <2>1. PICK r \in Rows(t) : Lies(t, r.hash, r.enabled)
    BY SoundIsQuiet DEF Lies, Zip, Dis
  <2>2. r \in ledger /\ TargetOf(r) = t /\ r \in Row
    BY DEF Rows, PInv, PackTypeOK
  <2>3. FileOf(r) = <<t, form>>
    BY <2>1, <2>2, RowFields DEF Lies, Zip, Dis
  <2> QED BY <2>2, <2>3
<1> QED BY <1>1, PInvHolds, PTL
===============================================================================
