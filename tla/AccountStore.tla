----------------------------- MODULE AccountStore -----------------------------
(***************************************************************************)
(* The Microsoft accounts on disk: the list (accounts.json) and the        *)
(* refresh tokens, which are kept in the keyring of the system or, when a  *)
(* call to the keyring fails, in an encrypted file (auth/store.rs).  Three *)
(* keys and every launch change them (auth/service.rs): a login, a         *)
(* removal, an activation, and the refresh of the token before a game.     *)
(*                                                                         *)
(* Each file is read, changed and replaced as a whole, and nothing keeps   *)
(* two operations apart.  Which tier a call uses is decided by that call.  *)
(* A token bears the name of the operation it was issued to.  A file is    *)
(* taken to be replaced in one step; two writers that meet in the          *)
(* temporary file are the subject of InstanceStore.                        *)
(***************************************************************************)

CONSTANTS Ids,        \* account ids
          Present,    \* the accounts there are at first
          Ops,        \* the operations of one behaviour
          Requests,   \* what an operation may be asked to do
          Mishaps,    \* which of "keyring", "cut", "crash" may happen
          None        \* no token

Request == [kind : {"add", "remove", "activate", "refresh"}, id : Ids]
Tokens == Ops \cup Ids   \* an account that is there at first has the token of its name

ASSUME PresentAssumption == Present \subseteq Ids
ASSUME RequestsAssumption == Requests \subseteq Request
ASSUME NoneAssumption == None \notin Tokens /\ Ops \cap Ids = {}

VARIABLES
  req,       \* what each operation is asked to do
  pc,        \* how far it has got
  got,       \* the refresh token it holds
  seenList,  \* the list it has read
  seenEnc,   \* the encrypted file it has read
  list,      \* accounts.json: is an account there, and is it the active one?
  keyring,   \* the token of an account in the keyring
  enc,       \* the token of an account in the encrypted file
  newest,    \* (of the model) the token issued last for an account
  torn,      \* (of the model) accounts whose entry and token may not agree
  stale      \* (of the model) accounts whose newest token may not be the one found

vars == <<req, pc, got, seenList, seenEnc, list, keyring, enc, newest, torn, stale>>

Stages == {"start", "chain", "store", "encread", "encwrite", "load", "save", "done"}
List == [Ids -> {"absent", "idle", "active"}]
Store == [Ids -> Tokens \cup {None}]

Kind(o) == req[o].kind
Id(o) == req[o].id
InFlight(o) == pc[o] \notin {"start", "done"}
Busy(id) == \E o \in Ops : InFlight(o) /\ Id(o) = id
Listed(accounts) == {id \in Ids : accounts[id] # "absent"}

\* What a call that finds the keyring working reads.
Found(id) == IF keyring[id] # None THEN keyring[id] ELSE enc[id]

Init ==
  /\ req \in [Ops -> Requests]
  /\ pc = [o \in Ops |-> "start"]
  /\ got = [o \in Ops |-> None]
  /\ seenList = [o \in Ops |-> [id \in Ids |-> "absent"]]
  /\ seenEnc = [o \in Ops |-> [id \in Ids |-> None]]
  /\ \E active \in SUBSET Present :
       /\ \A a, b \in active : a = b
       /\ list = [id \in Ids |-> IF id \in active THEN "active"
                                 ELSE IF id \in Present THEN "idle" ELSE "absent"]
  /\ \E inKeyring \in SUBSET Present :
       /\ keyring = [id \in Ids |-> IF id \in inKeyring THEN id ELSE None]
       /\ enc = [id \in Ids |-> IF id \in Present \ inKeyring THEN id ELSE None]
  /\ newest = [id \in Ids |-> IF id \in Present THEN id ELSE None]
  /\ torn = {} /\ stale = {}

Go(o, from, to) == pc[o] = from /\ pc' = [pc EXCEPT ![o] = to]

\* Operations that overlap may undo each other's changes, whatever accounts they
\* are about, for the files are shared: the accounts of o and of those it meets.
Meets(o) ==
  LET met == {Id(p) : p \in {q \in Ops \ {o} : InFlight(q)}}
  IN  IF met = {} THEN {} ELSE met \cup {Id(o)}
Enter(o) == torn' = torn \cup Meets(o) /\ stale' = stale \cup Meets(o)

-----------------------------------------------------------------------------
(* Getting a token. *)

Issue(o) ==
  /\ got' = [got EXCEPT ![o] = o]
  /\ newest' = [newest EXCEPT ![Id(o)] = o]
  /\ UNCHANGED <<req, seenList, seenEnc, list, keyring, enc>>

\* A login: device code, polling and the chain of services, which touch no file.
Login(o) == Kind(o) = "add" /\ Go(o, "start", "store") /\ Issue(o) /\ Enter(o)

\* What load_refresh_token may find: the encrypted file is asked when the
\* keyring has no entry, or fails.
Readings(id) == {Found(id)} \cup (IF "keyring" \in Mishaps THEN {enc[id]} ELSE {})

Take(o, token) ==
  /\ Kind(o) = "refresh"
  /\ Go(o, "start", "chain")
  /\ got' = [got EXCEPT ![o] = token]
  /\ Enter(o)
  /\ UNCHANGED <<req, seenList, seenEnc, list, keyring, enc, newest>>

\* A launch reads the token of its account.
LoadToken(o) == \E token \in Readings(Id(o)) \ {None} : Take(o, token)

\* Plausible bug: the rotated token is not stored.
RefreshForgotten(o) == Go(o, "chain", "load") /\ Issue(o) /\ UNCHANGED <<torn, stale>>

\* ensure_valid_mc_token: the old token is exchanged for a new one.
Refresh(o) == Go(o, "chain", "store") /\ Issue(o) /\ UNCHANGED <<torn, stale>>

\* AccountNotFound: no token to refresh, or no account to activate.
NotFound(o) ==
  /\ \/ Kind(o) = "refresh" /\ None \in Readings(Id(o))
     \/ Kind(o) = "activate" /\ Id(o) \notin Listed(list)
  /\ Go(o, "start", "done")
  /\ UNCHANGED <<req, got, seenList, seenEnc, list, keyring, enc, newest, torn, stale>>

-----------------------------------------------------------------------------
(* The two tiers of tokens. *)

\* store_refresh_token, when the keyring takes it; an entry of the file stays.
StoreInKeyring(o) ==
  /\ Go(o, "store", "load")
  /\ keyring' = [keyring EXCEPT ![Id(o)] = got[o]]
  /\ UNCHANGED <<req, got, seenList, seenEnc, list, enc, newest, torn, stale>>

\* When the keyring fails: the encrypted file is read, to be written.  What the
\* keyring already has is found before what the file will have.
FallBack(o) ==
  /\ "keyring" \in Mishaps
  /\ Go(o, "store", "encwrite")
  /\ seenEnc' = [seenEnc EXCEPT ![o] = enc]
  /\ stale' = stale \cup {id \in {Id(o)} : keyring[id] # None}
  /\ UNCHANGED <<req, got, seenList, list, keyring, enc, newest, torn>>

\* delete_refresh_token ignores an error of the keyring.
DeleteFromKeyring(o) ==
  \E left \in {None} \cup (IF "keyring" \in Mishaps THEN {keyring[Id(o)]} ELSE {}) :
    /\ Kind(o) = "remove"
    /\ Go(o, "start", "encread")
    /\ keyring' = [keyring EXCEPT ![Id(o)] = left]
    /\ torn' = torn \cup Meets(o) \cup {id \in {Id(o)} : left # None}
    /\ stale' = stale \cup Meets(o)
    /\ UNCHANGED <<req, got, seenList, seenEnc, list, enc, newest>>

\* Plausible bug: the encrypted file is left alone.
ReadEncNever(o) ==
  /\ Go(o, "encread", "load")
  /\ UNCHANGED <<req, got, seenList, seenEnc, list, keyring, enc, newest, torn, stale>>

ReadEnc(o) ==
  /\ Go(o, "encread", IF enc[Id(o)] = None THEN "load" ELSE "encwrite")
  /\ seenEnc' = [seenEnc EXCEPT ![o] = enc]
  /\ UNCHANGED <<req, got, seenList, list, keyring, enc, newest, torn, stale>>

\* The whole file is written; a removal holds no token.
WriteEnc(o) ==
  /\ Go(o, "encwrite", "load")
  /\ enc' = [seenEnc[o] EXCEPT ![Id(o)] = got[o]]
  /\ UNCHANGED <<req, got, seenList, seenEnc, list, keyring, newest, torn, stale>>

-----------------------------------------------------------------------------
(* The list. *)

LoadList(o) ==
  /\ \/ Go(o, "load", "save") /\ UNCHANGED <<torn, stale>>
     \/ /\ Kind(o) = "activate" /\ Id(o) \in Listed(list)
        /\ Go(o, "start", "save") /\ Enter(o)
  /\ seenList' = [seenList EXCEPT ![o] = list]
  /\ UNCHANGED <<req, got, seenEnc, list, keyring, enc, newest>>

\* What becomes of the account of an operation: the first one added is active at
\* once, a login of one that is listed leaves it as it was, and so does a refresh.
Own(o, accounts) ==
  IF Kind(o) = "remove" THEN "absent"
  ELSE IF Kind(o) = "activate" \/ (Kind(o) = "add" /\ Listed(accounts) = {}) THEN "active"
  ELSE IF Kind(o) = "add" /\ Id(o) \notin Listed(accounts) THEN "idle"
  ELSE accounts[Id(o)]

\* Plausible bug: the account that was active stays so.
EffectKeeping(o, accounts) == [accounts EXCEPT ![Id(o)] = Own(o, accounts)]

\* What an operation makes of the list: an activation takes its place.
Effect(o, accounts) ==
  [id \in Ids |-> IF id = Id(o) THEN Own(o, accounts)
                  ELSE IF Kind(o) = "activate" /\ accounts[id] = "active" THEN "idle"
                  ELSE accounts[id]]

SaveList(o) ==
  /\ Go(o, "save", "done")
  /\ list' = Effect(o, seenList[o])
  /\ UNCHANGED <<req, got, seenList, seenEnc, keyring, enc, newest, torn, stale>>

-----------------------------------------------------------------------------
(* What cuts operations short. *)

\* Operations that have changed the entry or the token of their account only,
\* and those that have a new token and have not stored it.
HalfDone(o) ==
  \/ Kind(o) = "add" /\ pc[o] \in {"load", "save"}
  \/ Kind(o) = "remove" /\ pc[o] \in {"encread", "encwrite", "load", "save"}
Unstored(o) == Kind(o) # "remove" /\ pc[o] \in {"store", "encwrite"}

CutShort(cut) ==
  /\ pc' = [o \in Ops |-> IF o \in cut THEN "done" ELSE pc[o]]
  /\ torn' = torn \cup {Id(o) : o \in {p \in cut : HalfDone(p)}}
  /\ stale' = stale \cup {Id(o) : o \in {p \in cut : Unstored(p)}}
  /\ UNCHANGED <<req, got, seenList, seenEnc, list, keyring, enc, newest>>

\* A step fails, or the launch is stopped; a call that is under way then is
\* carried out all the same, which is the step followed by this one.
Fail(o) == "cut" \in Mishaps /\ InFlight(o) /\ CutShort({o})

\* The process ends; operations that have not begun are those of the next one.
Crash ==
  LET cut == {o \in Ops : InFlight(o)} IN
  "crash" \in Mishaps /\ cut # {} /\ CutShort(cut)

Step(o) ==
  \/ Login(o) \/ LoadToken(o) \/ Refresh(o) \/ NotFound(o)
  \/ StoreInKeyring(o) \/ FallBack(o) \/ DeleteFromKeyring(o) \/ ReadEnc(o) \/ WriteEnc(o)
  \/ LoadList(o) \/ SaveList(o) \/ Fail(o)

Next == Crash \/ \E o \in Ops : Step(o)

Spec == Init /\ [][Next]_vars

-----------------------------------------------------------------------------
(* Properties. *)

\* Types; only an operation that has a token refreshes it or stores it.
TypeOK ==
  /\ req \in [Ops -> Requests]
  /\ pc \in [Ops -> Stages]
  /\ got \in [Ops -> Tokens \cup {None}]
  /\ seenList \in [Ops -> List] /\ seenEnc \in [Ops -> Store]
  /\ list \in List /\ keyring \in Store /\ enc \in Store /\ newest \in Store
  /\ torn \subseteq Ids /\ stale \subseteq Ids
  /\ \A o \in Ops : pc[o] \in {"chain", "store"} => got[o] # None

\* At most one account is active, whatever overlaps and whatever is cut short:
\* a launch has no choice to make (auth/service.rs:248, tui/app.rs:1802).
OneActive == \A a, b \in Ids : list[a] = "active" /\ list[b] = "active" => a = b

\* A listed account has a token to refresh and one that is not listed has left
\* none behind, in either tier, unless it is torn: two operations overlapped, one
\* was cut between its two changes, or the keyring failed to delete.
EntryAndTokenAgree ==
  \A id \in Ids \ torn :
    ~Busy(id) => (id \in Listed(list) <=> keyring[id] # None \/ enc[id] # None)

\* What a launch finds is the token that was issued last, although there are two
\* places to find one, unless it is stale: operations overlapped, the new token
\* was never stored, or it went to the file while the keyring had an older one.
NewestFound ==
  \A id \in Listed(list) \ (torn \cup stale) : ~Busy(id) => Found(id) = newest[id]
=============================================================================
