------------------------- MODULE InstalledListsProofs -------------------------
(***************************************************************************)
(* What InstalledLists promises, for any lists, items and number of tasks. *)
(***************************************************************************)
EXTENDS InstalledLists, TLAPS

-----------------------------------------------------------------------------
(* The inductive invariant. *)

(* A task whose end brings the rows of list l anew, or is told for what it is. *)
Refreshes(j, l) ==
  /\ j # None /\ j.list = l
  /\ j.op \in {"fetch", "install"} \/ (j.op = "drop" /\ j.stage = "done")

(* A task that has removed, or turned, item i of list l and has not told. *)
Leaves(j, l, i) ==
  j # None /\ j.op = "uninstall" /\ j.stage = "done" /\ j.list = l /\ j.item = i
Turns(j, l, i) ==
  j # None /\ j.op = "toggle" /\ j.stage = "done" /\ j.list = l /\ j.item = i

Refreshing(l) == \E s \in Slots : Refreshes(task[s], l)
Leaving(l, i) == \E s \in Slots : Leaves(task[s], l, i)
Turning(l, i) == \E s \in Slots : Turns(task[s], l, i)
There(l, i) == ledger[l][i] # "absent"

(* Where the interface differs from the ledger, a task under way accounts for it. *)
RowsExplained(l) ==
  Listing(l) => \/ Refreshing(l)
                \/ \A i \in Items : \/ rows[i] = ledger[l][i] \/ Leaving(l, i)
                                    \/ (rows[i] # "absent" /\ Turning(l, i))
SetExplained(l) ==
  \/ Refreshing(l)
  \/ \A i \in Items : /\ i \in installed[l] => There(l, i) \/ Leaving(l, i)
                      /\ There(l, i) => i \in installed[l]
MarksExplained(l) ==
  Browsing(l) /\ hits =>
    /\ \A i \in marked : There(l, i) \/ Leaving(l, i)
    /\ Refreshing(l) \/ \A i \in Items : There(l, i) => i \in marked
ExplainedAt(l) == l \notin behind => RowsExplained(l) /\ SetExplained(l) /\ MarksExplained(l)
Explained == \A l \in Lists : ExplainedAt(l)

(* A task that is going to change the ledger, and what it names. *)
Changing(j) ==
  /\ j # None
  /\ j.op \in {"toggle", "uninstall", "install", "drop"}
  /\ j.stage \in {"asked", "begun", "checked"}
Aimed ==
  \A s \in Slots :
    task[s] # None /\ task[s].op \in {"toggle", "uninstall", "install", "drop"} =>
      task[s].item \in Items /\ (task[s].op = "toggle" => task[s].want # "absent")
RivalsCrossed ==
  \A s, r \in Slots :
    (/\ s # r /\ Changing(task[s]) /\ Changing(task[r]) /\ task[s].list = task[r].list
     /\ Touches(task[s]) \cap Touches(task[r]) # {}) => task[s].crossed
CheckedFits(s) ==
  Is(s, "toggle", "checked") /\ ~task[s].crossed =>
    ledger[task[s].list][task[s].item] \in {"absent", Flip(task[s].want)}
CheckedTurns == \A s \in Slots : CheckedFits(s)
TasksInv == Aimed /\ RivalsCrossed /\ CheckedTurns

-----------------------------------------------------------------------------
(* What a step does to the tasks. *)

USE ListsAssumption DEF ListsAssumption

MaybeTask == Task \cup {None}

(* Nothing but new questions to the ledger. *)
Asking ==
  /\ task' \in [Slots -> MaybeTask]
  /\ \A r \in Slots :
       \/ task'[r] = task[r]
       \/ /\ task[r] = None /\ task'[r] # None
          /\ task'[r].op \in {"fetch", "search"} /\ task'[r].stage = "asked"

(* A new task that changes item i of list l, in slot s; its rivals are crossed. *)
Beginning(s) ==
  /\ task[s] = None
  /\ task' \in [Slots -> MaybeTask]
  /\ task'[s] # None /\ task'[s].stage = "asked" /\ task'[s].item \in Items
  /\ task'[s].op = "toggle" => task'[s].want # "absent"
  /\ task'[s].crossed = (Rivals(task'[s]) # {})
  /\ \A r \in Slots \ {s} :
       \/ /\ task[r] # None /\ task'[r] # None /\ r \in Rivals(task'[s])
          /\ task'[r].crossed
          /\ task'[r].op = task[r].op /\ task'[r].list = task[r].list
          /\ task'[r].item = task[r].item /\ task'[r].want = task[r].want
          /\ task'[r].left = task[r].left /\ task'[r].stage = task[r].stage
       \/ task'[r] = task[r] /\ r \notin Rivals(task'[s])
       \/ /\ task[r] = None /\ task'[r] # None /\ task'[r].op = "fetch"

(* The task of slot s goes on, or is over, or becomes a question; one more question
   may be asked in another slot. *)
GoingOn(s) ==
  /\ task[s] # None
  /\ task' \in [Slots -> MaybeTask]
  /\ \/ task'[s] = None
     \/ /\ task'[s] # None /\ task'[s].op = "fetch" /\ task'[s].stage = "asked"
     \/ /\ task'[s] # None
        /\ task'[s].op = task[s].op /\ task'[s].list = task[s].list
        /\ task'[s].item = task[s].item /\ task'[s].crossed = task[s].crossed
        /\ task'[s].left \subseteq task[s].left
        /\ task'[s].op = "toggle" => task'[s].want # "absent"
        /\ Changing(task'[s]) => Changing(task[s])
  /\ \A r \in Slots \ {s} :
       \/ task'[r] = task[r]
       \/ task[r] = None /\ task'[r] # None /\ task'[r].op = "search" /\ task'[r].stage = "asked"

(* What each slot stands for, for list l, is kept. *)
KeepsRefreshing(l) == \A r \in Slots : Refreshes(task[r], l) => Refreshes(task'[r], l)
KeepsLeaving(l) == \A r \in Slots, i \in Items : Leaves(task[r], l, i) => Leaves(task'[r], l, i)
KeepsTurning(l) == \A r \in Slots, i \in Items : Turns(task[r], l, i) => Turns(task'[r], l, i)
Keeps(l) == KeepsRefreshing(l) /\ KeepsLeaving(l) /\ KeepsTurning(l)

(* The tasks of an invariant state stay such, whatever is asked. *)
LEMMA AskingKeeps ==
  ASSUME TypeOK, TasksInv, Asking, UNCHANGED ledger
  PROVE TasksInv' /\ \A l \in Lists : Keeps(l)
<1> USE DEF Asking
<1>1. Aimed'
  BY DEF TasksInv, Aimed
<1>2. \A r \in Slots : Changing(task'[r]) => task'[r] = task[r]
  BY DEF Changing
<1>3. RivalsCrossed'
  <2> SUFFICES ASSUME NEW s \in Slots, NEW r \in Slots, s # r, Changing(task'[s]),
                      Changing(task'[r]), task'[s].list = task'[r].list,
                      Touches(task'[s]) \cap Touches(task'[r]) # {}
               PROVE task'[s].crossed
    BY DEF RivalsCrossed, Changing, Touches
  <2>1. task'[s] = task[s] /\ task'[r] = task[r]
    BY <1>2
  <2> QED BY <2>1 DEF TasksInv, RivalsCrossed
<1>4. CheckedTurns'
  <2> SUFFICES ASSUME NEW s \in Slots PROVE CheckedFits(s)'
    BY DEF CheckedTurns
  <2>1. CASE task'[s] = task[s]
    BY <2>1 DEF TasksInv, CheckedTurns, CheckedFits, Is
  <2>2. CASE task'[s] # task[s]
    BY <2>2 DEF CheckedFits, Is
  <2> QED BY <2>1, <2>2
<1>5. ASSUME NEW l \in Lists PROVE Keeps(l)
  BY DEF Keeps, KeepsRefreshing, KeepsLeaving, KeepsTurning, Refreshes, Leaves, Turns
<1> QED BY <1>1, <1>3, <1>4, <1>5 DEF TasksInv

LEMMA BeginningKeeps ==
  ASSUME TypeOK, TasksInv, NEW s \in Slots, Beginning(s), UNCHANGED ledger
  PROVE TasksInv' /\ \A l \in Lists : Keeps(l)
<1> USE DEF Beginning
<1>1. Aimed'
  <2> SUFFICES ASSUME NEW r \in Slots, task'[r] # None,
                      task'[r].op \in {"toggle", "uninstall", "install", "drop"}
               PROVE task'[r].item \in Items /\ (task'[r].op = "toggle" => task'[r].want # "absent")
    BY DEF Aimed
  <2>1. CASE r = s
    BY <2>1
  <2>2. CASE r # s
    BY <2>2 DEF TasksInv, Aimed
  <2> QED BY <2>1, <2>2
<1>2. ASSUME NEW r \in Slots \ {s}, Changing(task'[r])
      PROVE /\ Changing(task[r]) /\ task'[r].list = task[r].list
            /\ Touches(task'[r]) = Touches(task[r])
            /\ (task[r].crossed => task'[r].crossed)
            /\ (r \in Rivals(task'[s]) => task'[r].crossed)
  BY <1>2 DEF Changing, Touches
<1>3. RivalsCrossed'
  <2> SUFFICES ASSUME NEW q \in Slots, NEW r \in Slots, q # r, Changing(task'[q]),
                      Changing(task'[r]), task'[q].list = task'[r].list,
                      Touches(task'[q]) \cap Touches(task'[r]) # {}
               PROVE task'[q].crossed
    BY DEF RivalsCrossed, Changing, Touches
  <2>1. CASE q # s /\ r # s
    BY <2>1, <1>2 DEF TasksInv, RivalsCrossed
  <2>2. CASE q = s
    <3>1. r \in Rivals(task'[s])
      BY <2>2, <1>2 DEF Rivals, Changing
    <3> QED BY <3>1, <2>2
  <2>3. CASE r = s
    <3>1. q \in Rivals(task'[s])
      BY <2>3, <1>2 DEF Rivals, Changing
    <3> QED BY <3>1, <2>3, <1>2
  <2> QED BY <2>1, <2>2, <2>3
<1>4. CheckedTurns'
  <2> SUFFICES ASSUME NEW r \in Slots, Is(r, "toggle", "checked")', ~task'[r].crossed
               PROVE CheckedFits(r)'
    BY DEF CheckedTurns, CheckedFits
  <2>1. r # s
    BY DEF Is
  <2>2. task'[r] = task[r]
    BY <2>1 DEF Is
  <2> QED BY <2>2 DEF TasksInv, CheckedTurns, CheckedFits, Is
<1>5. ASSUME NEW l \in Lists PROVE Keeps(l)
  BY DEF Keeps, KeepsRefreshing, KeepsLeaving, KeepsTurning, Refreshes, Leaves, Turns
<1> QED BY <1>1, <1>3, <1>4, <1>5 DEF TasksInv

(* A task that goes on may have changed an item it names, and has then nothing to turn. *)
Changed(s) ==
  \E i \in Items :
    /\ Changing(task[s]) /\ i \in Touches(task[s]) /\ task[s].list \in Lists
    /\ ~(task'[s] # None /\ task'[s].op = "toggle" /\ task'[s].stage = "checked")
    /\ \E row \in Row : SetRow(task[s].list, i, row)

LEMMA GoingOnKeeps ==
  ASSUME TypeOK, TasksInv, NEW s \in Slots, GoingOn(s),
         UNCHANGED ledger \/ Changed(s),
         CheckedFits(s)'
  PROVE TasksInv'
<1> USE DEF GoingOn
<1>1. Aimed'
  <2> SUFFICES ASSUME NEW r \in Slots, task'[r] # None,
                      task'[r].op \in {"toggle", "uninstall", "install", "drop"}
               PROVE task'[r].item \in Items /\ (task'[r].op = "toggle" => task'[r].want # "absent")
    BY DEF Aimed
  <2>1. CASE r = s
    BY <2>1 DEF TasksInv, Aimed
  <2>2. CASE r # s
    BY <2>2 DEF TasksInv, Aimed
  <2> QED BY <2>1, <2>2
<1>2. ASSUME NEW r \in Slots, Changing(task'[r])
      PROVE /\ Changing(task[r]) /\ task'[r].list = task[r].list
            /\ Touches(task'[r]) \subseteq Touches(task[r])
            /\ task'[r].crossed = task[r].crossed
  BY <1>2 DEF Changing, Touches
<1>3. RivalsCrossed'
  <2> SUFFICES ASSUME NEW q \in Slots, NEW r \in Slots, q # r, Changing(task'[q]),
                      Changing(task'[r]), task'[q].list = task'[r].list,
                      Touches(task'[q]) \cap Touches(task'[r]) # {}
               PROVE task'[q].crossed
    BY DEF RivalsCrossed, Changing, Touches
  <2>1. Touches(task[q]) \cap Touches(task[r]) # {}
    BY <1>2
  <2> QED BY <1>2, <2>1 DEF TasksInv, RivalsCrossed
<1>4. CheckedTurns'
  <2> SUFFICES ASSUME NEW r \in Slots \ {s}, Is(r, "toggle", "checked")', ~task'[r].crossed
               PROVE CheckedFits(r)'
    BY DEF CheckedTurns, CheckedFits
  <2>1. task'[r] = task[r]
    BY DEF Is
  <2>2. /\ Changing(task[r]) /\ task[r].item \in Touches(task[r]) /\ task[r].item \in Items
        /\ task[r] \in Task
    BY <2>1 DEF Changing, Touches, Is, TasksInv, Aimed, TypeOK, MaybeTask
  <2>3. CASE UNCHANGED ledger
    BY <2>1, <2>3 DEF TasksInv, CheckedTurns, CheckedFits, Is
  <2>4. CASE Changed(s)
    <3>1. PICK i \in Items, row \in Row :
            /\ Changing(task[s]) /\ i \in Touches(task[s])
            /\ ledger' = [ledger EXCEPT ![task[s].list][i] = row]
      BY <2>4 DEF Changed, SetRow
    <3>2. task[r].list # task[s].list \/ task[r].item # i
      BY <3>1, <2>1, <2>2 DEF TasksInv, RivalsCrossed
    <3>3. task[r].list \in Lists
      BY <2>2 DEF Task
    <3>4. ledger'[task[r].list][task[r].item] = ledger[task[r].list][task[r].item]
      BY <3>1, <3>2, <3>3, <2>2 DEF TypeOK
    <3>5. CheckedFits(r)
      BY DEF TasksInv, CheckedTurns
    <3> QED BY <2>1, <3>4, <3>5 DEF CheckedFits, Is
  <2> QED BY <2>3, <2>4
<1> QED BY <1>1, <1>3, <1>4 DEF TasksInv

(* An answer about one list, or a view that has to be told anew, leaves the other
   lists explained. *)
FreshAt(l) ==
  \/ at' = at /\ of' = of /\ rows' = rows /\ marked' = marked /\ hits' = hits
  \/ ~Listing(l)' /\ ~(Browsing(l) /\ hits)'
  \/ at' = "list" /\ (of' = l => Refreshing(l)')

LEMMA FramedAt ==
  ASSUME TypeOK, NEW l \in Lists, ExplainedAt(l), l \in behind => l \in behind',
         Keeps(l), ledger'[l] = ledger[l], installed'[l] = installed[l], FreshAt(l)
  PROVE ExplainedAt(l)'
<1> SUFFICES ASSUME l \notin behind' PROVE (RowsExplained(l) /\ SetExplained(l) /\ MarksExplained(l))'
  BY DEF ExplainedAt
<1>1. RowsExplained(l) /\ SetExplained(l) /\ MarksExplained(l)
  BY DEF ExplainedAt
<1>2. Refreshing(l) => Refreshing(l)'
  BY DEF Keeps, KeepsRefreshing, Refreshing
<1>3. \A i \in Items : Leaving(l, i) => Leaving(l, i)'
  BY DEF Keeps, KeepsLeaving, Leaving
<1>4. \A i \in Items : Turning(l, i) => Turning(l, i)'
  BY DEF Keeps, KeepsTurning, Turning
<1>5. \A i \in Items : There(l, i) <=> There(l, i)'
  BY DEF There
<1>6. SetExplained(l)'
  BY <1>1, <1>2, <1>3, <1>5 DEF SetExplained
<1>7. RowsExplained(l)'
  BY <1>1, <1>2, <1>3, <1>4, <1>5 DEF RowsExplained, FreshAt, Listing
<1>8. MarksExplained(l)'
  <2> SUFFICES ASSUME (Browsing(l) /\ hits)'
               PROVE /\ \A i \in marked' : There(l, i)' \/ Leaving(l, i)'
                     /\ Refreshing(l)' \/ \A i \in Items : There(l, i)' => i \in marked'
    BY DEF MarksExplained
  <2>1. marked' = marked /\ Browsing(l) /\ hits
    BY DEF FreshAt, Browsing, Listing
  <2>2. /\ \A i \in marked : There(l, i) \/ Leaving(l, i)
        /\ Refreshing(l) \/ \A i \in Items : There(l, i) => i \in marked
    BY <2>1, <1>1 DEF MarksExplained
  <2> QED BY <2>1, <2>2, <1>2, <1>3, <1>5 DEF TypeOK
<1> QED BY <1>6, <1>7, <1>8

LEMMA Framed ==
  ASSUME TypeOK, Explained, behind \subseteq behind', \A l \in Lists : Keeps(l),
         ledger' = ledger, installed' = installed, \A l \in Lists : FreshAt(l)
  PROVE Explained'
<1> SUFFICES ASSUME NEW l \in Lists PROVE ExplainedAt(l)'
  BY DEF Explained
<1> QED BY FramedAt DEF Explained

LEMMA JobTyped ==
  ASSUME NEW op \in {"fetch", "search", "toggle", "uninstall", "install", "drop"},
         NEW l \in Lists, NEW i \in Items \cup {None}, NEW want \in Row, NEW left \in SUBSET Items
  PROVE /\ Job(op, l, i, want, left) \in Task /\ Job(op, l, i, want, left) # None
        /\ Job(op, l, i, want, left).op = op /\ Job(op, l, i, want, left).list = l
        /\ Job(op, l, i, want, left).item = i /\ Job(op, l, i, want, left).want = want
        /\ Job(op, l, i, want, left).left = left /\ Job(op, l, i, want, left).stage = "asked"
<1>1. Job(op, l, i, want, left) \in Task
  BY DEF Job, Task, Row, Nothing
<1> QED BY <1>1, NoTaskIsNone DEF Job

LEMMA QuestionTyped ==
  ASSUME NEW l \in Lists
  PROVE /\ Fetch(l) \in Task /\ Fetch(l) # None /\ Fetch(l).op = "fetch"
        /\ Fetch(l).list = l /\ Fetch(l).stage = "asked"
        /\ Search(l) \in Task /\ Search(l) # None /\ Search(l).op = "search"
        /\ Search(l).list = l /\ Search(l).stage = "asked"
<1>1. Fetch(l) \in Task /\ Search(l) \in Task
  BY DEF Fetch, Search, Job, Task, Row, Nothing
<1> QED BY <1>1, NoTaskIsNone DEF Job, Fetch, Search

LEMMA Crossed ==
  ASSUME NEW x \in Task, NEW b \in BOOLEAN
  PROVE LET z == [x EXCEPT !.crossed = b] IN
        /\ z \in Task /\ z # None /\ z.crossed = b
        /\ z.op = x.op /\ z.list = x.list /\ z.item = x.item
        /\ z.want = x.want /\ z.left = x.left /\ z.stage = x.stage
<1>1. [x EXCEPT !.crossed = b] \in Task
  BY DEF Task
<1> QED BY <1>1, NoTaskIsNone DEF Task

(* A task is begun. *)
LEMMA Begins ==
  ASSUME TypeOK, NEW op \in {"toggle", "uninstall", "install", "drop"}, NEW l \in Lists,
         NEW i \in Items, NEW want \in Row, NEW left \in SUBSET Items,
         op = "toggle" => want # "absent", NEW s \in Slots, task[s] = None,
         \/ task' = Begun(Job(op, l, i, want, left), s)
         \/ \E t \in Slots \ {s}, m \in Lists :
              task[t] = None /\ task' = [Begun(Job(op, l, i, want, left), s) EXCEPT ![t] = Fetch(m)]
  PROVE Beginning(s)
<1> DEFINE x == Job(op, l, i, want, left)
           y == [x EXCEPT !.crossed = Rivals(x) # {}]
<1>1. /\ x \in Task /\ x # None /\ x.op = op /\ x.list = l /\ x.item = i /\ x.want = want
      /\ x.left = left /\ x.stage = "asked"
  BY JobTyped
<1>2. /\ y \in Task /\ y.op = op /\ y.list = l /\ y.item = i /\ y.want = want
      /\ y.left = left /\ y.stage = "asked" /\ y.crossed = (Rivals(x) # {})
  BY <1>1 DEF Task
<1>3. y # None
  BY <1>2, NoTaskIsNone
<1>4. Rivals(y) = Rivals(x)
  BY <1>1, <1>2 DEF Rivals, Touches
<1>5. \A r \in Rivals(x) : r \in Slots /\ task[r] # None /\ task[r] \in Task
  BY DEF Rivals, TypeOK
<1>6. \A r \in Slots :
        Begun(x, s)[r] = IF r = s THEN y
                         ELSE IF r \in Rivals(x) THEN [task[r] EXCEPT !.crossed = TRUE] ELSE task[r]
  BY DEF Begun
<1>7. ASSUME NEW r \in Rivals(x)
      PROVE LET z == [task[r] EXCEPT !.crossed = TRUE] IN
            /\ z \in Task /\ z # None /\ z.crossed
            /\ z.op = task[r].op /\ z.list = task[r].list /\ z.item = task[r].item
            /\ z.want = task[r].want /\ z.left = task[r].left /\ z.stage = task[r].stage
  BY <1>5, Crossed
<1>8. task'[s] = y
  BY <1>6 DEF Begun
<1>9. task' \in [Slots -> MaybeTask]
  <2>1. Begun(x, s) \in [Slots -> MaybeTask]
    BY <1>2, <1>6, <1>7 DEF Begun, TypeOK, MaybeTask
  <2> QED BY <2>1, QuestionTyped DEF MaybeTask
<1>10. Rivals(task'[s]) = Rivals(y)
  BY <1>8 DEF Rivals, Touches
<1>11. ASSUME NEW r \in Slots \ {s}
       PROVE \/ r \in Rivals(x) /\ task'[r] = [task[r] EXCEPT !.crossed = TRUE]
             \/ task'[r] = task[r] /\ r \notin Rivals(x)
             \/ task[r] = None /\ task'[r] # None /\ task'[r].op = "fetch"
  <2>1. CASE task' = Begun(x, s)
    BY <2>1, <1>6
  <2>2. CASE \E t \in Slots \ {s}, m \in Lists :
               task[t] = None /\ task' = [Begun(x, s) EXCEPT ![t] = Fetch(m)]
    <3>1. PICK t \in Slots \ {s}, m \in Lists :
            task[t] = None /\ task' = [Begun(x, s) EXCEPT ![t] = Fetch(m)]
      BY <2>2
    <3>2. CASE r = t
      BY <3>1, <3>2, QuestionTyped DEF Begun
    <3>3. CASE r # t
      BY <3>1, <3>3, <1>6 DEF Begun
    <3> QED BY <3>2, <3>3
  <2> QED BY <2>1, <2>2
<1> HIDE DEF x, y
<1> QED
  <2>1. \A r \in Slots \ {s} :
          \/ /\ task[r] # None /\ task'[r] # None /\ r \in Rivals(task'[s])
             /\ task'[r].crossed
             /\ task'[r].op = task[r].op /\ task'[r].list = task[r].list
             /\ task'[r].item = task[r].item /\ task'[r].want = task[r].want
             /\ task'[r].left = task[r].left /\ task'[r].stage = task[r].stage
          \/ task'[r] = task[r] /\ r \notin Rivals(task'[s])
          \/ /\ task[r] = None /\ task'[r] # None /\ task'[r].op = "fetch"
    <3> SUFFICES ASSUME NEW r \in Slots \ {s}, r \in Rivals(x),
                        task'[r] = [task[r] EXCEPT !.crossed = TRUE]
                 PROVE /\ task[r] # None /\ task'[r] # None /\ task'[r].crossed
                       /\ task'[r].op = task[r].op /\ task'[r].list = task[r].list
                       /\ task'[r].item = task[r].item /\ task'[r].want = task[r].want
                       /\ task'[r].left = task[r].left /\ task'[r].stage = task[r].stage
      BY <1>4, <1>10, <1>11
    <3> QED BY <1>5, <1>7
  <2> QED BY <2>1, <1>2, <1>3, <1>4, <1>8, <1>9, <1>10 DEF Beginning

-----------------------------------------------------------------------------
(* The keys. *)

Inv == TypeOK /\ TasksInv /\ Explained

(* A key asks or begins something, and what it shows will be told. *)
LEMMA KeyKeeps ==
  ASSUME Inv, UNCHANGED still, Asking \/ \E s \in Slots : Beginning(s),
         at' \in {"away", "list", "confirm", "browser", "drop", "failed"},
         IF at' = "away" THEN of' = None ELSE of' \in Lists,
         rows' = rows \/ rows' = Nothing, marked' = marked \/ marked' = {},
         hits' \in BOOLEAN, loading' \in BOOLEAN,
         pick' \in Items \cup {None}, at' = "confirm" => pick' # None,
         back' \in {"list", "browser"},
         \A l \in Lists : FreshAt(l)
  PROVE Inv'
<1>1. ledger' = ledger /\ running' = running /\ installed' = installed /\ behind' = behind
  BY DEF still
<1>2. TasksInv' /\ \A l \in Lists : Keeps(l)
  BY <1>1, AskingKeeps, BeginningKeeps DEF Inv
<1>3. TypeOK'
  <2>1. task' \in [Slots -> Task \cup {None}]
    BY DEF Asking, Beginning, MaybeTask
  <2>2. Nothing \in [Items -> Row]
    BY DEF Nothing, Row
  <2> QED BY <1>1, <2>1, <2>2 DEF Inv, TypeOK
<1>4. Explained'
  BY <1>1, <1>2, Framed DEF Inv
<1> QED BY <1>2, <1>3, <1>4 DEF Inv

LEMMA AskIsAsking ==
  ASSUME TypeOK, NEW l \in Lists, Ask(Fetch(l)) \/ Ask(Search(l)) \/ AskBoth(Search(l), Fetch(l))
  PROVE /\ Asking
        /\ Ask(Fetch(l)) \/ AskBoth(Search(l), Fetch(l)) => Refreshing(l)'
<1>1. /\ Fetch(l) \in Task /\ Fetch(l) # None /\ Fetch(l).op = "fetch"
      /\ Fetch(l).list = l /\ Fetch(l).stage = "asked"
      /\ Search(l) \in Task /\ Search(l) # None /\ Search(l).op = "search"
      /\ Search(l).list = l /\ Search(l).stage = "asked"
  BY QuestionTyped
<1>2. ASSUME Ask(Fetch(l)) PROVE Asking /\ Refreshing(l)'
  <2>1. PICK s \in Slots : task[s] = None /\ task' = [task EXCEPT ![s] = Fetch(l)]
    BY <1>2 DEF Ask
  <2>2. Asking
    BY <2>1, <1>1 DEF Asking, TypeOK, MaybeTask
  <2>3. Refreshes(task'[s], l)
    BY <2>1, <1>1 DEF TypeOK, Refreshes
  <2> QED BY <2>2, <2>3 DEF Refreshing
<1>3. ASSUME Ask(Search(l)) PROVE Asking
  <2>1. PICK s \in Slots : task[s] = None /\ task' = [task EXCEPT ![s] = Search(l)]
    BY <1>3 DEF Ask
  <2> QED BY <2>1, <1>1 DEF Asking, TypeOK, MaybeTask
<1>4. ASSUME AskBoth(Search(l), Fetch(l)) PROVE Asking /\ Refreshing(l)'
  <2>1. PICK s, t \in Slots :
          /\ s # t /\ task[s] = None /\ task[t] = None
          /\ task' = [task EXCEPT ![s] = Search(l), ![t] = Fetch(l)]
    BY <1>4 DEF AskBoth
  <2>2. Asking
    BY <2>1, <1>1 DEF Asking, TypeOK, MaybeTask
  <2>3. Refreshes(task'[t], l)
    BY <2>1, <1>1 DEF TypeOK, Refreshes
  <2> QED BY <2>2, <2>3 DEF Refreshing
<1> QED BY <1>2, <1>3, <1>4

(* The views a key leads to are told anew, or show nothing that could be wrong. *)
LEMMA ShownFresh ==
  ASSUME NEW m \in Lists, ShowList(m), Refreshing(m)'
  PROVE \A l \in Lists : FreshAt(l)
BY DEF ShowList, FreshAt

LEMMA BrowserFresh ==
  ASSUME NEW m \in Lists, ShowBrowser(m)
  PROVE \A l \in Lists : FreshAt(l)
BY DEF ShowBrowser, FreshAt, Listing, Browsing

LEMMA ListShown ==
  ASSUME Inv, UNCHANGED still, NEW m \in Lists, ShowList(m),
         Ask(Fetch(m)) \/ ((\E s \in Slots : Beginning(s)) /\ Refreshing(m)')
  PROVE Inv'
<1>1. Asking \/ \E s \in Slots : Beginning(s)
  BY AskIsAsking DEF Inv
<1>2. Refreshing(m)'
  BY AskIsAsking DEF Inv
<1>3. \A l \in Lists : FreshAt(l)
  BY <1>2, ShownFresh
<1>4. /\ at' = "list" /\ of' = m /\ rows' = Nothing /\ marked' = {} /\ hits' = FALSE
      /\ loading' = FALSE /\ pick' = None /\ back' = "list"
  BY DEF ShowList
<1>5. at' # "away" /\ at' # "confirm" /\ at' \in {"away", "list", "confirm", "browser", "drop", "failed"}
  BY <1>4
<1> QED BY <1>1, <1>3, <1>4, <1>5, KeyKeeps

LEMMA BrowserShown ==
  ASSUME Inv, UNCHANGED still, NEW m \in Lists, ShowBrowser(m),
         \/ Ask(Search(m)) \/ AskBoth(Search(m), Fetch(m)) \/ \E s \in Slots : Beginning(s)
  PROVE Inv'
<1>1. Asking \/ \E s \in Slots : Beginning(s)
  BY AskIsAsking DEF Inv
<1>3. \A l \in Lists : FreshAt(l)
  BY BrowserFresh
<1>4. /\ at' = "browser" /\ of' = m /\ rows' = Nothing /\ marked' = {} /\ hits' = FALSE
      /\ loading' = TRUE /\ pick' = None /\ back' = "list"
  BY DEF ShowBrowser
<1>5. at' # "away" /\ at' # "confirm" /\ at' \in {"away", "list", "confirm", "browser", "drop", "failed"}
  BY <1>4
<1> QED BY <1>1, <1>3, <1>4, <1>5, KeyKeeps

LEMMA KeysKeep ==
  ASSUME Inv, Keys
  PROVE Inv'
<1>a. ASSUME at # "away" PROVE of \in Lists
  BY <1>a DEF Inv, TypeOK
<1>u. ASSUME UNCHANGED task PROVE Asking
  BY <1>u DEF Asking, Inv, TypeOK, MaybeTask
<1>v. ASSUME UNCHANGED view PROVE \A l \in Lists : FreshAt(l)
  BY <1>v DEF view, FreshAt
<1>b. ASSUME NEW op \in {"toggle", "uninstall", "install", "drop"}, NEW l \in Lists,
             NEW i \in Items, NEW want \in Row, NEW left \in SUBSET Items,
             op = "toggle" => want # "absent", Begin(Job(op, l, i, want, left))
      PROVE \E s \in Slots : Beginning(s)
  <2>1. PICK s \in Slots : task[s] = None /\ task' = Begun(Job(op, l, i, want, left), s)
    BY <1>b DEF Begin
  <2>2. Beginning(s)
    BY <1>b, <2>1, Begins DEF Inv
  <2> QED BY <2>2
<1>1. ASSUME NEW l \in Lists, OpenInstalledMods(l) PROVE Inv'
  BY <1>1, ListShown DEF OpenInstalledMods
<1>2. ASSUME NEW l \in Lists, OpenBrowser(l) PROVE Inv'
  BY <1>2, BrowserShown DEF OpenBrowser
<1>3. CASE Close
  <2>1. /\ at' = "away" /\ of' = None /\ rows' = Nothing /\ marked' = {} /\ hits' = FALSE
        /\ loading' = FALSE /\ pick' = None /\ back' = "list" /\ UNCHANGED still /\ UNCHANGED task
    BY <1>3 DEF Close, Away
  <2>2. \A l \in Lists : FreshAt(l)
    BY <2>1 DEF FreshAt, Listing, Browsing
  <2>3. at' # "confirm" /\ at' \in {"away", "list", "confirm", "browser", "drop", "failed"}
    BY <2>1
  <2> QED BY <2>1, <2>2, <2>3, <1>u, KeyKeeps
<1>4. CASE InstalledPacksCycleKind
  <2>1. PICK m \in Lists : m = CycleTo[of]
    BY <1>4, <1>a DEF InstalledPacksCycleKind
  <2>2. ShowList(m) /\ Ask(Fetch(m)) /\ UNCHANGED still
    BY <2>1, <1>4 DEF InstalledPacksCycleKind
  <2> QED BY <2>2, ListShown
<1>5. CASE TypeSearch
  <2>1. PICK m \in Lists : m = of
    BY <1>5, <1>a DEF TypeSearch
  <2>2. /\ Ask(Search(m)) /\ UNCHANGED still /\ loading' \in {loading, TRUE}
        /\ at' = at /\ of' = of /\ rows' = rows /\ marked' = marked /\ hits' = hits
        /\ pick' = pick /\ back' = back
    BY <2>1, <1>5 DEF TypeSearch
  <2>3. Asking
    BY <2>2, AskIsAsking DEF Inv
  <2>4. \A l \in Lists : FreshAt(l)
    BY <2>2 DEF FreshAt
  <2> QED BY <2>2, <2>3, <2>4, KeyKeeps DEF Inv, TypeOK
<1>6. ASSUME NEW i \in Items, Toggle(i) PROVE Inv'
  <2>1. PICK m \in Lists : m = of
    BY <1>6, <1>a DEF Toggle
  <2>2. PICK want \in Row : want = Flip(rows[i]) /\ want # "absent"
    BY DEF Flip, Row
  <2>3. Begin(Job("toggle", m, i, want, {})) /\ UNCHANGED still /\ UNCHANGED view
    BY <2>1, <2>2, <1>6 DEF Toggle
  <2>4. \E s \in Slots : Beginning(s)
    BY <2>2, <2>3, <1>b
  <2> QED BY <2>3, <2>4, <1>v, KeyKeeps DEF Inv, TypeOK, view
<1>7. ASSUME NEW i \in Items, OpenUninstallConfirm(i) PROVE Inv'
  <2>1. /\ at' = "confirm" /\ pick' = i /\ rows' = Nothing /\ UNCHANGED <<still, task>>
        /\ of' = of /\ marked' = marked /\ hits' = hits /\ loading' = loading /\ back' = back
    BY <1>7 DEF OpenUninstallConfirm
  <2>2. \A l \in Lists : FreshAt(l)
    BY <2>1 DEF FreshAt, Listing, Browsing
  <2>3. of \in Lists
    BY <1>7, <1>a DEF OpenUninstallConfirm
  <2> QED BY <2>1, <2>2, <2>3, <1>u, KeyKeeps DEF Inv, TypeOK
<1>8. ASSUME NEW i \in Items, Install(i) PROVE Inv'
  <2>1. PICK m \in Lists : m = of
    BY <1>8, <1>a DEF Install
  <2>2. PICK left \in SUBSET Items : Begin(Job("install", m, i, "on", left))
    BY <2>1, <1>8 DEF Install
  <2>3. UNCHANGED still /\ UNCHANGED view
    BY <1>8 DEF Install
  <2>4. \E s \in Slots : Beginning(s)
    BY <2>2, <1>b DEF Row
  <2> QED BY <2>3, <2>4, <1>v, KeyKeeps DEF Inv, TypeOK, view
<1>9. ASSUME NEW i \in Items, PackDropPathSubmit(i) PROVE Inv'
  <2>1. PICK m \in Lists : m = of
    BY <1>9, <1>a DEF PackDropPathSubmit
  <2>2. ShowBrowser(m) /\ Begin(Job("drop", m, i, "on", {i})) /\ UNCHANGED still
    BY <2>1, <1>9 DEF PackDropPathSubmit
  <2>3. \E s \in Slots : Beginning(s)
    BY <2>2, <1>b DEF Row
  <2> QED BY <2>2, <2>3, BrowserShown
<1>10. CASE ConfirmUninstall
  <2>1. PICK m \in Lists : m = of
    BY <1>10, <1>a DEF ConfirmUninstall
  <2>2. PICK i \in Items : i = pick
    BY <1>10 DEF ConfirmUninstall, Inv, TypeOK
  <2>3. PICK s, t \in Slots :
          /\ s # t /\ task[s] = None /\ task[t] = None
          /\ task' = [Begun(Job("uninstall", m, i, "absent", {}), s) EXCEPT ![t] = Fetch(m)]
    BY <1>10, <2>1, <2>2 DEF ConfirmUninstall
  <2>4. Beginning(s)
    BY <2>3, Begins DEF Inv, Row
  <2>5. Refreshes(task'[t], m)
    BY <2>3, QuestionTyped DEF Refreshes, Begun
  <2>6. ShowList(m) /\ UNCHANGED still
    BY <1>10, <2>1 DEF ConfirmUninstall
  <2>7. Refreshing(m)'
    BY <2>5 DEF Refreshing
  <2> QED BY <2>4, <2>6, <2>7, ListShown
<1>11. CASE CancelUninstall
  <2>1. PICK m \in Lists : m = of
    BY <1>11, <1>a DEF CancelUninstall
  <2>2. Ask(Fetch(m)) /\ ShowList(m) /\ UNCHANGED still
    BY <2>1, <1>11 DEF CancelUninstall
  <2> QED BY <2>2, ListShown
<1>12. CASE PackDropPathOpen
  <2>1. /\ at' = "drop" /\ marked' = {} /\ hits' = FALSE /\ loading' = FALSE
        /\ UNCHANGED <<still, task>> /\ of' = of /\ rows' = rows /\ pick' = pick /\ back' = back
    BY <1>12 DEF PackDropPathOpen
  <2>2. \A l \in Lists : FreshAt(l)
    BY <2>1 DEF FreshAt, Listing, Browsing
  <2>3. of \in Lists
    BY <1>12, <1>a DEF PackDropPathOpen
  <2> QED BY <2>1, <2>2, <2>3, <1>u, KeyKeeps DEF Inv, TypeOK
<1>13. CASE PackDropPathCancel
  <2>1. PICK m \in Lists : m = of
    BY <1>13, <1>a DEF PackDropPathCancel
  <2>2. ShowBrowser(m) /\ Ask(Search(m)) /\ UNCHANGED still
    BY <2>1, <1>13 DEF PackDropPathCancel
  <2> QED BY <2>2, BrowserShown
<1>14. CASE DismissInstallFailed
  <2>1. PICK m \in Lists : m = of
    BY <1>14, <1>a DEF DismissInstallFailed
  <2>2. /\ UNCHANGED still
        /\ (ShowBrowser(m) /\ Ask(Search(m))) \/ (ShowList(m) /\ Ask(Fetch(m)))
    BY <2>1, <1>14 DEF DismissInstallFailed
  <2> QED BY <2>2, BrowserShown, ListShown
<1> QED
  BY <1>1, <1>2, <1>3, <1>4, <1>5, <1>6, <1>7, <1>8, <1>9, <1>10, <1>11, <1>12, <1>13, <1>14 DEF Keys

-----------------------------------------------------------------------------
(* The tasks. *)

Stages == {"asked", "begun", "checked", "done", "failed"}

LEMMA StageSet ==
  ASSUME TypeOK, NEW s \in Slots, task[s] # None, NEW to \in Stages, Stage(s, to)
  PROVE /\ task' \in [Slots -> MaybeTask] /\ task'[s] \in Task /\ task'[s] # None
        /\ task'[s].stage = to /\ task'[s].op = task[s].op /\ task'[s].list = task[s].list
        /\ task'[s].item = task[s].item /\ task'[s].want = task[s].want
        /\ task'[s].left = task[s].left /\ task'[s].crossed = task[s].crossed
        /\ \A r \in Slots \ {s} : task'[r] = task[r]
<1>1. task[s] \in Task
  BY DEF TypeOK
<1>2. task' = [task EXCEPT ![s] = [task[s] EXCEPT !.stage = to]]
  BY DEF Stage
<1>3. [task[s] EXCEPT !.stage = to] \in Task
  BY <1>1 DEF Task, Stages
<1>4. task'[s] = [task[s] EXCEPT !.stage = to]
  BY <1>2 DEF TypeOK
<1>5. task'[s] \in Task
  BY <1>3, <1>4
<1>6. task'[s] # None
  BY <1>5, NoTaskIsNone
<1>7. task' \in [Slots -> MaybeTask] /\ \A r \in Slots \ {s} : task'[r] = task[r]
  BY <1>2, <1>3 DEF TypeOK, MaybeTask
<1> QED BY <1>1, <1>4, <1>5, <1>6, <1>7 DEF Task

LEMMA OverSet ==
  ASSUME TypeOK, NEW s \in Slots, Over(s)
  PROVE /\ task' \in [Slots -> MaybeTask] /\ task'[s] = None
        /\ \A r \in Slots \ {s} : task'[r] = task[r]
BY DEF TypeOK, Over, MaybeTask

(* What slot s stands for is kept, if it is of another list or goes on. *)
LEMMA SlotKeeps ==
  ASSUME NEW s \in Slots, task[s] # None, NEW l \in Lists,
         \A r \in Slots \ {s} : task'[r] = task[r] \/ task[r] = None
  PROVE /\ task[s].list # l => Keeps(l)
        /\ (\/ task[s].op \in {"fetch", "install"} /\ task'[s] # None
               /\ task'[s].op \in {"fetch", "install"} /\ task'[s].list = task[s].list
            \/ task[s].op = "search"
            \/ task[s].op \in {"toggle", "uninstall"} /\ task[s].stage # "done"
            \/ task[s].op = "drop" /\ task[s].stage # "done"
            \/ task[s].op = "drop" /\ task'[s] # None
               /\ task'[s].op = "fetch" /\ task'[s].list = task[s].list) => Keeps(l)
BY DEF Keeps, KeepsRefreshing, KeepsLeaving, KeepsTurning, Refreshes, Leaves, Turns

(* A step of a task that tells the interface nothing it has to believe. *)
LEMMA WorkKeeps ==
  ASSUME Inv, NEW s \in Slots, GoingOn(s), CheckedFits(s)',
         UNCHANGED <<ledger, installed, running, view>>,
         behind \subseteq behind', behind' \subseteq Lists,
         \A l \in Lists : Keeps(l) \/ l \in behind'
  PROVE Inv'
<1>1. TasksInv'
  BY GoingOnKeeps DEF Inv
<1>2. TypeOK'
  <2>1. task' \in [Slots -> Task \cup {None}]
    BY DEF GoingOn, MaybeTask
  <2> QED BY <2>1 DEF Inv, TypeOK, view
<1>3. Explained'
  <2> SUFFICES ASSUME NEW l \in Lists PROVE ExplainedAt(l)'
    BY DEF Explained
  <2>1. CASE l \in behind'
    BY <2>1 DEF ExplainedAt
  <2>2. CASE Keeps(l)
    <3>1. FreshAt(l)
      BY DEF FreshAt, view
    <3> QED BY <2>2, <3>1, FramedAt DEF Inv, Explained
  <2> QED BY <2>1, <2>2
<1> QED BY <1>1, <1>2, <1>3 DEF Inv

LEMMA ReadKeeps ==
  ASSUME Inv, NEW s \in Slots, Read(s)
  PROVE Inv'
<1>1. /\ task[s] # None /\ task[s].op \in {"fetch", "search"} /\ task[s].stage = "asked"
      /\ UNCHANGED <<ledger, running, installed, behind, view>>
      /\ task' = [task EXCEPT ![s] = [task[s] EXCEPT !.stage = "done", !.rows = ledger[task[s].list]]]
  BY DEF Read, Is, ui
<1>2. task[s] \in Task
  BY <1>1 DEF Inv, TypeOK
<1> DEFINE x == [task[s] EXCEPT !.stage = "done", !.rows = ledger[task[s].list]]
<1>3. /\ x \in Task /\ x.op = task[s].op /\ x.list = task[s].list /\ x.item = task[s].item
      /\ x.left = task[s].left /\ x.crossed = task[s].crossed /\ x.stage = "done"
  <2>1. ledger[task[s].list] \in [Items -> Row]
    BY <1>2 DEF Inv, TypeOK, Task
  <2>2. x \in Task
    BY <1>2, <2>1 DEF Task
  <2>3. /\ x.op = task[s].op /\ x.list = task[s].list /\ x.item = task[s].item
        /\ x.left = task[s].left /\ x.crossed = task[s].crossed /\ x.stage = "done"
    BY <1>2 DEF Task
  <2> QED BY <2>2, <2>3
<1>4. x # None
  BY <1>3, NoTaskIsNone
<1>a. task' = [task EXCEPT ![s] = x]
  BY <1>1
<1> HIDE DEF x
<1>5. /\ task' \in [Slots -> MaybeTask] /\ task'[s] = x
      /\ \A r \in Slots \ {s} : task'[r] = task[r]
  BY <1>3, <1>a DEF Inv, TypeOK, MaybeTask
<1>6. GoingOn(s)
  BY <1>1, <1>3, <1>4, <1>5 DEF GoingOn, Changing
<1>7. CheckedFits(s)'
  BY <1>1, <1>3, <1>5 DEF CheckedFits, Is
<1>8. \A l \in Lists : Keeps(l)
  BY <1>1, <1>3, <1>4, <1>5, SlotKeeps
<1> QED BY <1>1, <1>6, <1>7, <1>8, WorkKeeps DEF Inv, TypeOK

LEMMA ReadFailsKeeps ==
  ASSUME Inv, NEW s \in Slots, ReadFails(s)
  PROVE Inv'
<1>1. /\ task[s] # None /\ task[s].stage = "asked" /\ task[s].op \in {"fetch", "search"}
      /\ UNCHANGED <<ledger, running, installed, view>>
  BY DEF ReadFails, Is
<1>2. task[s].list \in Lists
  BY <1>1 DEF Inv, TypeOK, Task
<1>3. CASE \E to \in {"done", "failed"} :
             Stage(s, to) /\ UNCHANGED behind /\ (to = "failed" => task[s].op = "search")
  <2>1. PICK to \in {"done", "failed"} : Stage(s, to) /\ UNCHANGED behind
    BY <1>3
  <2>2. /\ task' \in [Slots -> MaybeTask] /\ task'[s] # None
        /\ task'[s].stage = to /\ task'[s].op = task[s].op /\ task'[s].list = task[s].list
        /\ task'[s].item = task[s].item
        /\ task'[s].left = task[s].left /\ task'[s].crossed = task[s].crossed
        /\ \A r \in Slots \ {s} : task'[r] = task[r]
    BY <1>1, <2>1, StageSet DEF Inv, Stages
  <2>3. GoingOn(s)
    BY <1>1, <2>2 DEF GoingOn, Changing
  <2>4. CheckedFits(s)'
    BY <1>1, <2>2 DEF CheckedFits, Is
  <2>5. \A l \in Lists : Keeps(l)
    BY <1>1, <2>2, SlotKeeps
  <2> QED BY <1>1, <2>1, <2>3, <2>4, <2>5, WorkKeeps DEF Inv, TypeOK
<1>4. CASE Over(s) /\ behind' = behind \cup {task[s].list}
  <2>1. /\ task' \in [Slots -> MaybeTask] /\ task'[s] = None
        /\ \A r \in Slots \ {s} : task'[r] = task[r]
    BY <1>4, OverSet DEF Inv
  <2>2. GoingOn(s)
    BY <1>1, <2>1 DEF GoingOn
  <2>3. CheckedFits(s)'
    BY <2>1 DEF CheckedFits, Is
  <2>4. \A l \in Lists : Keeps(l) \/ l \in behind'
    BY <1>1, <1>4, <2>1, SlotKeeps
  <2>5. behind \subseteq behind' /\ behind' \subseteq Lists
    BY <1>2, <1>4 DEF Inv, TypeOK
  <2> QED BY <1>1, <2>2, <2>3, <2>4, <2>5, WorkKeeps
<1> QED BY <1>3, <1>4 DEF ReadFails, Is

LEMMA CheckKeeps ==
  ASSUME Inv, NEW s \in Slots, Check(s)
  PROVE Inv'
<1> DEFINE row == ledger[task[s].list][task[s].item]
<1>1. /\ task[s] # None /\ task[s].stage = "asked" /\ task[s].op = "toggle"
      /\ UNCHANGED <<ledger, running, installed, view, behind>>
      /\ IF row = "absent" THEN Over(s) ELSE Stage(s, IF row = task[s].want THEN "done" ELSE "checked")
  BY DEF Check, Is, ui
<1>2. /\ task[s] \in Task /\ task[s].list \in Lists /\ task[s].item \in Items
      /\ task[s].want \in Row /\ task[s].want # "absent" /\ row \in Row
  BY <1>1 DEF Inv, TypeOK, Task, TasksInv, Aimed
<1>3. CASE Over(s)
  <2>1. /\ task' \in [Slots -> MaybeTask] /\ task'[s] = None
        /\ \A r \in Slots \ {s} : task'[r] = task[r]
    BY <1>3, OverSet DEF Inv
  <2>2. GoingOn(s)
    BY <1>1, <2>1 DEF GoingOn
  <2>3. CheckedFits(s)'
    BY <2>1 DEF CheckedFits, Is
  <2>4. \A l \in Lists : Keeps(l)
    BY <1>1, <2>1, SlotKeeps
  <2> QED BY <1>1, <2>2, <2>3, <2>4, WorkKeeps DEF Inv, TypeOK
<1>4. CASE row # "absent"
  <2>1. PICK to \in {"done", "checked"} : Stage(s, to) /\ (to = "checked" => row # task[s].want)
    BY <1>1, <1>4
  <2>2. /\ task' \in [Slots -> MaybeTask] /\ task'[s] # None
        /\ task'[s].stage = to /\ task'[s].op = task[s].op /\ task'[s].list = task[s].list
        /\ task'[s].item = task[s].item /\ task'[s].want = task[s].want
        /\ task'[s].left = task[s].left /\ task'[s].crossed = task[s].crossed
        /\ \A r \in Slots \ {s} : task'[r] = task[r]
    BY <1>1, <2>1, StageSet DEF Inv, Stages
  <2>3. GoingOn(s)
    BY <1>1, <1>2, <2>2 DEF GoingOn, Changing
  <2>4. CheckedFits(s)'
    BY <1>1, <1>2, <1>4, <2>1, <2>2 DEF CheckedFits, Is, Flip, Row
  <2>5. \A l \in Lists : Keeps(l)
    BY <1>1, <2>2, SlotKeeps
  <2> QED BY <1>1, <2>3, <2>4, <2>5, WorkKeeps DEF Inv, TypeOK
<1> QED BY <1>1, <1>3, <1>4

LEMMA FailKeeps ==
  ASSUME Inv, NEW s \in Slots, ChangeFails(s) \/ InstallFails(s) \/ PackDropFailed(s)
  PROVE Inv'
<1>1. /\ task[s] # None /\ UNCHANGED <<ledger, running, installed, view, behind>>
      /\ \/ /\ task[s].op \in {"toggle", "uninstall"}
            /\ task[s].stage \in {"asked", "checked"} /\ Over(s)
         \/ /\ task[s].op = "install"
            /\ task[s].stage \in {"asked", "begun"} /\ Stage(s, "failed")
         \/ task[s].op = "drop" /\ task[s].stage = "asked" /\ Stage(s, "failed")
         \/ task[s].op = "drop" /\ task[s].stage = "failed" /\ Over(s)
  BY DEF ChangeFails, InstallFails, PackDropFailed, Installing, Is, ui
<1>2. CASE Over(s)
  <2>1. /\ task' \in [Slots -> MaybeTask] /\ task'[s] = None
        /\ \A r \in Slots \ {s} : task'[r] = task[r]
    BY <1>2, OverSet DEF Inv
  <2>2. GoingOn(s)
    BY <1>1, <2>1 DEF GoingOn
  <2>3. CheckedFits(s)'
    BY <2>1 DEF CheckedFits, Is
  <2>4. ~Stage(s, "failed")
    BY <1>1, <1>2, <2>1, StageSet DEF Inv, Stages
  <2>5. \A l \in Lists : Keeps(l)
    BY <1>1, <2>1, <2>4, SlotKeeps
  <2> QED BY <1>1, <2>2, <2>3, <2>5, WorkKeeps DEF Inv, TypeOK
<1>3. CASE Stage(s, "failed") /\ task[s].op \in {"install", "drop"}
             /\ task[s].stage \in {"asked", "begun"}
  <2>2. /\ task' \in [Slots -> MaybeTask] /\ task'[s] # None
        /\ task'[s].stage = "failed" /\ task'[s].op = task[s].op /\ task'[s].list = task[s].list
        /\ task'[s].item = task[s].item /\ task'[s].want = task[s].want
        /\ task'[s].left = task[s].left /\ task'[s].crossed = task[s].crossed
        /\ \A r \in Slots \ {s} : task'[r] = task[r]
    BY <1>1, <1>3, StageSet DEF Inv, Stages
  <2>3. GoingOn(s)
    BY <1>1, <1>3, <2>2 DEF GoingOn, Changing
  <2>4. CheckedFits(s)'
    BY <1>3, <2>2 DEF CheckedFits, Is
  <2>5. \A l \in Lists : Keeps(l)
    BY <1>1, <1>3, <2>2, SlotKeeps
  <2> QED BY <1>1, <2>3, <2>4, <2>5, WorkKeeps DEF Inv, TypeOK
<1> QED BY <1>1, <1>2, <1>3

(* A task that changes an item it names: what the interface shows of the list differs
   from the ledger by what a task under way accounts for. *)
LEMMA ChangeKeeps ==
  ASSUME Inv, NEW s \in Slots, GoingOn(s), NEW i \in Items, NEW row \in Row,
         NEW l \in Lists, l = task[s].list, Changing(task[s]), i \in Touches(task[s]),
         ~(task'[s] # None /\ task'[s].op = "toggle" /\ task'[s].stage = "checked"),
         ledger' = [ledger EXCEPT ![l][i] = row],
         UNCHANGED <<installed, running, view, behind>>,
         \A m \in Lists : Keeps(m),
         \/ Refreshes(task'[s], l) /\ row # "absent"
         \/ Leaves(task'[s], l, i) /\ row = "absent"
         \/ Turns(task'[s], l, i) /\ row # "absent" /\ ledger[l][i] # "absent"
  PROVE Inv'
<1>1. TasksInv'
  <2>1. Changed(s)
    BY DEF Changed, SetRow
  <2>2. CheckedFits(s)'
    BY DEF CheckedFits, Is
  <2> QED BY <2>1, <2>2, GoingOnKeeps DEF Inv
<1>2. TypeOK'
  <2>1. task' \in [Slots -> Task \cup {None}]
    BY DEF GoingOn, MaybeTask
  <2>2. ledger' \in [Lists -> [Items -> Row]]
    BY DEF Inv, TypeOK
  <2> QED BY <2>1, <2>2 DEF Inv, TypeOK, view
<1>3. Explained'
  <2> SUFFICES ASSUME NEW m \in Lists PROVE ExplainedAt(m)'
    BY DEF Explained
  <2>1. CASE m # l
    <3>1. FreshAt(m)
      BY DEF FreshAt, view
    <3>2. ledger'[m] = ledger[m] /\ installed'[m] = installed[m]
      BY <2>1 DEF Inv, TypeOK
    <3> QED BY <3>1, <3>2, FramedAt DEF Inv, Explained
  <2>2. CASE m = l
    <3> SUFFICES ASSUME l \notin behind
                 PROVE RowsExplained(l)' /\ SetExplained(l)' /\ MarksExplained(l)'
      BY <2>2 DEF ExplainedAt
    <3>1. RowsExplained(l) /\ SetExplained(l) /\ MarksExplained(l)
      BY DEF Inv, Explained, ExplainedAt
    <3>2. Refreshing(l) => Refreshing(l)'
      BY DEF Keeps, KeepsRefreshing, Refreshing
    <3>3. \A j \in Items : Leaving(l, j) => Leaving(l, j)'
      BY DEF Keeps, KeepsLeaving, Leaving
    <3>4. \A j \in Items : Turning(l, j) => Turning(l, j)'
      BY DEF Keeps, KeepsTurning, Turning
    <3>5. \A j \in Items \ {i} : ledger'[l][j] = ledger[l][j]
      BY DEF Inv, TypeOK
    <3>6. ledger'[l][i] = row
      BY DEF Inv, TypeOK
    <3>7. Listing(l)' = Listing(l) /\ Browsing(l)' = Browsing(l)
      BY DEF view, Listing, Browsing
    <3>8. rows' = rows /\ marked' = marked /\ hits' = hits /\ installed' = installed
      BY DEF view
    <3>9. marked \subseteq Items
      BY DEF Inv, TypeOK
    <3>10. CASE Refreshes(task'[s], l) /\ row # "absent"
      <4>1. Refreshing(l)'
        BY <3>10 DEF Refreshing
      <4>2. \A j \in Items : There(l, j) => There(l, j)'
        BY <3>5, <3>6, <3>10 DEF There
      <4> QED BY <3>1, <3>3, <3>7, <3>8, <3>9, <4>1, <4>2
              DEF RowsExplained, SetExplained, MarksExplained
    <3>11. CASE Leaves(task'[s], l, i) /\ row = "absent"
      <4>1. Leaving(l, i)'
        BY <3>11 DEF Leaving
      <4>2. ~There(l, i)' /\ \A j \in Items \ {i} : There(l, j)' <=> There(l, j)
        BY <3>5, <3>6, <3>11 DEF There
      <4>3. RowsExplained(l)'
        BY <3>1, <3>2, <3>3, <3>4, <3>5, <3>7, <3>8, <4>1 DEF RowsExplained
      <4>4. SetExplained(l)'
        BY <3>1, <3>2, <3>3, <3>8, <4>1, <4>2 DEF SetExplained
      <4>5. MarksExplained(l)'
        BY <3>1, <3>2, <3>3, <3>7, <3>8, <3>9, <4>1, <4>2 DEF MarksExplained
      <4> QED BY <4>3, <4>4, <4>5
    <3>12. CASE Turns(task'[s], l, i) /\ row # "absent" /\ ledger[l][i] # "absent"
      <4>1. Turning(l, i)'
        BY <3>12 DEF Turning
      <4>2. \A j \in Items : There(l, j)' <=> There(l, j)
        BY <3>5, <3>6, <3>12 DEF There
      <4>3. RowsExplained(l)'
        BY <3>1, <3>2, <3>3, <3>4, <3>5, <3>7, <3>8, <3>12, <4>1 DEF RowsExplained
      <4>4. SetExplained(l)'
        BY <3>1, <3>2, <3>3, <3>8, <4>2 DEF SetExplained
      <4>5. MarksExplained(l)'
        BY <3>1, <3>2, <3>3, <3>7, <3>8, <3>9, <4>2 DEF MarksExplained
      <4> QED BY <4>3, <4>4, <4>5
    <3> QED BY <3>10, <3>11, <3>12
  <2> QED BY <2>1, <2>2
<1> QED BY <1>1, <1>2, <1>3 DEF Inv

LEMMA TurnKeeps ==
  ASSUME Inv, NEW s \in Slots, Turn(s)
  PROVE Inv'
<1>1. /\ task[s] # None /\ task[s].op = "toggle" /\ task[s].stage \in {"asked", "checked"}
      /\ UNCHANGED <<running, installed, behind, view>>
  BY DEF Turn, Is, ui
<1>2. task[s] \in Task
  BY <1>1 DEF Inv, TypeOK
<1>3. PICK l \in Lists, i \in Items : l = task[s].list /\ i = task[s].item
  BY <1>1, <1>2 DEF Inv, Task, TasksInv, Aimed
<1>4. PICK row \in Row : row = Flip(ledger[l][i]) /\ row # "absent"
  BY DEF Flip, Row
<1>5. ledger[l][i] # "absent" /\ ledger' = [ledger EXCEPT ![l][i] = row]
  BY <1>3, <1>4 DEF Turn, SetRow
<1>6. PICK want \in Row :
        /\ want # "absent"
        /\ task' = [task EXCEPT ![s] = [task[s] EXCEPT !.stage = "done", !.want = want]]
  <2>1. CASE l \in ModLists
    <3>1. task[s].want \in Row /\ task[s].want # "absent"
      BY <1>1, <1>2 DEF Inv, Task, TasksInv, Aimed
    <3>2. task' = [task EXCEPT ![s] = [task[s] EXCEPT !.stage = "done", !.want = task[s].want]]
      BY <1>2, <1>3, <2>1 DEF Turn, Task
    <3> QED BY <3>1, <3>2
  <2>2. CASE l \notin ModLists
    <3>1. task' = [task EXCEPT ![s] = [task[s] EXCEPT !.stage = "done", !.want = row]]
      BY <1>2, <1>3, <1>4, <2>2 DEF Turn, Task
    <3> QED BY <1>4, <3>1
  <2> QED BY <2>1, <2>2
<1> DEFINE x == [task[s] EXCEPT !.stage = "done", !.want = want]
<1>7. /\ x \in Task /\ x.op = "toggle" /\ x.list = l /\ x.item = i /\ x.want = want
      /\ x.left = task[s].left /\ x.crossed = task[s].crossed /\ x.stage = "done"
  <2>1. x \in Task
    BY <1>2 DEF Task
  <2> QED BY <1>1, <1>2, <1>3, <2>1 DEF Task
<1>8. x # None
  BY <1>7, NoTaskIsNone
<1>9. task' = [task EXCEPT ![s] = x]
  BY <1>6
<1> HIDE DEF x
<1>10. /\ task' \in [Slots -> MaybeTask] /\ task'[s] = x
       /\ \A r \in Slots \ {s} : task'[r] = task[r]
  BY <1>7, <1>9 DEF Inv, TypeOK, MaybeTask
<1>11. GoingOn(s)
  BY <1>1, <1>3, <1>6, <1>7, <1>8, <1>10 DEF GoingOn, Changing
<1>12. \A m \in Lists : Keeps(m)
  BY <1>1, <1>10, SlotKeeps
<1>13. Changing(task[s]) /\ i \in Touches(task[s])
  BY <1>1, <1>3 DEF Changing, Touches
<1>14. Turns(task'[s], l, i)
  BY <1>7, <1>8, <1>10 DEF Turns
<1> QED BY <1>1, <1>3, <1>4, <1>5, <1>7, <1>10, <1>11, <1>12, <1>13, <1>14, ChangeKeeps

LEMMA RemoveKeeps ==
  ASSUME Inv, NEW s \in Slots, Remove(s)
  PROVE Inv'
<1>1. /\ task[s] # None /\ task[s].op = "uninstall" /\ task[s].stage = "asked"
      /\ UNCHANGED <<running, installed, behind, view>> /\ Stage(s, "done")
      /\ ledger' = [ledger EXCEPT ![task[s].list][task[s].item] = "absent"]
  BY DEF Remove, Is, ui, SetRow
<1>2. PICK l \in Lists, i \in Items : l = task[s].list /\ i = task[s].item
  BY <1>1 DEF Inv, TypeOK, Task, TasksInv, Aimed
<1>3. /\ task' \in [Slots -> MaybeTask] /\ task'[s] # None
      /\ task'[s].stage = "done" /\ task'[s].op = task[s].op /\ task'[s].list = task[s].list
      /\ task'[s].item = task[s].item
      /\ task'[s].left = task[s].left /\ task'[s].crossed = task[s].crossed
      /\ \A r \in Slots \ {s} : task'[r] = task[r]
  BY <1>1, StageSet DEF Inv, Stages
<1>4. GoingOn(s)
  BY <1>1, <1>3 DEF GoingOn, Changing
<1>5. \A m \in Lists : Keeps(m)
  BY <1>1, <1>3, SlotKeeps
<1>6. Changing(task[s]) /\ i \in Touches(task[s])
  BY <1>1, <1>2 DEF Changing, Touches
<1>7. Leaves(task'[s], l, i)
  BY <1>1, <1>2, <1>3 DEF Leaves
<1>8. ledger' = [ledger EXCEPT ![l][i] = "absent"] /\ "absent" \in Row
  BY <1>1, <1>2 DEF Row
<1> QED BY <1>1, <1>2, <1>3, <1>4, <1>5, <1>6, <1>7, <1>8, ChangeKeeps

LEMMA AddRowKeeps ==
  ASSUME Inv, NEW s \in Slots, AddRow(s)
  PROVE Inv'
<1>1. /\ task[s] # None /\ UNCHANGED <<running, installed, behind, view>>
      /\ task[s].op \in {"install", "drop"} /\ task[s].stage \in {"asked", "begun"}
  BY DEF AddRow, Installing, Is, ui
<1>2. task[s] \in Task
  BY <1>1 DEF Inv, TypeOK
<1>3. PICK l \in Lists : l = task[s].list
  BY <1>2 DEF Task
<1>4. PICK i \in task[s].left, stage \in {"asked", "begun", "done", "failed"} :
        /\ task[s].op = "drop" => stage = "done"
        /\ task' = [task EXCEPT ![s].left = @ \ {i}, ![s].stage = stage]
        /\ SetRow(task[s].list, i, "on")
  BY <1>1 DEF AddRow
<1>5. i \in Items
  BY <1>2 DEF Task
<1> DEFINE x == [task[s] EXCEPT !.left = task[s].left \ {i}, !.stage = stage]
<1>7. /\ x \in Task /\ x.op = task[s].op /\ x.list = l /\ x.item = task[s].item
      /\ x.left = task[s].left \ {i} /\ x.crossed = task[s].crossed /\ x.stage = stage
  <2>1. x \in Task
    BY <1>2 DEF Task
  <2> QED BY <1>2, <1>3, <2>1 DEF Task
<1>8. x # None
  BY <1>7, NoTaskIsNone
<1>9. task' = [task EXCEPT ![s] = x]
  BY <1>2, <1>4 DEF Task
<1> HIDE DEF x
<1>10. /\ task' \in [Slots -> MaybeTask] /\ task'[s] = x
       /\ \A r \in Slots \ {s} : task'[r] = task[r]
  BY <1>7, <1>9 DEF Inv, TypeOK, MaybeTask
<1>11. GoingOn(s)
  BY <1>1, <1>3, <1>7, <1>8, <1>10 DEF GoingOn, Changing
<1>12. \A m \in Lists : Keeps(m)
  BY <1>1, <1>3, <1>7, <1>8, <1>10, SlotKeeps
<1>13. Changing(task[s]) /\ i \in Touches(task[s])
  BY <1>1 DEF Changing, Touches
<1>14. Refreshes(task'[s], l)
  BY <1>1, <1>4, <1>7, <1>8, <1>10 DEF Refreshes
<1>15. ledger' = [ledger EXCEPT ![l][i] = "on"] /\ "on" \in Row
  BY <1>3, <1>4 DEF SetRow, Row
<1> QED BY <1>1, <1>3, <1>5, <1>7, <1>10, <1>11, <1>12, <1>13, <1>14, <1>15, ChangeKeeps

LEMMA WorksKeep ==
  ASSUME Inv, NEW s \in Slots, Work(s)
  PROVE Inv'
BY ReadKeeps, ReadFailsKeeps, CheckKeeps, TurnKeeps, RemoveKeeps, FailKeeps, AddRowKeeps DEF Work

-----------------------------------------------------------------------------
(* The interface is told. *)

ViewTyped ==
  /\ at \in {"away", "list", "confirm", "browser", "drop", "failed"}
  /\ IF at = "away" THEN of = None ELSE of \in Lists
  /\ rows \in [Items -> Row] /\ marked \subseteq Items
  /\ hits \in BOOLEAN /\ loading \in BOOLEAN
  /\ pick \in Items \cup {None} /\ (at = "confirm" => pick # None) /\ back \in {"list", "browser"}

(* An answer about list l leaves the other lists alone. *)
LEMMA AnswerKeeps ==
  ASSUME Inv, NEW s \in Slots, GoingOn(s), CheckedFits(s)', ledger' = ledger,
         NEW l \in Lists, l = task[s].list,
         installed' \in [Lists -> SUBSET Items], running' \subseteq ModLists,
         behind' \subseteq Lists, ViewTyped',
         \A m \in Lists \ {l} : /\ installed'[m] = installed[m] /\ FreshAt(m)
                                /\ m \in behind => m \in behind',
         ExplainedAt(l)'
  PROVE Inv'
<1>1. TasksInv'
  BY GoingOnKeeps DEF Inv
<1>2. TypeOK'
  <2>1. task' \in [Slots -> Task \cup {None}]
    BY DEF GoingOn, MaybeTask
  <2> QED BY <2>1 DEF Inv, TypeOK, ViewTyped
<1>3. Explained'
  <2> SUFFICES ASSUME NEW m \in Lists \ {l} PROVE ExplainedAt(m)'
    BY DEF Explained
  <2>1. Keeps(m)
    BY SlotKeeps DEF GoingOn
  <2> QED BY <2>1, FramedAt DEF Inv, Explained
<1> QED BY <1>1, <1>2, <1>3 DEF Inv

LEMMA EndsGoOn ==
  ASSUME Inv, NEW s \in Slots, task[s] # None, Over(s)
  PROVE GoingOn(s) /\ CheckedFits(s)' /\ \A r \in Slots \ {s} : task'[r] = task[r]
<1>1. /\ task' \in [Slots -> MaybeTask] /\ task'[s] = None
      /\ \A r \in Slots \ {s} : task'[r] = task[r]
  BY OverSet DEF Inv
<1> QED BY <1>1 DEF GoingOn, CheckedFits, Is

LEMMA RefetchGoesOn ==
  ASSUME Inv, NEW s \in Slots, task[s] # None, NEW l \in Lists, task' = [task EXCEPT ![s] = Fetch(l)]
  PROVE /\ GoingOn(s) /\ CheckedFits(s)' /\ Refreshes(task'[s], l)
        /\ \A r \in Slots \ {s} : task'[r] = task[r]
<1>1. Fetch(l) \in Task /\ Fetch(l) # None /\ Fetch(l).op = "fetch" /\ Fetch(l).stage = "asked"
      /\ Fetch(l).list = l
  BY QuestionTyped
<1>2. /\ task' \in [Slots -> MaybeTask] /\ task'[s] = Fetch(l)
      /\ \A r \in Slots \ {s} : task'[r] = task[r]
  BY <1>1 DEF Inv, TypeOK, MaybeTask
<1> QED BY <1>1, <1>2 DEF GoingOn, CheckedFits, Is, Refreshes

LEMMA ListOf ==
  ASSUME Inv, NEW s \in Slots, task[s] # None
  PROVE task[s] \in Task /\ task[s].list \in Lists
BY DEF Inv, TypeOK, Task

LEMMA LoadedKeeps ==
  ASSUME Inv, NEW s \in Slots, Loaded(s)
  PROVE Inv'
<1>1. task[s] # None /\ task[s].op = "fetch" /\ task[s].stage = "done" /\ Over(s)
  BY DEF Loaded, Is
<1>2. PICK l \in Lists : l = task[s].list
  BY <1>1, ListOf
<1>3. PICK rs \in [Items -> Row] : rs = task[s].rows
  BY <1>1, ListOf DEF Task
<1>4. /\ installed' = [installed EXCEPT ![l] = Ids(rs)]
      /\ rows' = IF Listing(l) THEN rs ELSE rows
      /\ marked' = IF Browsing(l) /\ hits THEN marked \cup Ids(rs) ELSE marked
      /\ behind' = IF rs # ledger[l] THEN behind \cup {l}
                   ELSE IF Browsing(l) /\ ~(marked \subseteq Ids(rs)) THEN behind ELSE behind \ {l}
      /\ UNCHANGED <<ledger, running, at, of, hits, loading, pick, back>>
  BY <1>2, <1>3 DEF Loaded
<1>5. Ids(rs) \subseteq Items
  BY DEF Ids
<1>6. ViewTyped'
  BY <1>4, <1>5 DEF Inv, TypeOK, ViewTyped
<1>7. installed' \in [Lists -> SUBSET Items] /\ installed'[l] = Ids(rs)
      /\ \A m \in Lists \ {l} : installed'[m] = installed[m]
  BY <1>4, <1>5 DEF Inv, TypeOK
<1>8. ASSUME NEW m \in Lists \ {l} PROVE FreshAt(m)
  BY <1>4 DEF FreshAt, Listing, Browsing
<1>9. ExplainedAt(l)'
  <2> SUFFICES ASSUME l \notin behind'
               PROVE (RowsExplained(l) /\ SetExplained(l) /\ MarksExplained(l))'
    BY DEF ExplainedAt
  <2>1. rs = ledger[l] /\ ledger' = ledger
    BY <1>4
  <2>2. \A i \in Items : There(l, i)' <=> i \in Ids(rs)
    BY <2>1 DEF There, Ids
  <2>3. RowsExplained(l)'
    BY <1>4, <2>1 DEF RowsExplained, Listing
  <2>4. SetExplained(l)'
    BY <1>7, <2>2 DEF SetExplained
  <2>5. MarksExplained(l)'
    <3> SUFFICES ASSUME Browsing(l), hits
                 PROVE /\ \A i \in marked' : There(l, i)' \/ Leaving(l, i)'
                       /\ \A i \in Items : There(l, i)' => i \in marked'
      BY <1>4 DEF MarksExplained, Browsing
    <3>1. marked' = marked \cup Ids(rs) /\ marked \subseteq Items
      BY <1>4 DEF Inv, TypeOK
    <3>2. CASE marked \subseteq Ids(rs)
      BY <3>1, <3>2, <2>2, <1>5
    <3>3. CASE ~(marked \subseteq Ids(rs))
      <4>1. \A i \in marked : There(l, i) \/ Leaving(l, i)
        BY <1>4, <2>1, <3>3 DEF Inv, Explained, ExplainedAt, MarksExplained
      <4>2. \A i \in Items : Leaving(l, i) => Leaving(l, i)'
        BY <1>1, EndsGoOn DEF Leaving, Leaves
      <4>3. \A i \in Items : There(l, i) => There(l, i)'
        BY <2>1 DEF There
      <4> QED BY <3>1, <2>2, <4>1, <4>2, <4>3, <1>5
    <3> QED BY <3>2, <3>3
  <2> QED BY <2>3, <2>4, <2>5
<1>10. behind' \subseteq Lists /\ \A m \in Lists \ {l} : m \in behind => m \in behind'
  BY <1>4 DEF Inv, TypeOK
<1>11. GoingOn(s) /\ CheckedFits(s)'
  BY <1>1, EndsGoOn
<1>12. running' \subseteq ModLists
  BY <1>4 DEF Inv, TypeOK
<1> QED BY <1>2, <1>4, <1>6, <1>7, <1>8, <1>9, <1>10, <1>11, <1>12, AnswerKeeps

LEMMA SearchLoadedKeeps ==
  ASSUME Inv, NEW s \in Slots, SearchLoaded(s)
  PROVE Inv'
<1>1. task[s] # None /\ task[s].op = "search" /\ task[s].stage = "done" /\ Over(s)
  BY DEF SearchLoaded, Is
<1>2. PICK l \in Lists : l = task[s].list
  BY <1>1, ListOf
<1>3. PICK marks \in SUBSET Items : marks = Ids(task[s].rows) \cup installed[l]
  BY <1>2 DEF Ids, Inv, TypeOK
<1>4. /\ IF Browsing(l)
           THEN /\ marked' = marks /\ hits' = TRUE /\ loading' = FALSE
                /\ behind' = IF marks = Ids(ledger[l]) THEN behind ELSE behind \cup {l}
           ELSE UNCHANGED <<marked, hits, loading, behind>>
      /\ UNCHANGED <<ledger, running, installed, at, of, rows, pick, back>>
  BY <1>2, <1>3 DEF SearchLoaded, Told
<1>5. ViewTyped'
  BY <1>4 DEF Inv, TypeOK, ViewTyped
<1>6. ASSUME NEW m \in Lists \ {l} PROVE FreshAt(m)
  BY <1>4 DEF FreshAt, Listing, Browsing
<1>7. GoingOn(s) /\ CheckedFits(s)' /\ \A r \in Slots \ {s} : task'[r] = task[r]
  BY <1>1, EndsGoOn
<1>8. ExplainedAt(l)'
  <2>1. Keeps(l)
    BY <1>1, <1>7, SlotKeeps
  <2>2. CASE ~Browsing(l)
    <3>1. FreshAt(l)
      BY <1>4, <2>2 DEF FreshAt
    <3> QED BY <1>4, <2>1, <2>2, <3>1, FramedAt DEF Inv, Explained
  <2>3. CASE Browsing(l) /\ l \notin behind'
    <3>1. (Refreshing(l) => Refreshing(l)') /\ \A i \in Items : Leaving(l, i) => Leaving(l, i)'
      BY <2>1 DEF Keeps, KeepsRefreshing, KeepsLeaving, Refreshing, Leaving
    <3>2. \A i \in Items : There(l, i) <=> There(l, i)'
      BY <1>4 DEF There
    <3>3. SetExplained(l)'
      BY <1>4, <2>3, <3>1, <3>2 DEF SetExplained, Inv, Explained, ExplainedAt
    <3>4. marked' = Ids(ledger[l])
      BY <1>4, <2>3
    <3>5. MarksExplained(l)'
      BY <1>4, <3>4 DEF MarksExplained, Ids, There
    <3>6. RowsExplained(l)'
      BY <1>4, <2>3 DEF RowsExplained, Listing, Browsing
    <3> QED BY <3>3, <3>5, <3>6 DEF ExplainedAt
  <2> QED BY <2>2, <2>3 DEF ExplainedAt
<1>9. behind' \subseteq Lists /\ \A m \in Lists \ {l} : m \in behind => m \in behind'
  BY <1>4 DEF Inv, TypeOK
<1>10. installed' \in [Lists -> SUBSET Items] /\ running' \subseteq ModLists
  BY <1>4 DEF Inv, TypeOK
<1> QED BY <1>2, <1>4, <1>5, <1>6, <1>7, <1>8, <1>9, <1>10, AnswerKeeps

LEMMA SearchFailedKeeps ==
  ASSUME Inv, NEW s \in Slots, SearchFailed(s)
  PROVE Inv'
<1>1. task[s] # None /\ task[s].op = "search" /\ Over(s)
      /\ loading' \in {FALSE, loading}
      /\ UNCHANGED <<ledger, running, installed, behind, at, of, rows, marked, hits, pick, back>>
  BY DEF SearchFailed, Is, ui
<1>2. PICK l \in Lists : l = task[s].list
  BY <1>1, ListOf
<1>3. GoingOn(s) /\ CheckedFits(s)' /\ \A r \in Slots \ {s} : task'[r] = task[r]
  BY <1>1, EndsGoOn
<1>4. \A m \in Lists : FreshAt(m)
  BY <1>1 DEF FreshAt
<1>5. ExplainedAt(l)'
  <2>1. Keeps(l)
    BY <1>1, <1>3, SlotKeeps
  <2> QED BY <1>1, <1>4, <2>1, FramedAt DEF Inv, Explained
<1>6. ViewTyped'
  BY <1>1 DEF Inv, TypeOK, ViewTyped
<1>7. /\ installed' \in [Lists -> SUBSET Items] /\ running' \subseteq ModLists /\ behind' \subseteq Lists
      /\ \A m \in Lists : m \in behind => m \in behind'
  BY <1>1 DEF Inv, TypeOK
<1> QED BY <1>1, <1>2, <1>3, <1>4, <1>5, <1>6, <1>7, AnswerKeeps

LEMMA ToggledKeeps ==
  ASSUME Inv, NEW s \in Slots, Toggled(s)
  PROVE Inv'
<1>1. task[s] # None /\ task[s].op = "toggle" /\ task[s].stage = "done" /\ Over(s)
  BY DEF Toggled, Is
<1>2. PICK l \in Lists, i \in Items, want \in Row :
        l = task[s].list /\ i = task[s].item /\ want = task[s].want
  BY <1>1, ListOf DEF Task, Inv, TasksInv, Aimed
<1>3. /\ rows' = IF Listing(l) /\ rows[i] # "absent" THEN [rows EXCEPT ![i] = want] ELSE rows
      /\ behind' = IF (Listing(l) /\ rows[i] # "absent" => want = ledger[l][i])
                   THEN behind ELSE behind \cup {l}
      /\ UNCHANGED <<ledger, running, installed, at, of, marked, hits, loading, pick, back>>
  BY <1>2 DEF Toggled, Told
<1>4. ViewTyped'
  BY <1>3 DEF Inv, TypeOK, ViewTyped
<1>5. ASSUME NEW m \in Lists \ {l} PROVE FreshAt(m)
  BY <1>3 DEF FreshAt, Listing, Browsing
<1>6. GoingOn(s) /\ CheckedFits(s)' /\ \A r \in Slots \ {s} : task'[r] = task[r]
  BY <1>1, EndsGoOn
<1>7. ExplainedAt(l)'
  <2> SUFFICES ASSUME l \notin behind'
               PROVE (RowsExplained(l) /\ SetExplained(l) /\ MarksExplained(l))'
    BY DEF ExplainedAt
  <2>1. RowsExplained(l) /\ SetExplained(l) /\ MarksExplained(l)
    BY <1>3 DEF Inv, Explained, ExplainedAt
  <2>2. Refreshing(l) => Refreshing(l)'
    BY <1>1, <1>6 DEF Refreshing, Refreshes
  <2>3. \A j \in Items : Leaving(l, j) => Leaving(l, j)'
    BY <1>1, <1>6 DEF Leaving, Leaves
  <2>4. \A j \in Items \ {i} : Turning(l, j) => Turning(l, j)'
    BY <1>1, <1>2, <1>6 DEF Turning, Turns
  <2>5. \A j \in Items : There(l, j) <=> There(l, j)'
    BY <1>3 DEF There
  <2>6. SetExplained(l)'
    BY <1>3, <2>1, <2>2, <2>3, <2>5 DEF SetExplained
  <2>7. MarksExplained(l)'
    BY <1>3, <2>1, <2>2, <2>3, <2>5 DEF MarksExplained, Browsing, Inv, TypeOK
  <2>8. RowsExplained(l)'
    <3> SUFFICES ASSUME Listing(l), ~Refreshing(l)', NEW j \in Items
                 PROVE \/ rows'[j] = ledger'[l][j] \/ Leaving(l, j)'
                       \/ (rows'[j] # "absent" /\ Turning(l, j)')
      BY <1>3 DEF RowsExplained, Listing
    <3>1. \/ rows[j] = ledger[l][j] \/ Leaving(l, j)
          \/ (rows[j] # "absent" /\ Turning(l, j))
      BY <2>1, <2>2 DEF RowsExplained
    <3>2. CASE j # i
      BY <1>3, <2>3, <2>4, <3>1, <3>2 DEF Inv, TypeOK
    <3>3. CASE j = i /\ rows[i] # "absent"
      BY <1>3, <3>3 DEF Inv, TypeOK
    <3>4. CASE j = i /\ rows[i] = "absent"
      BY <1>3, <2>3, <3>1, <3>4
    <3> QED BY <3>2, <3>3, <3>4
  <2> QED BY <2>6, <2>7, <2>8
<1>8. /\ behind' \subseteq Lists /\ \A m \in Lists \ {l} : m \in behind => m \in behind'
      /\ installed' \in [Lists -> SUBSET Items] /\ running' \subseteq ModLists
  BY <1>3 DEF Inv, TypeOK
<1> QED BY <1>2, <1>3, <1>4, <1>5, <1>6, <1>7, <1>8, AnswerKeeps

LEMMA UninstalledKeeps ==
  ASSUME Inv, NEW s \in Slots, Uninstalled(s)
  PROVE Inv'
<1>1. task[s] # None /\ task[s].op = "uninstall" /\ task[s].stage = "done"
  BY DEF Uninstalled, Is
<1>2. PICK l \in Lists, i \in Items : l = task[s].list /\ i = task[s].item
  BY <1>1, ListOf DEF Inv, TasksInv, Aimed
<1>3. /\ installed' = [installed EXCEPT ![l] = @ \ {i}]
      /\ marked' = IF Browsing(l) THEN marked \ {i} ELSE marked
      /\ behind' = IF ledger[l][i] = "absent" THEN behind ELSE behind \cup {l}
      /\ UNCHANGED <<ledger, running, at, of, hits, loading, pick, back>>
      /\ \/ /\ l \in ModLists /\ Over(s)
            /\ rows' = IF Listing(l) THEN [rows EXCEPT ![i] = "absent"] ELSE rows
         \/ task' = [task EXCEPT ![s] = Fetch(l)] /\ rows' = rows
  BY <1>2 DEF Uninstalled, Forget, Told
<1>4. ViewTyped'
  BY <1>3 DEF Inv, TypeOK, ViewTyped, Row
<1>5. ASSUME NEW m \in Lists \ {l} PROVE FreshAt(m)
  BY <1>3 DEF FreshAt, Listing, Browsing
<1>6. GoingOn(s) /\ CheckedFits(s)' /\ \A r \in Slots \ {s} : task'[r] = task[r]
  BY <1>1, <1>3, EndsGoOn, RefetchGoesOn
<1>7. installed' \in [Lists -> SUBSET Items] /\ installed'[l] = installed[l] \ {i}
      /\ \A m \in Lists \ {l} : installed'[m] = installed[m]
  BY <1>3 DEF Inv, TypeOK
<1>8. ExplainedAt(l)'
  <2> SUFFICES ASSUME l \notin behind'
               PROVE (RowsExplained(l) /\ SetExplained(l) /\ MarksExplained(l))'
    BY DEF ExplainedAt
  <2>1. /\ RowsExplained(l) /\ SetExplained(l) /\ MarksExplained(l)
        /\ ledger'[l][i] = "absent" /\ ledger[l][i] = "absent"
    BY <1>3 DEF Inv, Explained, ExplainedAt
  <2>2. Refreshing(l) => Refreshing(l)'
    BY <1>1, <1>6 DEF Refreshing, Refreshes
  <2>3. \A j \in Items \ {i} : Leaving(l, j) => Leaving(l, j)'
    BY <1>1, <1>2, <1>6 DEF Leaving, Leaves
  <2>4. \A j \in Items : Turning(l, j) => Turning(l, j)'
    BY <1>1, <1>6 DEF Turning, Turns
  <2>5. (\A j \in Items : There(l, j) <=> There(l, j)') /\ ~There(l, i)
    BY <1>3, <2>1 DEF There
  <2>6. SetExplained(l)'
    BY <1>7, <2>1, <2>2, <2>3, <2>5 DEF SetExplained
  <2>7. MarksExplained(l)'
    <3> SUFFICES ASSUME Browsing(l), hits
                 PROVE /\ \A j \in marked' : There(l, j)' \/ Leaving(l, j)'
                       /\ Refreshing(l)' \/ \A j \in Items : There(l, j)' => j \in marked'
      BY <1>3 DEF MarksExplained, Browsing
    <3>1. /\ \A j \in marked : There(l, j) \/ Leaving(l, j)
          /\ Refreshing(l) \/ \A j \in Items : There(l, j) => j \in marked
      BY <2>1 DEF MarksExplained
    <3>2. marked' = marked \ {i} /\ marked \subseteq Items
      BY <1>3 DEF Inv, TypeOK
    <3> QED BY <2>2, <2>3, <2>5, <3>1, <3>2
  <2>8. RowsExplained(l)'
    <3>1. CASE task' = [task EXCEPT ![s] = Fetch(l)]
      <4>1. Refreshes(task'[s], l)
        BY <1>1, <3>1, RefetchGoesOn
      <4>2. Refreshing(l)'
        BY <4>1 DEF Refreshing
      <4> QED BY <4>2 DEF RowsExplained
    <3>2. CASE rows' = IF Listing(l) THEN [rows EXCEPT ![i] = "absent"] ELSE rows
      <4> SUFFICES ASSUME Listing(l), ~Refreshing(l)', NEW j \in Items
                   PROVE \/ rows'[j] = ledger'[l][j] \/ Leaving(l, j)'
                         \/ (rows'[j] # "absent" /\ Turning(l, j)')
        BY <1>3 DEF RowsExplained, Listing
      <4>1. \/ rows[j] = ledger[l][j] \/ Leaving(l, j)
            \/ (rows[j] # "absent" /\ Turning(l, j))
        BY <2>1, <2>2 DEF RowsExplained
      <4>2. CASE j = i
        BY <2>1, <3>2, <4>2 DEF Inv, TypeOK
      <4>3. CASE j # i
        BY <1>3, <2>3, <2>4, <3>2, <4>1, <4>3 DEF Inv, TypeOK
      <4> QED BY <4>2, <4>3
    <3> QED BY <1>3, <3>1, <3>2
  <2> QED BY <2>6, <2>7, <2>8
<1>9. /\ behind' \subseteq Lists /\ \A m \in Lists \ {l} : m \in behind => m \in behind'
      /\ running' \subseteq ModLists
  BY <1>3 DEF Inv, TypeOK
<1> QED BY <1>2, <1>3, <1>4, <1>5, <1>6, <1>7, <1>8, <1>9, AnswerKeeps

LEMMA ModInstallStartedKeeps ==
  ASSUME Inv, NEW s \in Slots, ModInstallStarted(s)
  PROVE Inv'
<1>1. task[s] # None /\ task[s].op = "install" /\ task[s].stage = "asked"
  BY DEF ModInstallStarted, Is
<1>2. PICK l \in Lists : l = task[s].list
  BY <1>1, ListOf
<1>3. /\ l \in ModLists /\ running' = running \cup {l} /\ ShowBrowser(l)
      /\ UNCHANGED <<ledger, installed, behind>>
  BY <1>2 DEF ModInstallStarted
<1>4. PICK t \in Slots :
        task[t] = None /\ task' = [task EXCEPT ![s].stage = "begun", ![t] = Search(l)]
  BY <1>2 DEF ModInstallStarted
<1> DEFINE x == [task[s] EXCEPT !.stage = "begun"]
<1>5. /\ x \in Task /\ x.op = "install" /\ x.list = l /\ x.item = task[s].item
      /\ x.left = task[s].left /\ x.crossed = task[s].crossed /\ x.stage = "begun"
  <2>1. task[s] \in Task
    BY <1>1, ListOf
  <2>2. x \in Task
    BY <2>1 DEF Task
  <2> QED BY <1>1, <1>2, <2>1, <2>2 DEF Task
<1>6. x # None
  BY <1>5, NoTaskIsNone
<1>7. s # t /\ task' = [task EXCEPT ![s] = x, ![t] = Search(l)]
  BY <1>1, <1>4
<1> HIDE DEF x
<1>8. /\ Search(l) \in Task /\ Search(l) # None /\ Search(l).op = "search"
      /\ Search(l).stage = "asked"
  BY QuestionTyped
<1>9. /\ task' \in [Slots -> MaybeTask] /\ task'[s] = x /\ task'[t] = Search(l)
      /\ \A r \in Slots \ {s, t} : task'[r] = task[r]
  BY <1>5, <1>7, <1>8 DEF Inv, TypeOK, MaybeTask
<1>10. GoingOn(s)
  BY <1>1, <1>2, <1>4, <1>5, <1>6, <1>8, <1>9 DEF GoingOn, Changing
<1>11. CheckedFits(s)'
  BY <1>5, <1>9 DEF CheckedFits, Is
<1>12. ViewTyped'
  BY <1>3 DEF ShowBrowser, ViewTyped, Nothing, Row
<1>13. \A m \in Lists : FreshAt(m)
  BY <1>3, BrowserFresh
<1>14. ExplainedAt(l)'
  <2>1. Keeps(l)
    BY <1>1, <1>2, <1>4, <1>5, <1>6, <1>9, SlotKeeps
  <2> QED BY <1>3, <1>13, <2>1, FramedAt DEF Inv, Explained
<1>15. /\ installed' \in [Lists -> SUBSET Items] /\ running' \subseteq ModLists /\ behind' \subseteq Lists
       /\ \A m \in Lists : m \in behind => m \in behind'
  BY <1>3 DEF Inv, TypeOK
<1> QED BY <1>2, <1>3, <1>10, <1>11, <1>12, <1>13, <1>14, <1>15, AnswerKeeps

LEMMA ModInstalledKeeps ==
  ASSUME Inv, NEW s \in Slots, ModInstalled(s)
  PROVE Inv'
<1>1. task[s] # None /\ task[s].op = "install" /\ Over(s)
  BY DEF ModInstalled, Is
<1>2. PICK l \in Lists, i \in Items : l = task[s].list /\ i = task[s].item
  BY <1>1, ListOf DEF Inv, TasksInv, Aimed
<1>3. /\ running' = running \ {l}
      /\ installed' = [installed EXCEPT ![l] = @ \cup {i}]
      /\ marked' = IF Browsing(l) /\ hits THEN marked \cup {i} ELSE marked
      /\ behind' = IF ~Listing(l) /\ installed'[l] = Ids(ledger[l])
                      /\ (Browsing(l) /\ hits => marked' = installed'[l])
                   THEN behind ELSE behind \cup {l}
      /\ UNCHANGED <<ledger, at, of, rows, hits, loading, pick, back>>
  BY <1>2 DEF ModInstalled, Told
<1>4. ViewTyped'
  BY <1>3 DEF Inv, TypeOK, ViewTyped
<1>5. ASSUME NEW m \in Lists \ {l} PROVE FreshAt(m)
  BY <1>3 DEF FreshAt, Listing, Browsing
<1>6. GoingOn(s) /\ CheckedFits(s)'
  BY <1>1, EndsGoOn
<1>7. installed' \in [Lists -> SUBSET Items]
      /\ \A m \in Lists \ {l} : installed'[m] = installed[m]
  BY <1>3 DEF Inv, TypeOK
<1>8. ExplainedAt(l)'
  <2> SUFFICES ASSUME l \notin behind'
               PROVE (RowsExplained(l) /\ SetExplained(l) /\ MarksExplained(l))'
    BY DEF ExplainedAt
  <2>1. /\ ~Listing(l) /\ installed'[l] = Ids(ledger[l])
        /\ (Browsing(l) /\ hits => marked' = installed'[l])
    BY <1>3
  <2>2. \A j \in Items : There(l, j)' <=> j \in Ids(ledger[l])
    BY <1>3 DEF There, Ids
  <2>3. Ids(ledger[l]) \subseteq Items
    BY DEF Ids
  <2>4. RowsExplained(l)'
    BY <1>3, <2>1 DEF RowsExplained, Listing
  <2>5. SetExplained(l)'
    BY <2>1, <2>2 DEF SetExplained
  <2>6. MarksExplained(l)'
    BY <1>3, <2>1, <2>2, <2>3 DEF MarksExplained, Browsing
  <2> QED BY <2>4, <2>5, <2>6
<1>9. /\ behind' \subseteq Lists /\ \A m \in Lists \ {l} : m \in behind => m \in behind'
      /\ running' \subseteq ModLists
  BY <1>3 DEF Inv, TypeOK
<1> QED BY <1>2, <1>3, <1>4, <1>5, <1>6, <1>7, <1>8, <1>9, AnswerKeeps

LEMMA PackInstalledKeeps ==
  ASSUME Inv, NEW s \in Slots, PackInstalled(s)
  PROVE Inv'
<1>1. /\ task[s] # None /\ task[s].op \in {"install", "drop"} /\ task[s].stage = "done"
      /\ task' = [task EXCEPT ![s] = Fetch(task[s].list)]
      /\ UNCHANGED <<ledger, running, installed, behind, view>>
  BY DEF PackInstalled, Is, ui
<1>2. PICK l \in Lists : l = task[s].list
  BY <1>1, ListOf
<1>3. /\ GoingOn(s) /\ CheckedFits(s)' /\ Refreshes(task'[s], l)
      /\ \A r \in Slots \ {s} : task'[r] = task[r]
  BY <1>1, <1>2, RefetchGoesOn
<1>4. \A m \in Lists : Keeps(m)
  BY <1>1, <1>2, <1>3 DEF Keeps, KeepsRefreshing, KeepsLeaving, KeepsTurning, Refreshes, Leaves, Turns
<1> QED BY <1>1, <1>3, <1>4, WorkKeeps DEF Inv, TypeOK

LEMMA InstallFailedKeeps ==
  ASSUME Inv, NEW s \in Slots, InstallFailed(s)
  PROVE Inv'
<1>1. task[s] # None /\ task[s].op = "install" /\ Over(s)
  BY DEF InstallFailed, Is
<1>2. PICK l \in Lists : l = task[s].list
  BY <1>1, ListOf
<1>3. /\ running' \subseteq running
      /\ at' = "failed" /\ of' = l /\ rows' = Nothing /\ marked' = {} /\ hits' = FALSE
      /\ loading' = FALSE /\ pick' = None /\ back' \in {"browser", "list"}
      /\ behind' = IF installed[l] = Ids(ledger[l]) THEN behind ELSE behind \cup {l}
      /\ ledger' = ledger /\ installed' = installed
  BY <1>2 DEF InstallFailed, Told
<1>4. ViewTyped'
  BY <1>3 DEF ViewTyped, Nothing, Row
<1>5. \A m \in Lists : FreshAt(m)
  BY <1>3 DEF FreshAt, Listing, Browsing
<1>6. GoingOn(s) /\ CheckedFits(s)'
  BY <1>1, EndsGoOn
<1>7. ExplainedAt(l)'
  <2>1. l \notin behind' => installed'[l] = Ids(ledger'[l])
    BY <1>3
  <2>2. l \notin behind' => SetExplained(l)'
    BY <2>1 DEF SetExplained, There, Ids
  <2>3. RowsExplained(l)' /\ MarksExplained(l)'
    BY <1>3 DEF RowsExplained, MarksExplained, Listing, Browsing
  <2> QED BY <2>2, <2>3 DEF ExplainedAt
<1>8. /\ behind' \subseteq Lists /\ \A m \in Lists \ {l} : m \in behind => m \in behind'
      /\ running' \subseteq ModLists /\ installed' \in [Lists -> SUBSET Items]
  BY <1>3 DEF Inv, TypeOK
<1> QED BY <1>2, <1>3, <1>4, <1>5, <1>6, <1>7, <1>8, AnswerKeeps

LEMMA AnswersKeep ==
  ASSUME Inv, NEW s \in Slots, Answer(s)
  PROVE Inv'
BY LoadedKeeps, SearchLoadedKeeps, SearchFailedKeeps, ToggledKeeps, UninstalledKeeps,
   ModInstallStartedKeeps, ModInstalledKeeps, PackInstalledKeeps, InstallFailedKeeps, FailKeeps
   DEF Answer

-----------------------------------------------------------------------------
(* The invariant, and what it gives. *)

LEMMA ListsInit ==
  Init => Inv
<1> SUFFICES ASSUME Init PROVE Inv
  OBVIOUS
<1>1. TypeOK
  <2>1. ledger \in [Lists -> [Items -> Row]]
    <3>1. \A l \in Lists : ledger[l] \in [Items -> Row]
      BY DEF Init, Row
    <3> QED BY <3>1 DEF Init
  <2>2. Nothing \in [Items -> Row]
    BY DEF Nothing, Row
  <2> QED BY <2>1, <2>2 DEF Init, TypeOK
<1>2. TasksInv
  BY DEF Init, TasksInv, Aimed, RivalsCrossed, CheckedTurns, CheckedFits, Changing, Is
<1>3. Explained
  BY DEF Init, Explained, ExplainedAt
<1> QED BY <1>1, <1>2, <1>3 DEF Inv

LEMMA ListsStep ==
  Inv /\ [Next]_vars => Inv'
<1> SUFFICES ASSUME Inv, [Next]_vars PROVE Inv'
  OBVIOUS
<1>1. CASE UNCHANGED vars
  <2>1. /\ ledger' = ledger /\ task' = task /\ running' = running /\ installed' = installed
        /\ at' = at /\ of' = of /\ rows' = rows /\ marked' = marked /\ hits' = hits
        /\ loading' = loading /\ pick' = pick /\ back' = back /\ behind' = behind
    BY <1>1 DEF vars
  <2>2. Asking
    BY <2>1 DEF Asking, Inv, TypeOK, MaybeTask
  <2>3. \A l \in Lists : FreshAt(l)
    BY <2>1 DEF FreshAt
  <2> QED BY <2>1, <2>2, <2>3, KeyKeeps DEF Inv, TypeOK, still
<1>2. CASE Keys
  BY <1>2, KeysKeep
<1>3. ASSUME NEW s \in Slots, Work(s) \/ Answer(s) PROVE Inv'
  BY <1>3, WorksKeep, AnswersKeep
<1> QED BY <1>1, <1>2, <1>3 DEF Next

(* The variables keep their types, a view is about a list, and a confirmation names
   what it removes (AppState.view and the fields beside it, tui/app.rs). *)
THEOREM TypeCorrect ==
  Spec => []TypeOK
<1>1. Inv => TypeOK
  BY DEF Inv
<1> QED BY <1>1, ListsInit, ListsStep, PTL DEF Spec

(* A list that is shown agrees with the ledger when no task of the list is under way,
   unless an answer was out of date or untrue when it came (InstalledModsLoaded,
   ModToggled, ModUninstalled and their like for packs, tui/app.rs). *)
THEOREM ListShownIsCurrent ==
  Spec => []ListIsCurrent
<1>1. ASSUME Inv PROVE ListIsCurrent
  <2> SUFFICES ASSUME at = "list", Quiet(of), of \notin behind PROVE rows = ledger[of]
    BY DEF ListIsCurrent
  <2>1. PICK l \in Lists : l = of
    BY <1>1 DEF Inv, TypeOK
  <2>2. /\ ~Refreshing(l) /\ \A i \in Items : ~Leaving(l, i) /\ ~Turning(l, i)
    BY <2>1 DEF Quiet, Refreshing, Refreshes, Leaving, Leaves, Turning, Turns
  <2>3. \A i \in Items : rows[i] = ledger[l][i]
    BY <1>1, <2>1, <2>2 DEF Inv, Explained, ExplainedAt, RowsExplained, Listing
  <2> QED BY <1>1, <2>1, <2>3 DEF Inv, TypeOK
<1> QED BY <1>1, ListsInit, ListsStep, PTL DEF Spec

(* The set of installed ids, and the marks of the results shown, agree with the ledger
   under the same conditions (installed_mod_project_ids, installed_pack_project_ids,
   ModSearchLoaded and PackSearchLoaded, tui/app.rs). *)
THEOREM SetAndMarksAreCurrent ==
  Spec => []MarksAreCurrent
<1>1. ASSUME Inv PROVE MarksAreCurrent
  <2> SUFFICES ASSUME NEW l \in Lists, l \notin behind, Quiet(l)
               PROVE /\ installed[l] = Ids(ledger[l])
                     /\ Browsing(l) /\ hits => marked = installed[l]
    BY DEF MarksAreCurrent
  <2>1. /\ ~Refreshing(l) /\ \A i \in Items : ~Leaving(l, i)
    BY DEF Quiet, Refreshing, Refreshes, Leaving, Leaves
  <2>2. installed[l] \subseteq Items /\ marked \subseteq Items
    BY <1>1 DEF Inv, TypeOK
  <2>3. installed[l] = Ids(ledger[l])
    <3>1. \A i \in Items : i \in installed[l] <=> There(l, i)
      BY <1>1, <2>1 DEF Inv, Explained, ExplainedAt, SetExplained
    <3> QED BY <2>2, <3>1 DEF There, Ids
  <2>4. ASSUME Browsing(l), hits PROVE marked = Ids(ledger[l])
    <3>1. \A i \in Items : i \in marked <=> There(l, i)
      BY <1>1, <2>1, <2>4 DEF Inv, Explained, ExplainedAt, MarksExplained
    <3> QED BY <2>2, <3>1 DEF There, Ids
  <2> QED BY <2>3, <2>4
<1> QED BY <1>1, ListsInit, ListsStep, PTL DEF Spec

(* enable_mod and disable_mod (mods/service.rs) give the mod the state they were asked
   for, however old the list was that the key was pressed on: they look before they
   turn, and only another change of the mod at the same time can come between. *)
THEOREM ModsGetWhatWasAsked ==
  Spec => WantKept
<1>1. ASSUME Inv
      PROVE \A s \in Slots :
              Turn(s) /\ task[s].list \in ModLists /\ ~task[s].crossed =>
                ledger'[task[s].list][task[s].item] = task[s].want
  <2> SUFFICES ASSUME NEW s \in Slots, Turn(s), task[s].list \in ModLists, ~task[s].crossed
               PROVE ledger'[task[s].list][task[s].item] = task[s].want
    OBVIOUS
  <2>1. Is(s, "toggle", "checked") /\ ledger[task[s].list][task[s].item] # "absent"
    BY DEF Turn
  <2>2. /\ task[s].list \in Lists /\ task[s].item \in Items
        /\ task[s].want \in {"on", "off"}
    BY <1>1, <2>1, ListOf DEF Is, Task, Row, Inv, TasksInv, Aimed
  <2>3. ledger[task[s].list][task[s].item] = Flip(task[s].want)
    BY <1>1, <2>1 DEF Inv, TasksInv, CheckedTurns, CheckedFits
  <2>4. ledger'[task[s].list][task[s].item] = Flip(ledger[task[s].list][task[s].item])
    BY <1>1, <2>2 DEF Turn, SetRow, Inv, TypeOK
  <2> QED BY <2>2, <2>3, <2>4 DEF Flip
<1> QED BY <1>1, ListsInit, ListsStep, PTL DEF Spec, WantKept
=============================================================================
