--------------------------- MODULE TournamentsProof ---------------------------
(***************************************************************************)
(* Safety of module Tournaments for every number of tournaments, users and *)
(* concurrent requests, with and without failures.                         *)
(***************************************************************************)
EXTENDS MCTournaments, TLAPS, FiniteSetTheorems, SequenceTheorems

-----------------------------------------------------------------------------
(***************************************************************************)
(* What is left to do                                                      *)
(***************************************************************************)

\* What may be left of the steps of each kind of request.
Left ==
  [create   |-> {<<"insert">>},
   delete   |-> {<<"delete", "broadcast">>, <<"broadcast">>},
   names    |-> {<<"update", "reload">>, <<"reload">>},
   change   |-> {<<"update", "broadcast", "reload">>, <<"broadcast", "reload">>, <<"reload">>},
   generate |-> {<<"update", "broadcast", "list">>, <<"broadcast", "list">>, <<"list">>},
   result   |-> {<<"update", "reload", "broadcast">>, <<"reload", "broadcast">>, <<"broadcast">>},
   rollback |-> {<<"update", "broadcast", "reload">>, <<"broadcast", "reload">>, <<"reload">>}]

LEMMA KindsAre == Kinds = {"create", "delete", "names", "change", "generate", "result", "rollback"}
BY DEF Kinds, Steps

LEMMA Tails ==
  ASSUME NEW a, NEW b, NEW c
  PROVE  /\ Head(<<a>>) = a /\ Head(<<a, b>>) = a /\ Head(<<a, b, c>>) = a
         /\ Tail(<<a>>) = << >> /\ Tail(<<a, b>>) = <<b>> /\ Tail(<<a, b, c>>) = <<b, c>>
         /\ <<a>> # << >> /\ <<a, b>> # << >> /\ <<a, b, c>> # << >>
<1>1. Head(<<a>>) = a /\ Head(<<a, b>>) = a /\ Head(<<a, b, c>>) = a
  OBVIOUS
<1>2. Tail(<<a>>) = << >>
  OBVIOUS
<1>3. Tail(<<a, b>>) = <<b>>
  OBVIOUS
<1>4. Tail(<<a, b, c>>) = <<b, c>>
  OBVIOUS
<1>5. <<a>> # << >> /\ <<a, b>> # << >> /\ <<a, b, c>> # << >>
  OBVIOUS
<1> QED
  BY <1>1, <1>2, <1>3, <1>4, <1>5

\* What is left of a sequence after one and after two steps.
LEMMA Ends ==
  ASSUME NEW S, NEW s \in Seq(S), s # << >>
  PROVE  /\ \E n \in 1..Len(s) : s = SubSeq(s, n, Len(s))
         /\ Tail(s) # << >> => \E n \in 1..Len(s) : Tail(s) = SubSeq(s, n, Len(s))
         /\ Tail(s) # << >> /\ Tail(Tail(s)) # << >> =>
              \E n \in 1..Len(s) : Tail(Tail(s)) = SubSeq(s, n, Len(s))
<1>1. Len(s) \in Nat \ {0}
  BY EmptySeq
<1>2. s = SubSeq(s, 1, Len(s)) /\ 1 \in 1..Len(s)
  BY <1>1, SubSeqFull
<1>3. Tail(s) = SubSeq(s, 2, Len(s))
  BY TailIsSubSeq
<1>4. ASSUME Tail(s) # << >> PROVE 2 \in 1..Len(s)
  BY <1>1, <1>3, <1>4, SubSeqEmpty
<1>5. ASSUME Tail(s) # << >>, Tail(Tail(s)) # << >>
      PROVE  Tail(Tail(s)) = SubSeq(s, 3, Len(s)) /\ 3 \in 1..Len(s)
  <2>1. Tail(Tail(s)) = SubSeq(s, 3, Len(s))
    BY <1>1, <1>3, <1>4, <1>5, HeadTailOfSubSeq
  <2> QED
    BY <1>1, <1>5, <2>1, SubSeqEmpty
<1> QED
  BY <1>2, <1>3, <1>4, <1>5

LEMMA LeftOf ==
  ASSUME NEW k \in Kinds, NEW s \in Left[k]
  PROVE  \E n \in 1..Len(Steps[k]) : s = SubSeq(Steps[k], n, Len(Steps[k]))
<1>1. PICK S : Steps[k] \in Seq(S) /\ Steps[k] # << >>
  <2>1. CASE k = "create"
    <3>1. Steps[k] = <<"insert">>
      BY <2>1 DEF Steps
    <3>2. <<"insert">> \in Seq({"insert"})
      OBVIOUS
    <3>3. Steps[k] # << >>
      BY <3>1, Tails
    <3> QED
      BY <3>1, <3>2, <3>3, Zenon
  <2>2. CASE k = "delete"
    <3>1. Steps[k] = <<"delete", "broadcast">>
      BY <2>2 DEF Steps
    <3>2. <<"delete", "broadcast">> \in Seq({"delete", "broadcast"})
      OBVIOUS
    <3>3. Steps[k] # << >>
      BY <3>1, Tails
    <3> QED
      BY <3>1, <3>2, <3>3, Zenon
  <2>3. CASE k = "names"
    <3>1. Steps[k] = <<"update", "reload">>
      BY <2>3 DEF Steps
    <3>2. <<"update", "reload">> \in Seq({"update", "reload"})
      OBVIOUS
    <3>3. Steps[k] # << >>
      BY <3>1, Tails
    <3> QED
      BY <3>1, <3>2, <3>3, Zenon
  <2>4. CASE k = "change"
    <3>1. Steps[k] = <<"update", "broadcast", "reload">>
      BY <2>4 DEF Steps
    <3>2. <<"update", "broadcast", "reload">> \in Seq({"update", "broadcast", "reload"})
      OBVIOUS
    <3>3. Steps[k] # << >>
      BY <3>1, Tails
    <3> QED
      BY <3>1, <3>2, <3>3, Zenon
  <2>5. CASE k = "generate"
    <3>1. Steps[k] = <<"update", "broadcast", "list">>
      BY <2>5 DEF Steps
    <3>2. <<"update", "broadcast", "list">> \in Seq({"update", "broadcast", "list"})
      OBVIOUS
    <3>3. Steps[k] # << >>
      BY <3>1, Tails
    <3> QED
      BY <3>1, <3>2, <3>3, Zenon
  <2>6. CASE k = "result"
    <3>1. Steps[k] = <<"update", "reload", "broadcast">>
      BY <2>6 DEF Steps
    <3>2. <<"update", "reload", "broadcast">> \in Seq({"update", "reload", "broadcast"})
      OBVIOUS
    <3>3. Steps[k] # << >>
      BY <3>1, Tails
    <3> QED
      BY <3>1, <3>2, <3>3, Zenon
  <2>7. CASE k = "rollback"
    <3>1. Steps[k] = <<"update", "broadcast", "reload">>
      BY <2>7 DEF Steps
    <3>2. <<"update", "broadcast", "reload">> \in Seq({"update", "broadcast", "reload"})
      OBVIOUS
    <3>3. Steps[k] # << >>
      BY <3>1, Tails
    <3> QED
      BY <3>1, <3>2, <3>3, Zenon
  <2> QED
    BY <2>1, <2>2, <2>3, <2>4, <2>5, <2>6, <2>7, KindsAre
<1>2. \/ s = Steps[k]
      \/ s = Tail(Steps[k]) /\ Tail(Steps[k]) # << >>
      \/ s = Tail(Tail(Steps[k])) /\ Tail(Steps[k]) # << >> /\ Tail(Tail(Steps[k])) # << >>
  <2>1. CASE k = "create"
    BY <2>1 DEF Steps, Left
  <2>2. CASE k = "delete"
    BY <2>2, Tails DEF Steps, Left
  <2>3. CASE k = "names"
    BY <2>3, Tails DEF Steps, Left
  <2>4. CASE k = "change"
    BY <2>4, Tails DEF Steps, Left
  <2>5. CASE k = "generate"
    BY <2>5, Tails DEF Steps, Left
  <2>6. CASE k = "result"
    BY <2>6, Tails DEF Steps, Left
  <2>7. CASE k = "rollback"
    BY <2>7, Tails DEF Steps, Left
  <2> QED
    BY <2>1, <2>2, <2>3, <2>4, <2>5, <2>6, <2>7, KindsAre
<1> QED
  BY <1>1, <1>2, Ends

\* Which step is next, for which kinds of request.
LEMMA Todo ==
  ASSUME NEW k \in Kinds, NEW s \in Left[k]
  PROVE  /\ s # << >>
         /\ Tail(s) # << >> => /\ Tail(s) \in Left[k]
                               /\ Head(Tail(s)) \in {"broadcast", "reload", "list"}
         /\ Head(s) = "insert" <=> k = "create"
         /\ Head(s) = "insert" => Tail(s) = << >>
         /\ Head(s) = "delete" => k = "delete" /\ Tail(s) # << >>
         /\ Head(s) = "update" => k # "delete" /\ Tail(s) # << >>
         /\ Head(s) = "broadcast" => /\ k # "names"
                                     /\ k = "delete" => Tail(s) = << >>
                                     /\ k \in {"change", "rollback"} => Tail(s) # << >>
         /\ Head(s) = "reload" => k \in {"names", "change", "result", "rollback"}
         /\ Head(s) = "list" => k = "generate"
         /\ Head(s) \in {"insert", "delete", "update", "broadcast", "reload", "list"}
<1>1. CASE k = "create"
  <2>1. s \in {<<"insert">>}
    BY <1>1 DEF Left
  <2>2. CASE s = <<"insert">>
    <3>1. s # << >> /\ Head(s) = "insert" /\ Tail(s) = << >>
      BY <2>2, Tails
    <3> QED
      BY <1>1, <3>1 DEF Left
  <2> QED
    BY <2>1, <2>2
<1>2. CASE k = "delete"
  <2>1. s \in {<<"delete", "broadcast">>, <<"broadcast">>}
    BY <1>2 DEF Left
  <2>2. CASE s = <<"delete", "broadcast">>
    <3>1. s # << >> /\ Head(s) = "delete" /\ Tail(s) = <<"broadcast">> /\ Tail(s) # << >> /\ Head(Tail(s)) = "broadcast"
      BY <2>2, Tails
    <3> QED
      BY <1>2, <3>1 DEF Left
  <2>3. CASE s = <<"broadcast">>
    <3>1. s # << >> /\ Head(s) = "broadcast" /\ Tail(s) = << >>
      BY <2>3, Tails
    <3> QED
      BY <1>2, <3>1 DEF Left
  <2> QED
    BY <2>1, <2>2, <2>3
<1>3. CASE k = "names"
  <2>1. s \in {<<"update", "reload">>, <<"reload">>}
    BY <1>3 DEF Left
  <2>2. CASE s = <<"update", "reload">>
    <3>1. s # << >> /\ Head(s) = "update" /\ Tail(s) = <<"reload">> /\ Tail(s) # << >> /\ Head(Tail(s)) = "reload"
      BY <2>2, Tails
    <3> QED
      BY <1>3, <3>1 DEF Left
  <2>3. CASE s = <<"reload">>
    <3>1. s # << >> /\ Head(s) = "reload" /\ Tail(s) = << >>
      BY <2>3, Tails
    <3> QED
      BY <1>3, <3>1 DEF Left
  <2> QED
    BY <2>1, <2>2, <2>3
<1>4. CASE k = "change"
  <2>1. s \in {<<"update", "broadcast", "reload">>, <<"broadcast", "reload">>, <<"reload">>}
    BY <1>4 DEF Left
  <2>2. CASE s = <<"update", "broadcast", "reload">>
    <3>1. s # << >> /\ Head(s) = "update" /\ Tail(s) = <<"broadcast", "reload">> /\ Tail(s) # << >> /\ Head(Tail(s)) = "broadcast"
      BY <2>2, Tails
    <3> QED
      BY <1>4, <3>1 DEF Left
  <2>3. CASE s = <<"broadcast", "reload">>
    <3>1. s # << >> /\ Head(s) = "broadcast" /\ Tail(s) = <<"reload">> /\ Tail(s) # << >> /\ Head(Tail(s)) = "reload"
      BY <2>3, Tails
    <3> QED
      BY <1>4, <3>1 DEF Left
  <2>4. CASE s = <<"reload">>
    <3>1. s # << >> /\ Head(s) = "reload" /\ Tail(s) = << >>
      BY <2>4, Tails
    <3> QED
      BY <1>4, <3>1 DEF Left
  <2> QED
    BY <2>1, <2>2, <2>3, <2>4
<1>5. CASE k = "generate"
  <2>1. s \in {<<"update", "broadcast", "list">>, <<"broadcast", "list">>, <<"list">>}
    BY <1>5 DEF Left
  <2>2. CASE s = <<"update", "broadcast", "list">>
    <3>1. s # << >> /\ Head(s) = "update" /\ Tail(s) = <<"broadcast", "list">> /\ Tail(s) # << >> /\ Head(Tail(s)) = "broadcast"
      BY <2>2, Tails
    <3> QED
      BY <1>5, <3>1 DEF Left
  <2>3. CASE s = <<"broadcast", "list">>
    <3>1. s # << >> /\ Head(s) = "broadcast" /\ Tail(s) = <<"list">> /\ Tail(s) # << >> /\ Head(Tail(s)) = "list"
      BY <2>3, Tails
    <3> QED
      BY <1>5, <3>1 DEF Left
  <2>4. CASE s = <<"list">>
    <3>1. s # << >> /\ Head(s) = "list" /\ Tail(s) = << >>
      BY <2>4, Tails
    <3> QED
      BY <1>5, <3>1 DEF Left
  <2> QED
    BY <2>1, <2>2, <2>3, <2>4
<1>6. CASE k = "result"
  <2>1. s \in {<<"update", "reload", "broadcast">>, <<"reload", "broadcast">>, <<"broadcast">>}
    BY <1>6 DEF Left
  <2>2. CASE s = <<"update", "reload", "broadcast">>
    <3>1. s # << >> /\ Head(s) = "update" /\ Tail(s) = <<"reload", "broadcast">> /\ Tail(s) # << >> /\ Head(Tail(s)) = "reload"
      BY <2>2, Tails
    <3> QED
      BY <1>6, <3>1 DEF Left
  <2>3. CASE s = <<"reload", "broadcast">>
    <3>1. s # << >> /\ Head(s) = "reload" /\ Tail(s) = <<"broadcast">> /\ Tail(s) # << >> /\ Head(Tail(s)) = "broadcast"
      BY <2>3, Tails
    <3> QED
      BY <1>6, <3>1 DEF Left
  <2>4. CASE s = <<"broadcast">>
    <3>1. s # << >> /\ Head(s) = "broadcast" /\ Tail(s) = << >>
      BY <2>4, Tails
    <3> QED
      BY <1>6, <3>1 DEF Left
  <2> QED
    BY <2>1, <2>2, <2>3, <2>4
<1>7. CASE k = "rollback"
  <2>1. s \in {<<"update", "broadcast", "reload">>, <<"broadcast", "reload">>, <<"reload">>}
    BY <1>7 DEF Left
  <2>2. CASE s = <<"update", "broadcast", "reload">>
    <3>1. s # << >> /\ Head(s) = "update" /\ Tail(s) = <<"broadcast", "reload">> /\ Tail(s) # << >> /\ Head(Tail(s)) = "broadcast"
      BY <2>2, Tails
    <3> QED
      BY <1>7, <3>1 DEF Left
  <2>3. CASE s = <<"broadcast", "reload">>
    <3>1. s # << >> /\ Head(s) = "broadcast" /\ Tail(s) = <<"reload">> /\ Tail(s) # << >> /\ Head(Tail(s)) = "reload"
      BY <2>3, Tails
    <3> QED
      BY <1>7, <3>1 DEF Left
  <2>4. CASE s = <<"reload">>
    <3>1. s # << >> /\ Head(s) = "reload" /\ Tail(s) = << >>
      BY <2>4, Tails
    <3> QED
      BY <1>7, <3>1 DEF Left
  <2> QED
    BY <2>1, <2>2, <2>3, <2>4
<1> QED
  BY <1>1, <1>2, <1>3, <1>4, <1>5, <1>6, <1>7, KindsAre

-----------------------------------------------------------------------------
(***************************************************************************)
(* Requests                                                                *)
(***************************************************************************)

\* What a request in flight looks like: it is about one tournament, and the
\* status it is to write fits its kind.
Targets == Statuses \cup {"same", "deleted"}
Todos == UNION {Left[k] : k \in Kinds}
Request == [by : Actors \cup {Nobody}, kind : Kinds \cup {"none"}, todo : Todos \cup {<< >>},
            ids : SUBSET Ids, to : Targets \cup {"new"}]

Fits(kind, to) ==
  /\ to \in Targets
  /\ kind = "delete" <=> to = "deleted"
  /\ kind = "create" => to = "setup"

Working(r) ==
  /\ r.by \in Actors
  /\ r.kind \in Kinds
  /\ r.todo \in Left[r.kind]
  /\ \E t \in Ids : r.ids = {t}
  /\ Fits(r.kind, r.to)

\* The invariant that implies TypeOK.
TypeInv ==
  /\ status \in [Ids -> Statuses \cup {"new", "deleted"}]
  /\ owner \in [Ids -> SUBSET Users]
  /\ room \in [Ids -> {"new", "updated", "deleted"}]
  /\ req \in [Clients -> Request]
  /\ \A c \in Clients : Idles(c) \/ Working(req[c])
  /\ answer \in Codes \cup {0}

\* How the request of c may be left by a step: answered, or one step on.
Others(c) == \A d \in Clients \ {c} : req'[d] = req[d]
Answered(c) == req'[c] = Idle
Onward(c) ==
  /\ req'[c] # Idle
  /\ req'[c].by = req[c].by /\ req'[c].kind = req[c].kind
  /\ req'[c].ids = req[c].ids /\ req'[c].to = req[c].to
  /\ req'[c].todo = Tail(req[c].todo) /\ Tail(req[c].todo) # << >>
  /\ answer' = 0

LEMMA StatusesAre ==
  Statuses = {"setup", "teams_generated", "group_stage", "playoffs", "finished"}
BY DEF Statuses, Life!Statuses

LEMMA IdleFields ==
  /\ Idle \in Request
  /\ Idle.todo = << >> /\ Idle.ids = {} /\ Idle.kind = "none"
<1>1. << >> \in Todos \cup {<< >>} /\ {} \in SUBSET Ids
  OBVIOUS
<1> QED
  BY <1>1 DEF Idle, Request

LEMMA WorkingTodo ==
  ASSUME NEW r, Working(r)
  PROVE  r.todo # << >> /\ r # Idle
<1>1. r.kind \in Kinds /\ r.todo \in Left[r.kind]
  BY DEF Working
<1>2. r.todo # << >>
  BY <1>1, Todo
<1> QED
  BY <1>2, IdleFields

LEMMA StepsLeft ==
  ASSUME NEW k \in Kinds
  PROVE  Steps[k] \in Left[k]
BY KindsAre DEF Steps, Left

LEMMA LeftIsTodo ==
  ASSUME NEW k \in Kinds, NEW s \in Left[k]
  PROVE  s \in Todos
BY DEF Todos

\* After the answer, the request is gone.
LEMMA AfterAnswer ==
  ASSUME req \in [Clients -> Request], NEW c \in Clients, NEW code, Answer(c, code)
  PROVE  /\ req' \in [Clients -> Request]
         /\ Others(c) /\ Answered(c) /\ answer' = code
BY IdleFields DEF Answer, Others, Answered

\* After the beginning, it is the request that was asked for.
LEMMA AfterBegin ==
  ASSUME req \in [Clients -> Request], NEW c \in Clients, NEW by \in Actors, NEW kind \in Kinds,
         NEW t \in Ids, NEW to, Fits(kind, to), Begin(c, by, kind, {t}, to)
  PROVE  /\ req' \in [Clients -> Request]
         /\ Others(c) /\ Working(req'[c]) /\ answer' = 0
         /\ req'[c].by = by /\ req'[c].kind = kind /\ req'[c].ids = {t} /\ req'[c].to = to
         /\ req'[c].todo = Steps[kind]
<1> DEFINE r == [by |-> by, kind |-> kind, todo |-> Steps[kind], ids |-> {t}, to |-> to]
<1>1. Steps[kind] \in Left[kind] /\ Steps[kind] \in Todos
  BY StepsLeft, LeftIsTodo
<1>2. r \in Request /\ r.by = by /\ r.kind = kind /\ r.ids = {t} /\ r.to = to /\ r.todo = Steps[kind]
  BY <1>1 DEF Request, Fits
<1>3. Working(r)
  BY <1>1, <1>2 DEF Working
<1>4. req' = [req EXCEPT ![c] = r] /\ answer' = 0
  BY DEF Begin
<1> HIDE DEF r
<1>5. req'[c] = r /\ Others(c) /\ req' \in [Clients -> Request]
  BY <1>2, <1>4 DEF Others
<1> QED
  BY <1>2, <1>3, <1>4, <1>5

\* After a step, it is answered or has the rest to do.
LEMMA AfterDone ==
  ASSUME req \in [Clients -> Request], NEW c \in Clients, Working(req[c]), NEW code, Done(c, code)
  PROVE  /\ req' \in [Clients -> Request]
         /\ Others(c)
         /\ \/ Answered(c) /\ answer' = code /\ Tail(req[c].todo) = << >>
            \/ Onward(c) /\ Working(req'[c])
<1>1. CASE Rest(c) = << >>
  BY <1>1, AfterAnswer DEF Done, Rest
<1>2. CASE Rest(c) # << >>
  <2>1. req' = [req EXCEPT ![c].todo = Rest(c)] /\ answer' = 0
    BY <1>2 DEF Done
  <2>2. Rest(c) \in Left[req[c].kind] /\ Rest(c) \in Todos
    BY <1>2, Todo, LeftIsTodo DEF Working, Rest
  <2> DEFINE r == [req[c] EXCEPT !.todo = Rest(c)]
  <2>3. req[c] \in Request
    OBVIOUS
  <2>4. /\ r \in Request /\ r.by = req[c].by /\ r.kind = req[c].kind /\ r.ids = req[c].ids
        /\ r.to = req[c].to /\ r.todo = Rest(c)
    BY <2>2, <2>3 DEF Request
  <2>5. req' = [req EXCEPT ![c] = r]
    BY <2>1
  <2> HIDE DEF r
  <2>6. req'[c] = r /\ Others(c) /\ req' \in [Clients -> Request]
    BY <2>4, <2>5 DEF Others
  <2>7. Working(r)
    BY <2>2, <2>4 DEF Working
  <2>8. r # Idle
    BY <2>7, WorkingTodo
  <2> QED
    BY <1>2, <2>1, <2>4, <2>6, <2>7, <2>8 DEF Onward, Rest
<1> QED
  BY <1>1, <1>2

-----------------------------------------------------------------------------
(***************************************************************************)
(* The steps                                                               *)
(***************************************************************************)

\* Requests that are answered without a change: everybody keeps what it has.
Quick == UNCHANGED <<status, owner, room, req>> /\ answer' \in Codes

\* A request that passed its checks.
Starting(c) ==
  /\ Idles(c) /\ Working(req'[c]) /\ Others(c) /\ answer' = 0
  /\ req'[c].todo = Steps[req'[c].kind]
  /\ \A t \in req'[c].ids :
       IF req'[c].kind = "create"
       THEN /\ status[t] = "new" /\ Active = {} /\ req'[c].by.isAdmin
            /\ \A d \in Clients : t \notin req[d].ids
       ELSE status[t] \in Statuses /\ Authorized(t, req'[c].by)
  /\ UNCHANGED <<status, owner, room>>

\* One whose database call failed.
Failing(c) ==
  /\ ~Idles(c) /\ ~At(c, "broadcast")
  /\ Others(c) /\ Answered(c) /\ answer' = 500
  /\ UNCHANGED <<status, owner, room>>

\* One that took the step it was at.
Going(c) ==
  /\ ~Idles(c) /\ Others(c)
  /\ Answered(c) \/ (Onward(c) /\ Working(req'[c]))
  /\ Create(c) \/ Delete(c) \/ Update(c) \/ Broadcast(c) \/ Reload(c) \/ List(c)

LEMMA NoneActive == CountActive = 0 => Active = {}
<1>1. IsFiniteSet(Active)
  BY TournamentsAssumption, FS_Subset DEF Active, Rows
<1> QED
  BY <1>1, FS_EmptySet DEF CountActive

\* An idle request that is answered changes no request.
LEMMA AnswerOfIdle ==
  ASSUME req \in [Clients -> Request], NEW c \in Clients, Idles(c), NEW code, Answer(c, code)
  PROVE  req' = req /\ answer' = code
BY DEF Answer, Idles

LEMMA BeginIsStart ==
  ASSUME req \in [Clients -> Request], NEW c \in Clients, Idles(c), NEW by \in Actors,
         NEW kind \in Kinds, NEW t \in Ids, NEW to, Fits(kind, to), Begin(c, by, kind, {t}, to),
         IF kind = "create"
         THEN /\ status[t] = "new" /\ Active = {} /\ by.isAdmin
              /\ \A d \in Clients : t \notin req[d].ids
         ELSE status[t] \in Statuses /\ Authorized(t, by),
         UNCHANGED <<status, owner, room>>
  PROVE  Starting(c) /\ req' \in [Clients -> Request]
<1>1. /\ req' \in [Clients -> Request] /\ Others(c) /\ Working(req'[c]) /\ answer' = 0
      /\ req'[c].by = by /\ req'[c].kind = kind /\ req'[c].ids = {t} /\ req'[c].todo = Steps[kind]
  BY AfterBegin
<1> QED
  BY <1>1 DEF Starting

LEMMA DoneIsGoing ==
  ASSUME req \in [Clients -> Request], NEW c \in Clients, Idles(c) \/ Working(req[c]),
         NEW step, At(c, step), NEW code, Done(c, code)
  PROVE  /\ ~Idles(c) /\ Working(req[c]) /\ req' \in [Clients -> Request] /\ Others(c)
         /\ Answered(c) \/ (Onward(c) /\ Working(req'[c]))
<1>1. Working(req[c]) /\ ~Idles(c)
  BY IdleFields, WorkingTodo DEF At, Idles
<1> QED
  BY <1>1, AfterDone

\* Every step of the system is one of these.
LEMMA StepsAre ==
  ASSUME TypeInv, Next
  PROVE  /\ req' \in [Clients -> Request]
         /\ Quick \/ \E c \in Clients : Starting(c) \/ Failing(c) \/ Going(c)
<1> USE DEF TypeInv
<1>0. {200, 400, 401, 403, 404, 409, 500} \subseteq Codes
  BY DEF Codes
<1>1. ASSUME NEW c \in Clients, NEW t \in Ids, NEW by \in Actors, CreateTournament(c, t, by)
      PROVE  Starting(c) /\ req' \in [Clients -> Request]
  <2>1. Fits("create", "setup") /\ "create" \in Kinds
    BY StatusesAre, KindsAre DEF Fits, Targets
  <2> QED
    BY <1>1, <2>1, BeginIsStart, NoneActive DEF CreateTournament
<1>2. ASSUME NEW c \in Clients, NEW t \in Ids, NEW by \in Actors, DeleteTournament(c, t, by)
      PROVE  Starting(c) /\ req' \in [Clients -> Request]
  <2>1. Fits("delete", "deleted") /\ "delete" \in Kinds /\ "delete" # "create"
    BY StatusesAre, KindsAre DEF Fits, Targets
  <2>2. status[t] \in Statuses
    BY <1>2 DEF DeleteTournament, Admitted, Rows
  <2> QED
    BY <1>2, <2>1, <2>2, BeginIsStart DEF DeleteTournament, Admitted
<1>3. ASSUME NEW c \in Clients, NEW t \in Ids, NEW by \in Actors, Move(c, t, by)
      PROVE  Starting(c) /\ req' \in [Clients -> Request]
  <2>1. PICK move \in Moves : Begin(c, by, move.kind, {t}, move.to)
    BY <1>3 DEF Move
  <2>2. status[t] \in Statuses
    BY <1>3 DEF Move, Admitted, Rows
  <2>3. move.kind \in {"result", "rollback", "change", "generate"} /\ move.to \in Statuses
    BY StatusesAre DEF Moves
  <2>4. Fits(move.kind, move.to) /\ move.kind \in Kinds /\ move.kind # "create"
    BY <2>3, StatusesAre, KindsAre DEF Fits, Targets
  <2> QED
    BY <1>3, <2>1, <2>2, <2>4, BeginIsStart DEF Move, Admitted
<1>4. ASSUME NEW c \in Clients, NEW t \in Ids, NEW by \in Actors, Edit(c, t, by)
      PROVE  Starting(c) /\ req' \in [Clients -> Request]
  <2>1. PICK kind \in Kinds \ {"create", "delete", "generate"} : Begin(c, by, kind, {t}, "same")
    BY <1>4 DEF Edit
  <2>2. Fits(kind, "same") /\ kind \in Kinds /\ kind # "create"
    BY StatusesAre DEF Fits, Targets
  <2>3. status[t] \in Statuses
    BY <1>4 DEF Edit, Admitted, Rows
  <2> QED
    BY <1>4, <2>1, <2>2, <2>3, BeginIsStart DEF Edit, Admitted
<1>5. ASSUME NEW c \in Clients, NEW t \in Ids, GetTournament(c, t) \/ Refused(c, t) \/ Conflict(c, t)
      PROVE  Quick
  <2>1. /\ Idles(c) /\ UNCHANGED <<status, owner, room>>
        /\ \E code \in {200, 403, 404, 409} : Answer(c, code)
    BY <1>5 DEF GetTournament, Refused, Conflict
  <2> QED
    BY <1>0, <2>1, AnswerOfIdle DEF Quick
<1>6. ASSUME NEW c \in Clients,
             CreateRefused(c) \/ Unauthenticated(c) \/ Malformed(c) \/ GetTournaments(c)
      PROVE  Quick
  <2>1. /\ Idles(c) /\ UNCHANGED <<status, owner, room>>
        /\ \E code \in {200, 400, 401, 403, 409} : Answer(c, code)
    BY <1>6 DEF CreateRefused, Unauthenticated, Malformed, GetTournaments
  <2> QED
    BY <1>0, <2>1, AnswerOfIdle DEF Quick
<1>7. ASSUME NEW c \in Clients, Fail(c)
      PROVE  Quick \/ (Failing(c) /\ req' \in [Clients -> Request])
  <2>1. Answer(c, 500) /\ ~At(c, "broadcast") /\ UNCHANGED <<status, owner, room>>
    BY <1>7 DEF Fail
  <2> QED
    BY <1>0, <2>1, AnswerOfIdle, AfterAnswer DEF Quick, Failing
<1>8. ASSUME NEW c \in Clients,
             Create(c) \/ Delete(c) \/ Update(c) \/ Broadcast(c) \/ Reload(c) \/ List(c)
      PROVE  Going(c) /\ req' \in [Clients -> Request]
  <2>1. \E step : At(c, step) /\ \E code : Done(c, code) \/ Answer(c, code)
    <3>1. CASE Create(c)
      BY <3>1 DEF Create
    <3>2. CASE Delete(c)
      BY <3>2 DEF Delete
    <3>3. CASE Update(c)
      BY <3>3 DEF Update
    <3>4. CASE Broadcast(c)
      BY <3>4 DEF Broadcast
    <3>5. CASE Reload(c)
      BY <3>5 DEF Reload
    <3>6. CASE List(c)
      BY <3>6 DEF List
    <3> QED
      BY <1>8, <3>1, <3>2, <3>3, <3>4, <3>5, <3>6
  <2>2. PICK step : At(c, step) /\ \E code : Done(c, code) \/ Answer(c, code)
    BY <2>1
  <2>3. ~Idles(c)
    BY <2>2, IdleFields DEF At, Idles
  <2>4. req' \in [Clients -> Request] /\ Others(c) /\ (Answered(c) \/ (Onward(c) /\ Working(req'[c])))
    BY <2>2, <2>3, DoneIsGoing, AfterAnswer
  <2> QED
    BY <1>8, <2>3, <2>4 DEF Going
<1>9. Quick => req' \in [Clients -> Request]
  BY DEF Quick
<1> QED
  BY <1>1, <1>2, <1>3, <1>4, <1>5, <1>6, <1>7, <1>8, <1>9 DEF Next

\* What is known of a request that takes a step.
LEMMA Acting ==
  ASSUME TypeInv, NEW c \in Clients, ~Idles(c)
  PROVE  /\ Working(req[c])
         /\ At(c, "insert") \/ At(c, "delete") \/ At(c, "update")
              \/ At(c, "broadcast") \/ At(c, "reload") \/ At(c, "list")
         /\ At(c, "insert") <=> req[c].kind = "create"
         /\ At(c, "delete") => req[c].kind = "delete"
         /\ At(c, "update") => req[c].kind # "delete" /\ req[c].kind # "create"
         /\ At(c, "broadcast") => /\ req[c].kind # "names" /\ req[c].kind # "create"
                                  /\ req[c].kind \in {"change", "rollback"} => Rest(c) # << >>
         /\ At(c, "reload") => req[c].kind \in {"names", "change", "result", "rollback"}
         /\ At(c, "list") => req[c].kind = "generate"
<1>1. Working(req[c])
  BY DEF TypeInv
<1>2. req[c].kind \in Kinds /\ req[c].todo \in Left[req[c].kind]
  BY <1>1 DEF Working
<1>3. req[c].todo # << >>
  BY <1>2, Todo
<1>4. \A step : At(c, step) <=> Head(req[c].todo) = step
  BY <1>3 DEF At
<1>5. \A k \in Kinds : \A s \in Left[k] :
         /\ Head(s) = "insert" <=> k = "create"
         /\ Head(s) = "delete" => k = "delete"
         /\ Head(s) = "update" => k # "delete"
         /\ Head(s) = "broadcast" => k # "names"
         /\ Head(s) = "broadcast" /\ k \in {"change", "rollback"} => Tail(s) # << >>
         /\ Head(s) = "reload" => k \in {"names", "change", "result", "rollback"}
         /\ Head(s) = "list" => k = "generate"
         /\ Head(s) \in {"insert", "delete", "update", "broadcast", "reload", "list"}
  BY Todo
<1> DEFINE k == req[c].kind
           s == req[c].todo
<1>6. k \in Kinds /\ s \in Left[k]
  BY <1>2
<1> HIDE DEF k, s
<1>7. /\ Head(s) = "insert" <=> k = "create"
      /\ Head(s) = "delete" => k = "delete"
      /\ Head(s) = "update" => k # "delete"
      /\ Head(s) = "broadcast" => k # "names"
      /\ Head(s) = "broadcast" /\ k \in {"change", "rollback"} => Tail(s) # << >>
      /\ Head(s) = "reload" => k \in {"names", "change", "result", "rollback"}
      /\ Head(s) = "list" => k = "generate"
      /\ Head(s) \in {"insert", "delete", "update", "broadcast", "reload", "list"}
  BY <1>5, <1>6
<1> QED
  BY <1>1, <1>4, <1>7 DEF Rest, k, s

\* The invariant implies the type invariant of the runs.
LEMMA TypeInvIsTypeOK == TypeInv => TypeOK
<1> SUFFICES ASSUME TypeInv, NEW c \in Clients, ~Idles(c)
             PROVE  /\ req[c].by \in Actors
                    /\ req[c].kind \in Kinds
                    /\ \E n \in 1..Len(Steps[req[c].kind]) :
                         req[c].todo = SubSeq(Steps[req[c].kind], n, Len(Steps[req[c].kind]))
                    /\ req[c].ids \in SUBSET Ids
                    /\ req[c].to \in Statuses \cup {"same", "deleted"}
  BY DEF TypeInv, TypeOK
<1>1. Working(req[c])
  BY DEF TypeInv
<1> QED
  BY <1>1, LeftOf DEF Working, Fits, Targets

LEMMA TypeStart == Init => TypeInv
BY IdleFields DEF Init, TypeInv, Idles, Codes

LEMMA TypeKept == TypeInv /\ [Next]_vars => TypeInv'
<1> SUFFICES ASSUME TypeInv, [Next]_vars PROVE TypeInv'
  OBVIOUS
<1>1. CASE UNCHANGED vars
  BY <1>1 DEF vars, TypeInv, Idles, Working
<1>2. CASE Next
  <2> USE DEF TypeInv
  <2>1. req' \in [Clients -> Request]
    BY <1>2, StepsAre
  <2>2. CASE Quick
    BY <2>2 DEF Quick, Idles
  <2>3. ASSUME NEW c \in Clients, Others(c), Answered(c) \/ Working(req'[c])
        PROVE  \A d \in Clients : Idles(d)' \/ Working(req[d])'
    BY <2>3 DEF Others, Answered, Idles
  <2>4. ASSUME NEW c \in Clients, Starting(c) \/ Failing(c)
        PROVE  TypeInv'
    <3>1. UNCHANGED <<status, owner, room>> /\ answer' \in {0, 500}
      BY <2>4 DEF Starting, Failing
    <3>2. \A d \in Clients : Idles(d)' \/ Working(req[d])'
      BY <2>4, <2>3 DEF Starting, Failing
    <3> QED
      BY <2>1, <3>1, <3>2 DEF Codes
  <2>5. ASSUME NEW c \in Clients, Going(c)
        PROVE  TypeInv'
    <3>1. ~Idles(c) /\ Working(req[c])
      BY <2>5, Acting DEF Going
    <3>2. \A d \in Clients : Idles(d)' \/ Working(req[d])'
      BY <2>3, <2>5 DEF Going
    <3>3. \A code : Done(c, code) \/ Answer(c, code) => answer' \in {0, code}
      BY DEF Done, Answer
    <3>4. CASE Create(c)
      <4>1. PICK t \in req[c].ids : /\ status' = [status EXCEPT ![t] = "setup"]
                                    /\ owner' = [owner EXCEPT ![t] = {req[c].by.user}]
        BY <3>4 DEF Create
      <4>2. req[c].by.user \in Users /\ "setup" \in Statuses
        BY <3>1, StatusesAre DEF Working, Actors, At, Create
      <4>3. answer' \in {0, 201} /\ room' = room
        BY <3>3, <3>4 DEF Create
      <4>4. t \in Ids /\ {req[c].by.user} \in SUBSET Users
        BY <3>1, <4>2 DEF Working
      <4>5. status' \in [Ids -> Statuses \cup {"new", "deleted"}]
        BY <4>1, <4>2, <4>4
      <4>6. owner' \in [Ids -> SUBSET Users]
        BY <4>1, <4>4
      <4> QED
        BY <2>1, <3>2, <4>3, <4>5, <4>6 DEF Codes
    <3>5. CASE Delete(c)
      <4>1. /\ answer' \in {0, 204} /\ room' = room /\ owner' = owner
            /\ status' = [t \in Ids |-> IF t \in req[c].ids THEN "deleted" ELSE status[t]]
        BY <3>3, <3>5 DEF Delete
      <4> QED
        BY <2>1, <3>2, <4>1 DEF Codes
    <3>6. CASE Update(c)
      <4>1. answer' \in {0, 200, 500} /\ room' = room /\ owner' = owner
        BY <3>3, <3>6 DEF Update
      <4>2. \A t \in Ids : Updated(t, req[c].to) \in Statuses \cup {"new", "deleted"}
        BY <3>1 DEF Working, Fits, Targets, Updated
      <4>3. status' \in [Ids -> Statuses \cup {"new", "deleted"}]
        BY <3>6, <4>2 DEF Update
      <4> QED
        BY <2>1, <3>2, <4>1, <4>3 DEF Codes
    <3>7. CASE Broadcast(c)
      <4>1. /\ answer' \in {0, 200, 204} /\ status' = status /\ owner' = owner
            /\ room' = [t \in Ids |-> IF t \in req[c].ids THEN Message(req[c].to) ELSE room[t]]
        BY <3>3, <3>7 DEF Broadcast
      <4>2. Message(req[c].to) \in {"new", "updated", "deleted"}
        BY DEF Message
      <4> QED
        BY <2>1, <3>2, <4>1, <4>2 DEF Codes
    <3>8. CASE Reload(c) \/ List(c)
      <4>1. answer' \in {0, 200, 404, 500} /\ UNCHANGED <<status, owner, room>>
        BY <3>3, <3>8 DEF Reload, List, CodeOfMissing
      <4> QED
        BY <2>1, <3>2, <4>1 DEF Codes
    <3> QED
      BY <2>5, <3>4, <3>5, <3>6, <3>7, <3>8 DEF Going
  <2> QED
    BY <1>2, <2>1, <2>2, <2>4, <2>5, StepsAre
<1> QED
  BY <1>1, <1>2

\* Whatever requests are in flight and whichever call fails, the rows, the
\* rooms and what is left of each request have their types: a request is
\* always at a step of its kind.
THEOREM TypeCorrect == Spec => []TypeOK
<1>1. Spec => []TypeInv
  BY TypeStart, TypeKept, PTL DEF Spec
<1> QED
  BY <1>1, TypeInvIsTypeOK, PTL

-----------------------------------------------------------------------------
(***************************************************************************)
(* Who changes a row                                                       *)
(***************************************************************************)

\* What a step changes in a row, and for which request.
LEMMA RowChanges ==
  ASSUME TypeInv, NEW c \in Clients, Going(c), NEW t \in Ids
  PROVE  /\ status'[t] # status[t] =>
              /\ t \in req[c].ids /\ req'[c] # req[c]
              /\ \/ req[c].kind = "create" /\ status'[t] = "setup" /\ Answered(c)
                 \/ req[c].kind = "delete" /\ status'[t] = "deleted"
                 \/ /\ req[c].kind \notin {"create", "delete"}
                    /\ status[t] \in Statuses /\ status'[t] \in Statuses
         /\ owner'[t] # owner[t] => req[c].kind = "create" /\ t \in req[c].ids /\ Answered(c)
<1>1. /\ ~Idles(c) /\ Working(req[c]) /\ req[c].kind \in Kinds /\ req[c].todo \in Left[req[c].kind]
      /\ Fits(req[c].kind, req[c].to)
  BY Acting DEF Going, Working
<1>2. ASSUME At(c, "insert") \/ At(c, "delete") \/ At(c, "update") PROVE req'[c] # req[c]
  <2>1. CASE Answered(c)
    BY <1>1, <2>1 DEF Answered, Idles
  <2>2. CASE Onward(c)
    <3>1. req'[c].todo = Tail(req[c].todo) /\ Tail(req[c].todo) # << >>
      BY <2>2 DEF Onward
    <3>2. Head(req'[c].todo) \in {"broadcast", "reload", "list"}
      BY <1>1, <3>1, Todo
    <3> QED
      BY <1>2, <3>2 DEF At
  <2> QED
    BY <2>1, <2>2 DEF Going
<1>3. CASE Create(c)
  <2>1. PICK u \in req[c].ids : /\ status' = [status EXCEPT ![u] = "setup"]
                                /\ owner' = [owner EXCEPT ![u] = {req[c].by.user}]
    BY <1>3 DEF Create
  <2>2. At(c, "insert") /\ req[c].kind = "create"
    BY <1>1, <1>3, Acting DEF Create
  <2>3. Rest(c) = << >>
    BY <1>1, <2>2, Todo DEF At, Rest
  <2>4. Answered(c)
    BY <1>3, <2>3, AfterAnswer DEF Create, Done, TypeInv
  <2>5. status'[t] # status[t] \/ owner'[t] # owner[t] => t = u
    BY <2>1 DEF TypeInv
  <2>6. status'[t] # status[t] => status'[t] = "setup"
    BY <2>1 DEF TypeInv
  <2> QED
    BY <1>2, <2>1, <2>2, <2>4, <2>5, <2>6
<1>4. CASE Delete(c)
  <2>1. /\ status' = [u \in Ids |-> IF u \in req[c].ids THEN "deleted" ELSE status[u]]
        /\ owner' = owner /\ At(c, "delete")
    BY <1>4 DEF Delete
  <2>2. req[c].kind = "delete"
    BY <1>1, <2>1, Acting
  <2> QED
    BY <1>2, <2>1, <2>2
<1>5. CASE Update(c)
  <2>1. At(c, "update") /\ owner' = owner
    BY <1>5 DEF Update
  <2>2. req[c].kind # "delete" /\ req[c].kind # "create" /\ req[c].to \in Statuses \cup {"same"}
    BY <1>1, <2>1, Acting DEF Fits, Targets
  <2>3. status'[t] = status[t] \/ (t \in req[c].ids /\ status'[t] = Updated(t, req[c].to))
    BY <1>5 DEF Update
  <2>4. status'[t] # status[t] => t \in Rows /\ status'[t] \in Statuses
    BY <2>2, <2>3 DEF Updated
  <2> QED
    BY <1>2, <2>1, <2>2, <2>3, <2>4 DEF Rows
<1>6. CASE Broadcast(c) \/ Reload(c) \/ List(c)
  BY <1>6 DEF Broadcast, Reload, List
<1> QED
  BY <1>3, <1>4, <1>5, <1>6 DEF Going

\* A request in flight stays entitled: the id of a new tournament is its own,
\* and nobody but its creation gives a row another owner.
Entitled(c) ==
  \A t \in req[c].ids :
    /\ req[c].kind = "create" => /\ req[c].by.isAdmin /\ status[t] = "new"
                                 /\ \A d \in Clients \ {c} : t \notin req[d].ids
    /\ req[c].kind # "create" => status[t] # "new" /\ Authorized(t, req[c].by)

EntitledInv == TypeInv /\ \A c \in Clients : Entitled(c)

LEMMA EntitledStart == Init => EntitledInv
BY TypeStart, IdleFields DEF Init, EntitledInv, Entitled

\* The requests of the others when one begins.
LEMMA EntitledBegins ==
  ASSUME EntitledInv, NEW c \in Clients, Starting(c)
  PROVE  \A d \in Clients : Entitled(d)'
<1> USE DEF EntitledInv
<1>1. PICK t \in Ids : req'[c].ids = {t}
  BY DEF Starting, Working
<1>2. ASSUME req'[c].kind = "create" PROVE \A d \in Clients \ {c} : t \notin req'[d].ids
  BY <1>1, <1>2 DEF Starting, Others
<1>3. UNCHANGED <<status, owner>>
  BY DEF Starting
<1>4. Entitled(c)'
  <2>1. CASE req'[c].kind = "create"
    BY <1>1, <1>2, <1>3, <2>1 DEF Starting, Entitled
  <2>2. CASE req'[c].kind # "create"
    <3>1. status[t] # "new"
      BY <1>1, <2>2, StatusesAre DEF Starting
    <3> QED
      BY <1>1, <1>3, <2>2, <3>1 DEF Starting, Entitled, Authorized
  <2> QED
    BY <2>1, <2>2
<1>5. ASSUME NEW d \in Clients \ {c} PROVE Entitled(d)'
  <2>1. req'[d] = req[d] /\ Entitled(d)
    BY <1>5 DEF Starting, Others
  <2>2. ASSUME NEW u \in req[d].ids, req[d].kind = "create"
        PROVE  \A e \in Clients \ {d} : u \notin req'[e].ids
    <3>1. \A e \in Clients \ {d} : u \notin req[e].ids
      BY <2>1, <2>2 DEF Entitled
    <3>2. u # t
      BY <1>1, <2>1, <2>2, StatusesAre DEF Entitled, Starting
    <3> QED
      BY <1>1, <3>1, <3>2 DEF Starting, Others
  <2> QED
    BY <1>3, <2>1, <2>2 DEF Entitled, Authorized
<1> QED
  BY <1>4, <1>5

LEMMA EntitledGoes ==
  ASSUME EntitledInv, NEW c \in Clients, Going(c) \/ Failing(c)
  PROVE  \A d \in Clients : Entitled(d)'
<1> USE DEF EntitledInv
<1>1. \A d \in Clients : \/ req'[d].ids = {}
                         \/ /\ req'[d].ids = req[d].ids /\ req'[d].kind = req[d].kind
                            /\ req'[d].by = req[d].by /\ (d = c => ~Answered(c))
  BY IdleFields DEF Going, Failing, Others, Answered, Onward
<1>2. ASSUME NEW t \in Ids
      PROVE  /\ status'[t] # status[t] =>
                  /\ t \in req[c].ids /\ status'[t] # "new" /\ (req[c].kind = "create" => Answered(c))
             /\ owner'[t] # owner[t] => req[c].kind = "create" /\ t \in req[c].ids /\ Answered(c)
  BY RowChanges, StatusesAre DEF Failing
<1>3. ASSUME NEW d \in Clients, NEW t \in req'[d].ids
      PROVE  /\ req'[d].kind = "create" =>
                  /\ req'[d].by.isAdmin /\ status'[t] = "new"
                  /\ \A e \in Clients \ {d} : t \notin req'[e].ids
             /\ req'[d].kind # "create" => status'[t] # "new" /\ Authorized(t, req[d].by)'
  <2>1. /\ t \in req[d].ids /\ req'[d].kind = req[d].kind /\ req'[d].by = req[d].by
        /\ d = c => ~Answered(c)
    BY <1>1, <1>3
  <2>2. t \in Ids /\ Entitled(d) /\ Entitled(c)
    BY <2>1, IdleFields DEF TypeInv, Idles, Working
  <2>3. CASE req[d].kind = "create"
    <3>1. \A e \in Clients \ {d} : t \notin req[e].ids
      BY <2>1, <2>2, <2>3 DEF Entitled
    <3>2. \A e \in Clients \ {d} : t \notin req'[e].ids
      BY <1>1, <3>1
    <3>3. status'[t] = status[t]
      BY <1>2, <2>1, <2>2, <2>3, <3>1
    <3> QED
      BY <2>1, <2>2, <2>3, <3>2, <3>3 DEF Entitled
  <2>4. CASE req[d].kind # "create"
    <3>1. owner'[t] = owner[t]
      <4>1. SUFFICES ASSUME owner'[t] # owner[t] PROVE FALSE
        OBVIOUS
      <4>2. req[c].kind = "create" /\ t \in req[c].ids
        BY <1>2, <2>2, <4>1
      <4> QED
        BY <2>1, <2>2, <2>4, <4>2 DEF Entitled
    <3>2. status'[t] # "new" /\ Authorized(t, req[d].by)
      BY <1>2, <2>1, <2>2, <2>4 DEF Entitled
    <3> QED
      BY <2>1, <2>4, <3>1, <3>2 DEF Authorized
  <2> QED
    BY <2>1, <2>3, <2>4
<1>4. ASSUME NEW d \in Clients, NEW t \in req'[d].ids PROVE req'[d].by = req[d].by
  BY <1>1, <1>4
<1> QED
  BY <1>3, <1>4 DEF Entitled, Authorized

LEMMA EntitledKept == EntitledInv /\ [Next]_vars => EntitledInv'
<1> SUFFICES ASSUME EntitledInv, [Next]_vars PROVE EntitledInv'
  OBVIOUS
<1>1. TypeInv'
  BY TypeKept DEF EntitledInv
<1>2. CASE UNCHANGED <<status, owner, req>>
  BY <1>1, <1>2 DEF EntitledInv, Entitled, Authorized
<1>3. CASE Next
  BY <1>1, <1>2, <1>3, StepsAre, EntitledBegins, EntitledGoes DEF EntitledInv, Quick
<1> QED
  BY <1>1, <1>2, <1>3 DEF vars

\* A row changes only by a step of a request whose user may change it, at the
\* time of the write too: what authorizeTournament (or the check for the admin
\* group) saw still holds when the database is written, however many requests
\* came between.
THEOREM RowsChangedByEntitled == MCSpec => ChangedByEntitled
<1>1. MCInit => EntitledInv
  BY EntitledStart DEF MCInit
<1>2. EntitledInv /\ [MCNext]_mcvars => EntitledInv'
  BY EntitledKept DEF MCNext, mcvars, vars
<1>3. EntitledInv /\ [MCNext]_mcvars =>
        [\A t \in Ids : status[t] # status'[t] =>
           \E c \in InFlight : /\ t \in req[c].ids /\ req[c] # req'[c]
                               /\ req[c].by.isAdmin \/ req[c].by.user \in owner[t]]_mcvars
  <2> SUFFICES ASSUME EntitledInv, MCNext, NEW t \in Ids, status[t] # status'[t]
               PROVE  \E c \in InFlight : /\ t \in req[c].ids /\ req[c] # req'[c]
                                          /\ req[c].by.isAdmin \/ req[c].by.user \in owner[t]
    OBVIOUS
  <2>1. PICK c \in Clients : Going(c)
    BY StepsAre DEF MCNext, EntitledInv, Quick, Starting, Failing
  <2>2. t \in req[c].ids /\ req'[c] # req[c] /\ c \in InFlight
    BY <2>1, RowChanges DEF EntitledInv, InFlight, Going
  <2>3. req[c].by.isAdmin \/ req[c].by.user \in owner[t]
    BY <2>2 DEF EntitledInv, Entitled, Authorized, InFlight
  <2> QED
    BY <2>2, <2>3
<1> QED
  BY <1>1, <1>2, <1>3, PTL DEF MCSpec, ChangedByEntitled

-----------------------------------------------------------------------------
(***************************************************************************)
(* What an answer says                                                     *)
(***************************************************************************)

\* Behind its write, a request has changed its tournament or lost it.
Truthful(c) ==
  /\ req[c].kind = "delete" /\ At(c, "broadcast") => \A t \in req[c].ids : status[t] = "deleted"
  /\ ~Idles(c) /\ req[c].kind \notin {"create", "delete"} /\ ~At(c, "update") =>
       reached[c] \/ \A t \in req[c].ids : status[t] = "deleted"

TruthInv == EntitledInv /\ reached \in [Clients -> BOOLEAN] /\ \A c \in Clients : Truthful(c)

\* What is deleted stays deleted.
LEMMA DeletedForGood ==
  ASSUME EntitledInv, [Next]_vars, NEW t \in Ids, status[t] = "deleted"
  PROVE  status'[t] = "deleted"
<1>1. CASE UNCHANGED status
  BY <1>1
<1>2. ASSUME NEW c \in Clients, Going(c), status'[t] # status[t] PROVE status'[t] = "deleted"
  <2>1. t \in req[c].ids /\ req[c].kind # "create"
    BY <1>2, RowChanges DEF EntitledInv, Entitled
  <2> QED
    BY <1>2, <2>1, RowChanges, StatusesAre DEF EntitledInv
<1> QED
  BY <1>1, <1>2, StepsAre DEF EntitledInv, Quick, Starting, Failing, vars

\* Reaching, for a request that goes on.
LEMMA ReachedGoesOn ==
  ASSUME TruthInv, MCNext, NEW d \in Clients, req'[d] # Idle
  PROVE  reached'[d] = (reached[d] \/ Reaches(d)) /\ (reached[d] => reached'[d])
BY DEF MCNext, TruthInv

LEMMA TruthStart == MCInit => TruthInv
<1> SUFFICES ASSUME MCInit PROVE TruthInv
  OBVIOUS
<1>1. EntitledInv /\ reached \in [Clients -> BOOLEAN] /\ \A c \in Clients : req[c] = Idle
  BY EntitledStart DEF MCInit, Init
<1> QED
  BY <1>1, IdleFields DEF TruthInv, Truthful, Idles, At

\* Nothing is taken from those who do not move.
LEMMA TruthOfOthers ==
  ASSUME TruthInv, MCNext, NEW d \in Clients, req'[d] = req[d]
  PROVE  Truthful(d)'
<1>1. \A t \in req[d].ids : status[t] = "deleted" => status'[t] = "deleted"
  <2>1. req[d].ids \subseteq Ids
    BY IdleFields DEF TruthInv, EntitledInv, TypeInv, Idles, Working
  <2> QED
    BY <2>1, DeletedForGood DEF TruthInv, MCNext
<1>2. reached[d] /\ ~Idles(d) => reached'[d]
  BY ReachedGoesOn DEF Idles
<1>3. Truthful(d)
  BY DEF TruthInv
<1>4. /\ Idles(d)' = Idles(d)
      /\ At(d, "broadcast")' = At(d, "broadcast") /\ At(d, "update")' = At(d, "update")
  BY DEF Idles, At
<1> QED
  BY <1>1, <1>2, <1>3, <1>4 DEF Truthful

LEMMA TruthOfMover ==
  ASSUME TruthInv, MCNext, NEW c \in Clients, Going(c)
  PROVE  Truthful(c)'
<1> USE DEF TruthInv, EntitledInv
<1>1. CASE Answered(c)
  BY <1>1, IdleFields DEF Answered, Truthful, Idles, At
<1>2. CASE Onward(c)
  <2>1. /\ ~Idles(c) /\ Working(req[c]) /\ req[c].todo \in Left[req[c].kind] /\ req[c].kind \in Kinds
        /\ ~At(c, "broadcast") \/ req[c].kind # "delete"
    <3>1. ~Idles(c) /\ Working(req[c]) /\ req[c].todo \in Left[req[c].kind] /\ req[c].kind \in Kinds
      BY Acting DEF Going, Working
    <3>2. Tail(req[c].todo) # << >>
      BY <1>2 DEF Onward
    <3> QED
      BY <3>1, <3>2, Todo DEF At
  <2>2. /\ req'[c].ids = req[c].ids /\ req'[c].kind = req[c].kind
        /\ req'[c].todo = Rest(c) /\ req'[c] # Idle
    BY <1>2 DEF Onward, Rest
  <2>3. PICK t \in Ids : req[c].ids = {t}
    BY <2>1 DEF Working
  <2>4. CASE req[c].kind = "delete"
    <3>1. At(c, "delete")
      BY <2>1, <2>4, Acting
    <3>2. status'[t] = "deleted"
      BY <2>3, <2>4, <3>1, Acting DEF Going, Create, Delete, Update, Broadcast, Reload, List, At
    <3> QED
      BY <2>2, <2>3, <2>4, <3>2 DEF Truthful
  <2>5. CASE req[c].kind \notin {"create", "delete"} /\ At(c, "update")
    <3>1. CASE req[c].ids \subseteq Rows
      <4>1. Reaches(c)
        BY <2>2, <2>5, <3>1 DEF Reaches
      <4> QED
        BY <2>2, <2>5, <4>1, ReachedGoesOn DEF Truthful
    <3>2. CASE ~(req[c].ids \subseteq Rows)
      <4>1. status[t] \notin Statuses
        BY <2>3, <3>2 DEF Rows
      <4>2. status[t] # "new"
        BY <2>3, <2>5 DEF Entitled
      <4>3. status[t] = "deleted"
        BY <4>1, <4>2 DEF TypeInv
      <4>4. status'[t] = "deleted"
        BY <4>3, DeletedForGood DEF MCNext
      <4> QED
        BY <2>2, <2>3, <2>5, <4>4 DEF Truthful
    <3> QED
      BY <3>1, <3>2
  <2>6. CASE req[c].kind \notin {"create", "delete"} /\ ~At(c, "update")
    <3>1. reached[c] \/ status[t] = "deleted"
      BY <2>1, <2>3, <2>6 DEF Truthful
    <3>2. reached'[c] \/ status'[t] = "deleted"
      BY <2>2, <3>1, ReachedGoesOn, DeletedForGood DEF MCNext
    <3> QED
      BY <2>2, <2>3, <2>6, <3>2 DEF Truthful
  <2>7. CASE req[c].kind = "create"
    BY <2>2, <2>7 DEF Truthful
  <2> QED
    BY <2>4, <2>5, <2>6, <2>7
<1> QED
  BY <1>1, <1>2 DEF Going

LEMMA FirstStep ==
  ASSUME NEW k \in Kinds
  PROVE  Head(Steps[k]) = IF k = "create" THEN "insert" ELSE IF k = "delete" THEN "delete" ELSE "update"
<1>1. CASE k = "create"
  BY <1>1, Tails DEF Steps
<1>2. CASE k = "delete"
  BY <1>2, Tails DEF Steps
<1>3. CASE k = "names"
  BY <1>3, Tails DEF Steps
<1>4. CASE k = "change"
  BY <1>4, Tails DEF Steps
<1>5. CASE k = "generate"
  BY <1>5, Tails DEF Steps
<1>6. CASE k = "result"
  BY <1>6, Tails DEF Steps
<1>7. CASE k = "rollback"
  BY <1>7, Tails DEF Steps
<1> QED
  BY <1>1, <1>2, <1>3, <1>4, <1>5, <1>6, <1>7, KindsAre

LEMMA TruthKept == TruthInv /\ [MCNext]_mcvars => TruthInv'
<1> SUFFICES ASSUME TruthInv, [MCNext]_mcvars PROVE TruthInv'
  OBVIOUS
<1>1. EntitledInv'
  BY EntitledKept DEF TruthInv, MCNext, mcvars, vars
<1>2. CASE UNCHANGED mcvars
  BY <1>1, <1>2 DEF mcvars, vars, TruthInv, Truthful, At, Idles
<1>3. CASE MCNext
  <2>1. reached' \in [Clients -> BOOLEAN]
    BY <1>3 DEF MCNext, TruthInv, Reaches, At
  <2>2. CASE Quick
    BY <1>1, <1>3, <2>1, <2>2, TruthOfOthers DEF Quick, TruthInv
  <2>3. ASSUME NEW c \in Clients, Starting(c) PROVE Truthful(c)'
    <3>1. /\ Working(req'[c]) /\ req'[c].kind \in Kinds /\ req'[c].todo = Steps[req'[c].kind]
      BY <2>3 DEF Starting, Working
    <3>2. req'[c].todo # << >>
      BY <3>1, WorkingTodo
    <3>3. Head(req'[c].todo) = IF req'[c].kind = "create" THEN "insert"
                               ELSE IF req'[c].kind = "delete" THEN "delete" ELSE "update"
      BY <3>1, FirstStep
    <3> QED
      BY <3>2, <3>3 DEF Truthful, At
  <2>4. ASSUME NEW c \in Clients, Failing(c) PROVE Truthful(c)'
    BY <2>4, IdleFields DEF Failing, Answered, Truthful, Idles, At
  <2>5. ASSUME NEW c \in Clients, Starting(c) \/ Failing(c) \/ Going(c)
        PROVE  \A d \in Clients : Truthful(d)'
    BY <1>3, <2>3, <2>4, <2>5, TruthOfOthers, TruthOfMover DEF Starting, Failing, Going, Others
  <2> QED
    BY <1>1, <1>3, <2>1, <2>2, <2>5, StepsAre DEF TruthInv, EntitledInv, MCNext
<1> QED
  BY <1>2, <1>3

\* What the answer to each kind of request means, whatever other requests have
\* done since it read the tournament: no refusal after a write, no tournament
\* returned by a change that was lost, no deletion confirmed that was not made,
\* and no "not found" after the write but for a tournament that is deleted.
THEOREM AnswersTellTheTruth == MCSpec => AnswersAreTrue
<1>1. TruthInv /\ [MCNext]_mcvars =>
        [\A c \in InFlight \ InFlight' :
           /\ answer' \in {400, 401, 403, 409} => ~reached[c]
           /\ answer' = 200 /\ req[c].kind \in {"names", "change", "rollback"} => reached[c]
           /\ answer' = 204 \/ (answer' = 404 /\ reached[c]) =>
                \A t \in req[c].ids : status'[t] = "deleted"]_mcvars
  <2> SUFFICES ASSUME TruthInv, MCNext, NEW c \in InFlight \ InFlight'
               PROVE  /\ answer' \in {400, 401, 403, 409} => ~reached[c]
                      /\ answer' = 200 /\ req[c].kind \in {"names", "change", "rollback"} => reached[c]
                      /\ answer' = 204 \/ (answer' = 404 /\ reached[c]) =>
                           \A t \in req[c].ids : status'[t] = "deleted"
    OBVIOUS
  <2> USE DEF TruthInv, EntitledInv
  <2>1. c \in Clients /\ ~Idles(c) /\ req'[c] = Idle
    BY DEF InFlight, Idles
  <2>2. Failing(c) \/ Going(c)
    <3>1. \A d \in Clients : Others(d) => d = c
      BY <2>1 DEF Others, Idles
    <3>2. \A d \in Clients : Starting(d) => d # c
      BY <2>1 DEF Starting
    <3>3. ~Quick
      BY <2>1 DEF Quick, Idles
    <3> QED
      BY <3>1, <3>2, <3>3, StepsAre DEF MCNext, Starting, Failing, Going
  <2>3. PICK t \in Ids : req[c].ids = {t}
    BY <2>1, Acting DEF Working
  <2>4. Truthful(c) /\ Entitled(c) /\ req[c].kind \in Kinds /\ req[c].todo \in Left[req[c].kind]
    BY <2>1, Acting DEF Working
  <2>5. ASSUME NEW code, Done(c, code) PROVE answer' = code /\ Rest(c) = << >>
    BY <2>1, <2>5, Acting, AfterDone DEF TypeInv, Onward, Rest
  <2>6. CASE Failing(c)
    BY <2>6 DEF Failing
  <2>7. CASE Create(c)
    BY <2>5, <2>7 DEF Create
  <2>8. CASE Delete(c)
    <3>1. Rest(c) # << >>
      BY <2>4, <2>8, Todo DEF Delete, At, Rest
    <3> QED
      BY <2>5, <2>8, <3>1 DEF Delete
  <2>9. CASE Update(c)
    <3>1. Rest(c) # << >>
      BY <2>4, <2>9, Todo DEF Update, At, Rest
    <3>2. answer' = 500
      BY <2>5, <2>9, <3>1 DEF Update, Answer
    <3> QED
      BY <3>2
  <2>10. CASE Broadcast(c)
    <3>1. At(c, "broadcast") /\ status' = status /\ Rest(c) = << >>
      BY <2>5, <2>10 DEF Broadcast
    <3>2. req[c].kind \notin {"names", "change", "rollback"}
      BY <2>1, <3>1, Acting
    <3>3. CASE req[c].kind = "delete"
      BY <2>4, <2>5, <2>10, <3>1, <3>2, <3>3 DEF Broadcast, Truthful
    <3>4. CASE req[c].kind # "delete"
      <4>1. answer' = 200
        BY <2>5, <2>10, <3>4 DEF Broadcast
      <4> QED
        BY <3>2, <4>1
    <3> QED
      BY <3>3, <3>4
  <2>11. CASE Reload(c)
    <3>1. At(c, "reload") /\ status' = status /\ ~At(c, "update")
      BY <2>11 DEF Reload, At
    <3>2. req[c].kind \notin {"create", "delete"}
      BY <2>1, <3>1, Acting
    <3>3. reached[c] \/ status[t] = "deleted"
      BY <2>1, <2>3, <2>4, <3>1, <3>2 DEF Truthful
    <3>4. CASE req[c].ids \subseteq Rows
      <4>1. answer' = 200
        BY <2>5, <2>11, <3>4 DEF Reload
      <4>2. status[t] # "deleted"
        BY <2>3, <3>4, StatusesAre DEF Rows
      <4> QED
        BY <3>3, <4>1, <4>2
    <3>5. CASE ~(req[c].ids \subseteq Rows)
      <4>1. answer' \in {404, 500}
        BY <2>11, <3>5 DEF Reload, Answer, CodeOfMissing
      <4>2. status[t] = "deleted"
        BY <2>3, <2>4, <3>2, <3>5 DEF Rows, Entitled, TypeInv
      <4> QED
        BY <2>3, <3>1, <4>1, <4>2
    <3> QED
      BY <3>4, <3>5
  <2>12. CASE List(c)
    <3>1. At(c, "list") /\ answer' = 200
      BY <2>5, <2>12 DEF List
    <3>2. req[c].kind = "generate"
      BY <2>1, <3>1, Acting
    <3> QED
      BY <3>1, <3>2
  <2> QED
    BY <2>2, <2>6, <2>7, <2>8, <2>9, <2>10, <2>11, <2>12 DEF Going
<1> QED
  BY TruthStart, TruthKept, <1>1, PTL DEF MCSpec, AnswersAreTrue

-----------------------------------------------------------------------------
(***************************************************************************)
(* What one organiser can count on                                         *)
(***************************************************************************)

\* Until two requests overlap, there is one at most, nobody touches the row it
\* has read, and what has been deleted has been announced or is about to be.
Alone == \A c, d \in Clients : ~Idles(c) /\ ~Idles(d) => c = d

Undisturbed(c) ==
  /\ req[c].kind = "create" => Active = {}
  /\ req[c].kind \in Kinds \ {"create"} /\ (req[c].kind = "delete" => At(c, "delete")) =>
       \A t \in req[c].ids : status[t] \in Statuses

Announcing(c, t) == req[c].kind = "delete" /\ At(c, "broadcast") /\ t \in req[c].ids

Announced ==
  \A t \in Ids : status[t] = "deleted" => room[t] = "deleted" \/ \E c \in Clients : Announcing(c, t)

OneInv ==
  /\ EntitledInv
  /\ ~overlapped => Alone /\ (\A c \in Clients : Undisturbed(c)) /\ Announced

LEMMA AtMostOne ==
  ASSUME NEW S, IsFiniteSet(S), ~(Cardinality(S) > 1), NEW a \in S, NEW b \in S
  PROVE  a = b
<1>1. SUFFICES ASSUME a # b PROVE FALSE
  OBVIOUS
<1>2. IsFiniteSet({a, b}) /\ Cardinality({a, b}) = 2
  <2>1. IsFiniteSet({a}) /\ Cardinality({a}) = 1
    BY FS_Singleton
  <2>2. {a, b} = {a} \cup {b} /\ b \notin {a}
    BY <1>1
  <2>3. IsFiniteSet({a} \cup {b}) /\ Cardinality({a} \cup {b}) = Cardinality({a}) + 1
    BY ONLY <2>1, <2>2, FS_AddElement
  <2> QED
    BY ONLY <2>1, <2>2, <2>3
<1>3. Cardinality({a, b}) <= Cardinality(S) /\ Cardinality(S) \in Nat
  BY FS_Subset, FS_CardinalityType
<1> QED
  BY <1>2, <1>3

LEMMA OneAtATime ==
  ASSUME MCNext, ~overlapped'
  PROVE  ~overlapped /\ Alone'
<1>1. ~overlapped /\ ~(Cardinality(InFlight') > 1)
  BY DEF MCNext
<1>2. IsFiniteSet(InFlight')
  BY TournamentsAssumption, FS_Subset DEF InFlight
<1>3. \A c, d \in InFlight' : c = d
  BY <1>1, <1>2, AtMostOne
<1> QED
  BY <1>1, <1>3 DEF Alone, InFlight

LEMMA OneStart == MCInit => OneInv
<1> SUFFICES ASSUME MCInit PROVE OneInv
  OBVIOUS
<1>1. EntitledInv /\ (\A c \in Clients : req[c] = Idle) /\ \A t \in Ids : status[t] = "new"
  BY EntitledStart DEF MCInit, Init
<1> QED
  BY <1>1, IdleFields, KindsAre DEF OneInv, Alone, Undisturbed, Announced, Idles

LEMMA OneBegins ==
  ASSUME OneInv, ~overlapped, Alone', NEW c \in Clients, Starting(c)
  PROVE  (\A d \in Clients : Undisturbed(d)') /\ Announced'
<1>1. UNCHANGED <<status, room>> /\ Working(req'[c]) /\ ~Idles(c)'
  BY WorkingTodo DEF Starting, Idles
<1>2. \A d \in Clients : req[d] = Idle
  BY <1>1 DEF Alone, Idles, Starting, Others
<1>3. \A d \in Clients \ {c} : req'[d] = Idle
  BY <1>2 DEF Starting, Others
<1>4. Announced'
  BY <1>1, <1>2, IdleFields DEF OneInv, Announced, Announcing
<1>5. Undisturbed(c)'
  <2>1. PICK t \in Ids : req'[c].ids = {t}
    BY <1>1 DEF Working
  <2> QED
    BY <1>1, <2>1 DEF Starting, Undisturbed, Active, Rows
<1>6. ASSUME NEW d \in Clients \ {c} PROVE Undisturbed(d)'
  BY <1>3, <1>6, IdleFields, KindsAre DEF Undisturbed
<1> QED
  BY <1>4, <1>5, <1>6

LEMMA OneFails ==
  ASSUME OneInv, ~overlapped, NEW c \in Clients, Failing(c)
  PROVE  (\A d \in Clients : Undisturbed(d)') /\ Announced'
<1>1. \A d \in Clients : req'[d] = Idle
  BY DEF OneInv, Alone, Idles, Failing, Others, Answered
<1>2. Announced'
  <2>1. \A d \in Clients, t \in Ids : ~Announcing(d, t)
    BY IdleFields DEF OneInv, Alone, Idles, Failing, Announcing
  <2> QED
    BY <2>1 DEF OneInv, Announced, Failing
<1> QED
  BY <1>1, <1>2, IdleFields, KindsAre DEF Undisturbed

LEMMA OneGoes ==
  ASSUME OneInv, [Next]_vars, ~overlapped, NEW c \in Clients, Going(c)
  PROVE  (\A d \in Clients : Undisturbed(d)') /\ Announced'
<1> USE DEF OneInv, EntitledInv
<1>1. ~Idles(c) /\ Working(req[c]) /\ req[c].kind \in Kinds /\ req[c].todo \in Left[req[c].kind]
  BY Acting DEF Going, Working
<1>2. \A d \in Clients \ {c} : req[d] = Idle /\ req'[d] = Idle
  BY <1>1 DEF Alone, Idles, Going, Others
<1>3. PICK t0 \in Ids : req[c].ids = {t0}
  BY <1>1 DEF Working
<1>4. ASSUME Onward(c)
      PROVE  /\ req'[c].ids = req[c].ids /\ req'[c].kind = req[c].kind /\ req[c].kind # "create"
             /\ ~At(c, "delete")'
             /\ ~At(c, "broadcast") \/ req[c].kind # "delete"
             /\ req[c].kind = "delete" => At(c, "broadcast")'
  <2>1. /\ req'[c].ids = req[c].ids /\ req'[c].kind = req[c].kind
        /\ req'[c].todo = Tail(req[c].todo) /\ Tail(req[c].todo) # << >>
    BY <1>4 DEF Onward
  <2>2. Tail(req[c].todo) \in Left[req[c].kind]
    BY <1>1, <2>1, Todo
  <2>3. Head(req'[c].todo) \in {"broadcast", "reload", "list"} /\ req[c].kind # "create"
    BY <1>1, <2>1, Todo
  <2>4. req[c].kind = "delete" => Head(req'[c].todo) = "broadcast"
    <3>1. SUFFICES ASSUME req[c].kind = "delete" PROVE Head(req'[c].todo) = "broadcast"
      OBVIOUS
    <3>2. req[c].todo \in {<<"delete", "broadcast">>, <<"broadcast">>}
      BY <1>1, <3>1 DEF Left
    <3> QED
      BY <2>1, <3>2, Tails
  <2>5. ~At(c, "broadcast") \/ req[c].kind # "delete"
    BY <1>1, <2>1, Todo DEF At
  <2> QED
    BY <2>1, <2>3, <2>4, <2>5 DEF At
<1>5. Undisturbed(c)'
  <2>1. CASE Answered(c)
    BY <2>1, IdleFields, KindsAre DEF Answered, Undisturbed
  <2>2. CASE Onward(c)
    <3>1. CASE req[c].kind = "delete"
      BY <1>4, <2>2, <3>1 DEF Undisturbed
    <3>2. CASE req[c].kind # "delete"
      <4>1. status[t0] \in Statuses
        BY <1>1, <1>3, <1>4, <2>2, <3>2 DEF Undisturbed
      <4>2. status'[t0] \in Statuses
        BY <1>4, <2>2, <3>2, <4>1, RowChanges
      <4> QED
        BY <1>3, <1>4, <2>2, <4>2 DEF Undisturbed
    <3> QED
      BY <3>1, <3>2
  <2> QED
    BY <2>1, <2>2 DEF Going
<1>6. ASSUME NEW d \in Clients \ {c} PROVE Undisturbed(d)'
  BY <1>2, <1>6, IdleFields, KindsAre DEF Undisturbed
<1>7. ASSUME NEW t \in Ids, status'[t] = "deleted"
      PROVE  room'[t] = "deleted" \/ \E d \in Clients : Announcing(d, t)'
  <2>1. CASE status[t] # "deleted"
    <3>1. req[c].kind = "delete" /\ t \in req[c].ids
      BY <1>7, <2>1, RowChanges, StatusesAre
    <3>2. At(c, "delete")
      <4>1. ~Create(c) /\ ~Broadcast(c) /\ ~Reload(c) /\ ~List(c) /\ ~Update(c)
        BY <1>1, <1>7, <2>1, <3>1, Acting DEF Create, Broadcast, Reload, List, Update
      <4> QED
        BY <4>1 DEF Going, Delete
    <3>3. Rest(c) # << >>
      BY <1>1, <3>2, Todo DEF At, Rest
    <3>4. Onward(c)
      <4>1. Done(c, 204)
        BY <1>1, <3>1, <3>2, Acting DEF Going, Create, Delete, Update, Broadcast, Reload, List, At
      <4> QED
        BY <1>1, <3>3, <4>1, AfterDone DEF TypeInv, Rest
    <3>5. Announcing(c, t)'
      BY <1>4, <3>1, <3>4 DEF Announcing
    <3> QED
      BY <3>5
  <2>2. CASE status[t] = "deleted" /\ Announcing(c, t)
    <3>1. Broadcast(c)
      BY <2>2 DEF Going, Announcing, At, Create, Delete, Update, Reload, List
    <3>2. req[c].to = "deleted" /\ t \in req[c].ids
      BY <1>1, <2>2 DEF Working, Fits, Announcing
    <3> QED
      BY <3>1, <3>2 DEF Broadcast, Message
  <2>3. CASE status[t] = "deleted" /\ ~Announcing(c, t)
    <3>1. room[t] = "deleted"
      BY <1>2, <2>3, IdleFields DEF Announced, Announcing
    <3>2. ASSUME Broadcast(c), t \in req[c].ids PROVE FALSE
      <4>1. At(c, "broadcast") /\ req[c].kind # "create" /\ req[c].kind # "delete"
        BY <1>1, <2>3, <3>2, Acting DEF Broadcast, Announcing
      <4> QED
        BY <1>1, <2>3, <3>2, <4>1, StatusesAre DEF Undisturbed
    <3>3. room'[t] = room[t]
      BY <3>2 DEF Going, Create, Delete, Update, Broadcast, Reload, List
    <3> QED
      BY <3>1, <3>3
  <2> QED
    BY <2>1, <2>2, <2>3
<1> QED
  BY <1>5, <1>6, <1>7 DEF Announced

LEMMA OneKept == OneInv /\ [MCNext]_mcvars => OneInv'
<1> SUFFICES ASSUME OneInv, [MCNext]_mcvars PROVE OneInv'
  OBVIOUS
<1>1. EntitledInv' /\ [Next]_vars
  BY EntitledKept DEF OneInv, MCNext, mcvars, vars
<1>2. CASE UNCHANGED mcvars
  BY <1>1, <1>2 DEF mcvars, vars, OneInv, Alone, Undisturbed, Announced, Announcing, Active, Rows, Idles, At
<1>3. ASSUME MCNext, ~overlapped'
      PROVE  Alone' /\ (\A d \in Clients : Undisturbed(d)') /\ Announced'
  <2>1. ~overlapped /\ Alone'
    BY <1>3, OneAtATime
  <2>2. CASE Quick
    BY <2>1, <2>2 DEF Quick, OneInv, Undisturbed, Announced, Announcing, Active, Rows, At
  <2>3. ASSUME NEW c \in Clients, Starting(c) \/ Failing(c) \/ Going(c)
        PROVE  (\A d \in Clients : Undisturbed(d)') /\ Announced'
    BY <1>1, <2>1, <2>3, OneBegins, OneFails, OneGoes
  <2> QED
    BY <1>3, <2>1, <2>2, <2>3, StepsAre DEF MCNext, OneInv, EntitledInv
<1> QED
  BY <1>1, <1>2, <1>3 DEF OneInv

\* Without overlapping requests there is one tournament at a time: CountActive
\* and the Create behind it are two calls, and nothing comes between.
THEOREM CreatedOneAtATime == MCSpec => CreatedAlone
<1>1. OneInv /\ [MCNext]_mcvars =>
        [~overlapped' => \A t \in Ids : status[t] = "new" /\ status'[t] = "setup" => Active = {}]_mcvars
  <2> SUFFICES ASSUME OneInv, MCNext, ~overlapped', NEW t \in Ids, status[t] = "new", status'[t] = "setup"
               PROVE  Active = {}
    OBVIOUS
  <2>1. ~overlapped
    BY OneAtATime
  <2>2. PICK c \in Clients : Going(c)
    BY StepsAre DEF MCNext, OneInv, EntitledInv, Quick, Starting, Failing
  <2>3. req[c].kind = "create"
    BY <2>2, RowChanges, StatusesAre DEF OneInv, EntitledInv, Entitled
  <2> QED
    BY <2>1, <2>3 DEF OneInv, Undisturbed
<1> QED
  BY OneStart, OneKept, <1>1, PTL DEF MCSpec, CreatedAlone

\* Without overlapping requests the viewers of a deleted tournament are told
\* last that it is gone, whichever call failed before: a database call cannot
\* fail between the deletion and its broadcast.
THEOREM DeletionHeardLast == MCSpec => []DeletionIsLastHeard
<1>1. OneInv => DeletionIsLastHeard
  <2> SUFFICES ASSUME OneInv, ~overlapped, InFlight = {}, NEW t \in Ids, status[t] = "deleted"
               PROVE  room[t] = "deleted"
    BY DEF DeletionIsLastHeard
  <2>1. \A c \in Clients : req[c] = Idle
    BY DEF InFlight, Idles
  <2>2. \A c \in Clients : ~Announcing(c, t)
    BY <2>1, IdleFields DEF Announcing
  <2> QED
    BY <2>2 DEF OneInv, Announced
<1> QED
  BY OneStart, OneKept, <1>1, PTL DEF MCSpec

=============================================================================
