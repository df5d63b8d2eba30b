---------------------------- MODULE OAuthStatesProofs ----------------------------
(***************************************************************************)
(* Proofs about module OAuthStates, for any number of browsers, states and *)
(* threads, any cap and any lifetime: its types, that it implements        *)
(* SingleUse, RefusedDeserved and DropsDeserved.                           *)
(***************************************************************************)
EXTENDS OAuthStates, FiniteSetTheorems, FunctionTheorems, TLAPS

(* What a request has in hand at each step.  A state that is being checked   *)
(* has been taken from the table and has let nobody through.                 *)
StepSound(q) ==
  /\ q.op = "login" =>
       /\ q.at \in {"iterate", "prune", "count", "list", "evict", "answer"}
       /\ q.s = None <=> q.at \in {"iterate", "prune"}
       /\ q.s # None => maker[q.s] = q.b
  /\ q.op = "callback" =>
       /\ q.at \in {"consume", "check", "exchange", "refuse"}
       /\ q.s # None /\ maker[q.s] # None
       /\ q.at # "refuse" => maker[q.s] = q.b
  /\ q.at = "check" => q.s \notin Held /\ uses[q.s] = <<>>
  /\ q.at = "exchange" => uses[q.s] # <<>>

StepsSound == \A t \in Thread : req[t] # None => StepSound(req[t])

OneChecks ==
  \A t, u \in Thread : At(t, "check") /\ At(u, "check") /\ req[t].s = req[u].s => t = u

(* A state that has let its browser through is gone from the table.          *)
UsesSound == \A s \in State : uses[s] # <<>> => s \notin Held /\ maker[s] # None

CookiesSound == \A b \in Browser : cookie[b] # None => maker[cookie[b]] = b

(* Why a state may be refused to its own browser, whatever its cookie says.  *)
Checked == {s \in State : \E t \in Thread : At(t, "check") /\ req[t].s = s}

Excused == {s \in State : age[s] >= TTL \/ uses[s] # <<>> \/ s \in lost \/ s \in Checked}

Gone == \A s \in State : maker[s] # None /\ s \notin Held => s \in Excused

CookiesKept ==
  \A s \in State :
    Sent(s) /\ cookie[maker[s]] # s => s \in Excused \/ s \in disturbed

RefusalsSound ==
  \A t \in Thread :
    At(t, "refuse") /\ maker[req[t].s] = req[t].b
      => req[t].s \in Excused \cup disturbed

(* What is to be popped: expired states, or the oldest of too many.          *)
DoomSound(q) ==
  /\ q.at = "iterate" => \A s \in q.old : Expired(s) /\ maker[s] # None
  /\ q.at = "prune" => \A s \in q.doomed : Expired(s) /\ maker[s] # None
  /\ q.at = "list" => IsFiniteSet(q.had) /\ q.over = Cardinality(q.had) - Cap
  /\ q.at = "evict" /\ ~ q.raced => q.doomed \cap q.newest = {}

DoomsSound == \A t \in Thread : req[t] # None => DoomSound(req[t])

IInv ==
  /\ TypeOK /\ StepsSound /\ OneChecks /\ UsesSound /\ CookiesSound
  /\ Gone /\ CookiesKept /\ RefusalsSound /\ DoomsSound
-----------------------------------------------------------------------------
(* The table.                                                                *)

TableOK ==
  /\ table \in Seq(State)
  /\ \A i, j \in DOMAIN table : table[i] = table[j] => i = j

LEMMA DroppedIs ==
  ASSUME TableOK, NEW i \in DOMAIN table, table' = Dropped(i)
  PROVE  TableOK' /\ Held' = Held \ {table[i]}
<1> DEFINE n == Len(table)
<1>1. n \in Nat /\ DOMAIN table = 1..n /\ i \in 1..n /\ \A j \in 1..n : table[j] \in State
  BY DEF TableOK
<1>2. n - 1 \in Nat
  BY <1>1
<1>3. table' = [j \in 1..(n - 1) |-> IF j < i THEN table[j] ELSE table[j + 1]]
  BY DEF Dropped
<1> HIDE DEF n
<1>4. \A j \in 1..(n - 1) : j \in 1..n /\ j + 1 \in 1..n
  BY <1>1
<1>5. table' \in [1..(n - 1) -> State]
  BY <1>1, <1>3, <1>4
<1>6. table' \in Seq(State) /\ DOMAIN table' = 1..(n - 1)
  BY <1>2, <1>5
<1>7. ASSUME NEW j \in 1..(n - 1), NEW k \in 1..(n - 1), table'[j] = table'[k] PROVE j = k
  <2>1. /\ j \in 1..n /\ k \in 1..n /\ j + 1 \in 1..n /\ k + 1 \in 1..n
        /\ j \in Int /\ k \in Int /\ i \in Int
    BY <1>1, <1>4
  <2>2. /\ table'[j] = IF j < i THEN table[j] ELSE table[j + 1]
        /\ table'[k] = IF k < i THEN table[k] ELSE table[k + 1]
    BY <1>3
  <2>3. \A a, c \in 1..n : table[a] = table[c] => a = c
    BY <1>1 DEF TableOK
  <2>4. CASE j < i /\ k < i
    BY <1>7, <2>1, <2>2, <2>3, <2>4
  <2>5. CASE j < i /\ ~ (k < i)
    <3>1. j = k + 1
      BY <1>7, <2>1, <2>2, <2>3, <2>5
    <3> QED BY <2>1, <2>5, <3>1
  <2>6. CASE ~ (j < i) /\ k < i
    <3>1. k = j + 1
      BY <1>7, <2>1, <2>2, <2>3, <2>6
    <3> QED BY <2>1, <2>6, <3>1
  <2>7. CASE ~ (j < i) /\ ~ (k < i)
    <3>1. j + 1 = k + 1
      BY <1>7, <2>1, <2>2, <2>3, <2>7
    <3> QED BY <2>1, <3>1
  <2> QED BY <2>4, <2>5, <2>6, <2>7
<1>8. ASSUME NEW j \in 1..(n - 1) PROVE table'[j] \in Held \ {table[i]}
  <2>1. \A a \in 1..n : a # i => table[a] \in Held \ {table[i]}
    BY <1>1 DEF TableOK, Held
  <2>2. /\ j \in 1..n /\ j + 1 \in 1..n /\ j \in Int /\ i \in Int
        /\ table'[j] = IF j < i THEN table[j] ELSE table[j + 1]
    BY <1>1, <1>3, <1>4
  <2>3. CASE j < i
    BY <2>1, <2>2, <2>3
  <2>4. CASE ~ (j < i)
    <3>1. j + 1 # i
      BY <2>2, <2>4
    <3> QED BY <2>1, <2>2, <2>4, <3>1
  <2> QED BY <2>3, <2>4
<1>9. ASSUME NEW j \in 1..n, j # i PROVE \E k \in 1..(n - 1) : table'[k] = table[j]
  <2>1. CASE j < i
    <3>1. j \in 1..(n - 1)
      BY <1>1, <2>1
    <3> QED BY <1>3, <2>1, <3>1
  <2>2. CASE j > i
    <3>1. j - 1 \in 1..(n - 1) /\ ~ (j - 1 < i) /\ (j - 1) + 1 = j
      BY <1>1, <2>2
    <3> QED BY <1>3, <3>1
  <2> QED BY <1>1, <1>9, <2>1, <2>2
<1>10. Held' = Held \ {table[i]}
  <2>1. Held' \subseteq Held \ {table[i]}
    BY <1>6, <1>8 DEF Held
  <2>2. ASSUME NEW s \in Held \ {table[i]} PROVE s \in Held'
    <3>1. PICK j \in 1..n : table[j] = s
      BY <1>1 DEF Held
    <3>2. PICK k \in 1..(n - 1) : table'[k] = table[j]
      BY <1>9, <2>2, <3>1
    <3> QED BY <1>6, <3>1, <3>2 DEF Held
  <2> QED BY <2>1, <2>2
<1> QED BY <1>6, <1>7, <1>10 DEF TableOK

LEMMA WithoutIs ==
  ASSUME TableOK, NEW s, table' = Without(s)
  PROVE  TableOK' /\ Held' = Held \ {s}
<1>1. CASE s \in Held
  <2> DEFINE i == CHOOSE j \in DOMAIN table : table[j] = s
  <2>1. i \in DOMAIN table /\ table[i] = s
    BY <1>1 DEF Held
  <2>2. table' = Dropped(i)
    BY <1>1 DEF Without
  <2> HIDE DEF i
  <2> QED BY <2>1, <2>2, DroppedIs
<1>2. CASE s \notin Held
  BY <1>2 DEF Without, TableOK, Held
<1> QED BY <1>1, <1>2

LEMMA AppendIs ==
  ASSUME TableOK, NEW s \in State, s \notin Held, table' = Append(table, s)
  PROVE  TableOK' /\ Held' = Held \cup {s}
<1> DEFINE n == Len(table)
<1>1. n \in Nat /\ DOMAIN table = 1..n
  BY DEF TableOK
<1>2. /\ table' \in Seq(State) /\ DOMAIN table' = 1..(n + 1)
      /\ table'[n + 1] = s /\ \A j \in 1..n : table'[j] = table[j]
  BY <1>1 DEF TableOK
<1> HIDE DEF n
<1>3. \A j \in 1..(n + 1) : j \in 1..n \/ j = n + 1
  BY <1>1
<1>4. 1..n \subseteq 1..(n + 1) /\ n + 1 \in 1..(n + 1) /\ n + 1 \notin 1..n
  BY <1>1
<1> QED BY <1>1, <1>2, <1>3, <1>4 DEF TableOK, Held

LEMMA HeldCount ==
  ASSUME TableOK
  PROVE  IsFiniteSet(Held) /\ Cardinality(Held) = Len(table) /\ Held \subseteq State
<1> DEFINE n == Len(table)
<1>1. n \in Nat /\ DOMAIN table = 1..n /\ table \in [1..n -> Held] /\ Held \subseteq State
  BY DEF TableOK, Held
<1>2. table \in Bijection(1..n, Held)
  <2>1. \A a, c \in 1..n : table[a] = table[c] => a = c
    BY <1>1 DEF TableOK
  <2>2. \A s \in Held : \E a \in 1..n : table[a] = s
    BY <1>1 DEF Held
  <2> HIDE DEF n
  <2> QED BY <1>1, <2>1, <2>2, Fun_IsBij
<1>3. IsFiniteSet(1..n) /\ Cardinality(1..n) = n
  BY <1>1, FS_Interval
<1> QED BY <1>1, <1>2, <1>3, FS_Bijection DEF ExistsBijection

LEMMA TypeTable == TypeOK => TableOK
BY DEF TypeOK, TableOK

LEMMA Fields ==
  ASSUME TypeOK, NEW u \in Thread, req[u] # None
  PROVE  /\ req[u] \in Request
         /\ req[u].op \in {"login", "callback"}
         /\ req[u].s \in State \cup {None} /\ req[u].b \in Browser
         /\ req[u].old \subseteq State /\ req[u].doomed \subseteq State
         /\ req[u].had \subseteq State /\ req[u].over \in Nat
BY DEF TypeOK, Request
-----------------------------------------------------------------------------
(* The invariant holds at the start, and every action keeps it.              *)

LEMMA InitInv == Init => IInv
<1> SUFFICES ASSUME Init PROVE IInv
  OBVIOUS
<1> USE OAuthAssumption DEF Init
<1>1. Held = {}
  BY DEF Held
<1>2. TypeOK
  BY <1>1 DEF TypeOK
<1>3. CookiesKept
  BY DEF CookiesKept, Sent
<1> QED
  BY <1>1, <1>2, <1>3 DEF IInv, StepsSound, OneChecks, UsesSound, CookiesSound, Gone, RefusalsSound,
     DoomsSound, At

LEMMA AskLoginInv == ASSUME IInv, NEW t \in Thread, NEW b \in Browser, AskLogin(t, b) PROVE IInv'
<1> USE OAuthAssumption DEF IInv
<1>g. /\ req[t] = None
      /\ UNCHANGED <<table, age, cookie, maker, uses, lost, disturbed>>
  BY DEF AskLogin, tableVars, ghostVars, cookieVars, Begin
<1> DEFINE new ==
  [op |-> "login", at |-> "iterate", b |-> b, s |-> None, size |-> Len(table),
     old |-> {u \in Held : Expired(u)}, doomed |-> {}, over |-> 0,
     had |-> {}, newest |-> {}, raced |-> FALSE]
<1>q. req' = [req EXCEPT ![t] = new]
  BY <1>g DEF AskLogin, tableVars, ghostVars, cookieVars, Begin, At, TypeOK, Request
<1>n. new \in Request
  BY <1>g DEF Request, Held, At, Sent, TypeOK
<1>t. req' \in [Thread -> Request \cup {None}]
  <2> HIDE DEF new
  <2> QED BY <1>q, <1>n DEF TypeOK
<1>r. req'[t] = new /\ req'[t] # None /\ \A u \in Thread : u # t => req'[u] = req[u]
  <2> HIDE DEF new
  <2> QED BY <1>q, <1>n DEF TypeOK
<1>f. /\ req'[t].op = "login"
      /\ req'[t].at = "iterate"
      /\ req'[t].b = b
      /\ req'[t].s = None
      /\ req'[t].old = {u \in Held : Expired(u)}
  BY <1>q, <1>r
<1> HIDE DEF new
<1>h. TableOK' /\ Held' = Held
  BY <1>g, TypeTable DEF TableOK, Held
<1>y. \A u \in Thread : req[u] # None =>
        /\ req[u].op \in {"login", "callback"}
        /\ req[u].s \in State \cup {None} /\ req[u].b \in Browser
        /\ req[u].old \subseteq State /\ req[u].doomed \subseteq State
  BY Fields
<1>z. Held \subseteq State /\ \A x \in Held : maker[x] # None
  BY TypeTable, HeldCount DEF TypeOK
<1>e. \A x \in Excused : maker[x] # None => x \in Excused'
  <2>1. Checked \subseteq Checked'
    <3> SUFFICES ASSUME NEW x \in Checked PROVE x \in Checked'
      OBVIOUS
    <3>1. PICK u \in Thread : At(u, "check") /\ req[u].s = x
      BY DEF Checked
    <3>2. u # t
      BY <1>g, <3>1 DEF At
    <3>3. At(u, "check")' /\ req'[u].s = x
      BY <1>r, <3>1, <3>2 DEF At
    <3> QED BY <3>3 DEF Checked
  <2> QED BY <1>g, <2>1 DEF Excused
<1>1. TypeOK'
  BY <1>g, <1>h, <1>t DEF TypeOK, TableOK
<1>2. StepsSound'
  <2> SUFFICES ASSUME NEW u \in Thread, req'[u] # None PROVE StepSound(req[u])'
    BY DEF StepsSound
  <2>1. CASE u = t
    <3>1. req[t] # None => StepSound(req[t])
      BY DEF StepsSound
    <3> QED BY <1>g, <1>r, <1>h, <1>y, <1>z, <1>f, <2>1, <3>1 DEF StepSound, At, UsesSound
  <2>2. CASE u # t
    <3>1. req'[u] = req[u] /\ req[u] # None /\ StepSound(req[u])
      BY <1>r, <2>2 DEF StepsSound
    <3> QED BY <1>g, <1>h, <1>y, <3>1 DEF StepSound
  <2> QED BY <2>1, <2>2
<1>3. OneChecks'
  BY <1>g, <1>r, <1>h, <1>y, <1>z, <1>f DEF OneChecks, At
<1>4. UsesSound'
  BY <1>g, <1>r, <1>h, <1>y, <1>z, <1>f DEF UsesSound, TypeOK
<1>5. CookiesSound'
  BY <1>g, <1>r, <1>h, <1>y, <1>z, <1>f DEF CookiesSound, StepsSound, StepSound, At, TypeOK
<1>6. Gone'
  BY <1>g, <1>r, <1>h, <1>y, <1>z, <1>f, <1>e DEF Gone, TypeOK
<1>7. CookiesKept'
  <2> SUFFICES ASSUME NEW x \in State, Sent(x)', cookie'[maker'[x]] # x
               PROVE  x \in Excused' \cup disturbed'
    BY DEF CookiesKept
  <2>1. maker[x] # None /\ Sent(x) /\ cookie[maker[x]] # x
    BY <1>g, <1>r, <1>h, <1>y, <1>z, <1>f DEF Sent, At, StepsSound, StepSound
  <2> QED BY <1>e, <1>g, <2>1 DEF CookiesKept
<1>8. RefusalsSound'
  <2> SUFFICES ASSUME NEW u \in Thread, At(u, "refuse")', maker'[req'[u].s] = req'[u].b
               PROVE  req'[u].s \in Excused' \cup disturbed'
    BY DEF RefusalsSound
  <2>1. CASE u = t
    BY <1>g, <1>r, <1>h, <1>y, <1>z, <1>f, <2>1 DEF At, StepsSound, StepSound
  <2>2. CASE u # t
    <3>1. /\ At(u, "refuse") /\ req'[u] = req[u] /\ req[u].s \in State
          /\ maker[req[u].s] # None /\ maker[req[u].s] = req[u].b
      BY <1>g, <1>r, <1>h, <1>y, <1>z, <1>f, <2>2 DEF At, StepsSound, StepSound
    <3>2. req[u].s \in Excused \cup disturbed
      BY <3>1 DEF RefusalsSound
    <3> QED BY <1>e, <1>g, <3>1, <3>2
  <2> QED BY <2>1, <2>2
<1>9. DoomsSound'
  <2> SUFFICES ASSUME NEW u \in Thread, req'[u] # None PROVE DoomSound(req[u])'
    BY DEF DoomsSound
  <2>1. CASE u = t
    BY <1>f, <1>g, <1>r, <1>z, <2>1 DEF DoomSound, Expired
  <2>2. CASE u # t
    <3>1. req'[u] = req[u] /\ req[u] # None /\ DoomSound(req[u])
      BY <1>r, <2>2 DEF DoomsSound
    <3> QED BY <1>g, <1>y, <3>1 DEF DoomSound, Expired
  <2> QED BY <2>1, <2>2
<1> QED BY <1>1, <1>2, <1>3, <1>4, <1>5, <1>6, <1>7, <1>8, <1>9

LEMMA IterationRaisesInv == ASSUME IInv, NEW t \in Thread, IterationRaises(t) PROVE IInv'
<1> USE OAuthAssumption DEF IInv
<1>g. /\ At(t, "iterate")
      /\ UNCHANGED <<table, age, cookie, maker, uses, lost, disturbed>>
  BY DEF IterationRaises, tableVars, ghostVars, cookieVars, Done
<1>q. req' = [req EXCEPT ![t] = None]
  BY DEF IterationRaises, tableVars, ghostVars, cookieVars, Done
<1>t. req' \in [Thread -> Request \cup {None}]
  BY <1>q DEF TypeOK
<1>r. req'[t] = None /\ \A u \in Thread : u # t => req'[u] = req[u]
  BY <1>q DEF TypeOK
<1>h. TableOK' /\ Held' = Held
  BY <1>g, TypeTable DEF TableOK, Held
<1>y. \A u \in Thread : req[u] # None =>
        /\ req[u].op \in {"login", "callback"}
        /\ req[u].s \in State \cup {None} /\ req[u].b \in Browser
        /\ req[u].old \subseteq State /\ req[u].doomed \subseteq State
  BY Fields
<1>z. Held \subseteq State /\ \A x \in Held : maker[x] # None
  BY TypeTable, HeldCount DEF TypeOK
<1>e. \A x \in Excused : maker[x] # None => x \in Excused'
  <2>1. Checked \subseteq Checked'
    <3> SUFFICES ASSUME NEW x \in Checked PROVE x \in Checked'
      OBVIOUS
    <3>1. PICK u \in Thread : At(u, "check") /\ req[u].s = x
      BY DEF Checked
    <3>2. u # t
      BY <1>g, <3>1 DEF At
    <3>3. At(u, "check")' /\ req'[u].s = x
      BY <1>r, <3>1, <3>2 DEF At
    <3> QED BY <3>3 DEF Checked
  <2> QED BY <1>g, <2>1 DEF Excused
<1>1. TypeOK'
  BY <1>g, <1>h, <1>t DEF TypeOK, TableOK
<1>2. StepsSound'
  <2> SUFFICES ASSUME NEW u \in Thread, req'[u] # None PROVE StepSound(req[u])'
    BY DEF StepsSound
  <2>1. CASE u = t
    <3>1. req[t] # None => StepSound(req[t])
      BY DEF StepsSound
    <3> QED BY <1>g, <1>r, <1>h, <1>y, <1>z, <2>1, <3>1 DEF StepSound, At, UsesSound
  <2>2. CASE u # t
    <3>1. req'[u] = req[u] /\ req[u] # None /\ StepSound(req[u])
      BY <1>r, <2>2 DEF StepsSound
    <3> QED BY <1>g, <1>h, <1>y, <3>1 DEF StepSound
  <2> QED BY <2>1, <2>2
<1>3. OneChecks'
  BY <1>g, <1>r, <1>h, <1>y, <1>z DEF OneChecks, At
<1>4. UsesSound'
  BY <1>g, <1>r, <1>h, <1>y, <1>z DEF UsesSound, TypeOK
<1>5. CookiesSound'
  BY <1>g, <1>r, <1>h, <1>y, <1>z DEF CookiesSound, StepsSound, StepSound, At, TypeOK
<1>6. Gone'
  BY <1>g, <1>r, <1>h, <1>y, <1>z, <1>e DEF Gone, TypeOK
<1>7. CookiesKept'
  <2> SUFFICES ASSUME NEW x \in State, Sent(x)', cookie'[maker'[x]] # x
               PROVE  x \in Excused' \cup disturbed'
    BY DEF CookiesKept
  <2>1. maker[x] # None /\ Sent(x) /\ cookie[maker[x]] # x
    BY <1>g, <1>r, <1>h, <1>y, <1>z DEF Sent, At, StepsSound, StepSound
  <2> QED BY <1>e, <1>g, <2>1 DEF CookiesKept
<1>8. RefusalsSound'
  <2> SUFFICES ASSUME NEW u \in Thread, At(u, "refuse")', maker'[req'[u].s] = req'[u].b
               PROVE  req'[u].s \in Excused' \cup disturbed'
    BY DEF RefusalsSound
  <2>1. CASE u = t
    BY <1>g, <1>r, <1>h, <1>y, <1>z, <2>1 DEF At, StepsSound, StepSound
  <2>2. CASE u # t
    <3>1. /\ At(u, "refuse") /\ req'[u] = req[u] /\ req[u].s \in State
          /\ maker[req[u].s] # None /\ maker[req[u].s] = req[u].b
      BY <1>g, <1>r, <1>h, <1>y, <1>z, <2>2 DEF At, StepsSound, StepSound
    <3>2. req[u].s \in Excused \cup disturbed
      BY <3>1 DEF RefusalsSound
    <3> QED BY <1>e, <1>g, <3>1, <3>2
  <2> QED BY <2>1, <2>2
<1>9. DoomsSound'
  <2> SUFFICES ASSUME NEW u \in Thread, req'[u] # None PROVE DoomSound(req[u])'
    BY DEF DoomsSound
  <2>1. CASE u = t
    <3>1. req[t] # None => DoomSound(req[t])
      BY DEF DoomsSound
    <3> QED BY <1>g, <1>r, <1>h, <1>y, <1>z, <2>1, <3>1 DEF DoomSound, Expired, At
  <2>2. CASE u # t
    <3>1. req'[u] = req[u] /\ req[u] # None /\ DoomSound(req[u])
      BY <1>r, <2>2 DEF DoomsSound
    <3> QED BY <1>g, <1>y, <3>1 DEF DoomSound, Expired
  <2> QED BY <2>1, <2>2
<1> QED BY <1>1, <1>2, <1>3, <1>4, <1>5, <1>6, <1>7, <1>8, <1>9

LEMMA CollectInv == ASSUME IInv, NEW t \in Thread, Collect(t) PROVE IInv'
<1> USE OAuthAssumption DEF IInv
<1>g. /\ At(t, "iterate")
      /\ UNCHANGED <<table, age, cookie, maker, uses, lost, disturbed>>
  BY DEF Collect, tableVars, ghostVars, cookieVars
<1> DEFINE new ==
  [req[t] EXCEPT !.at = "prune", !.size = 0, !.old = {}, !.doomed = req[t].old]
<1>q. req' = [req EXCEPT ![t] = new]
  BY <1>g DEF Collect, tableVars, ghostVars, cookieVars, At, TypeOK, Request
<1>n. new \in Request
  <2>1. req[t] \in Request /\ req[t].old \subseteq State
    BY <1>g, Fields DEF At
  <2> QED BY <2>1 DEF Request
<1>t. req' \in [Thread -> Request \cup {None}]
  <2> HIDE DEF new
  <2> QED BY <1>q, <1>n DEF TypeOK
<1>r. req'[t] = new /\ req'[t] # None /\ \A u \in Thread : u # t => req'[u] = req[u]
  <2> HIDE DEF new
  <2> QED BY <1>q, <1>n DEF TypeOK
<1>f. /\ req'[t].op = req[t].op
      /\ req'[t].b = req[t].b
      /\ req'[t].s = req[t].s
      /\ req'[t].at = "prune"
      /\ req'[t].doomed = req[t].old
  BY <1>g, <1>r DEF At, TypeOK, Request
<1> HIDE DEF new
<1>h. TableOK' /\ Held' = Held
  BY <1>g, TypeTable DEF TableOK, Held
<1>y. \A u \in Thread : req[u] # None =>
        /\ req[u].op \in {"login", "callback"}
        /\ req[u].s \in State \cup {None} /\ req[u].b \in Browser
        /\ req[u].old \subseteq State /\ req[u].doomed \subseteq State
  BY Fields
<1>z. Held \subseteq State /\ \A x \in Held : maker[x] # None
  BY TypeTable, HeldCount DEF TypeOK
<1>e. \A x \in Excused : maker[x] # None => x \in Excused'
  <2>1. Checked \subseteq Checked'
    <3> SUFFICES ASSUME NEW x \in Checked PROVE x \in Checked'
      OBVIOUS
    <3>1. PICK u \in Thread : At(u, "check") /\ req[u].s = x
      BY DEF Checked
    <3>2. u # t
      BY <1>g, <3>1 DEF At
    <3>3. At(u, "check")' /\ req'[u].s = x
      BY <1>r, <3>1, <3>2 DEF At
    <3> QED BY <3>3 DEF Checked
  <2> QED BY <1>g, <2>1 DEF Excused
<1>1. TypeOK'
  BY <1>g, <1>h, <1>t DEF TypeOK, TableOK
<1>2. StepsSound'
  <2> SUFFICES ASSUME NEW u \in Thread, req'[u] # None PROVE StepSound(req[u])'
    BY DEF StepsSound
  <2>1. CASE u = t
    <3>1. req[t] # None => StepSound(req[t])
      BY DEF StepsSound
    <3> QED BY <1>g, <1>r, <1>h, <1>y, <1>z, <1>f, <2>1, <3>1 DEF StepSound, At, UsesSound
  <2>2. CASE u # t
    <3>1. req'[u] = req[u] /\ req[u] # None /\ StepSound(req[u])
      BY <1>r, <2>2 DEF StepsSound
    <3> QED BY <1>g, <1>h, <1>y, <3>1 DEF StepSound
  <2> QED BY <2>1, <2>2
<1>3. OneChecks'
  BY <1>g, <1>r, <1>h, <1>y, <1>z, <1>f DEF OneChecks, At
<1>4. UsesSound'
  BY <1>g, <1>r, <1>h, <1>y, <1>z, <1>f DEF UsesSound, TypeOK
<1>5. CookiesSound'
  BY <1>g, <1>r, <1>h, <1>y, <1>z, <1>f DEF CookiesSound, StepsSound, StepSound, At, TypeOK
<1>6. Gone'
  BY <1>g, <1>r, <1>h, <1>y, <1>z, <1>f, <1>e DEF Gone, TypeOK
<1>7. CookiesKept'
  <2> SUFFICES ASSUME NEW x \in State, Sent(x)', cookie'[maker'[x]] # x
               PROVE  x \in Excused' \cup disturbed'
    BY DEF CookiesKept
  <2>1. maker[x] # None /\ Sent(x) /\ cookie[maker[x]] # x
    BY <1>g, <1>r, <1>h, <1>y, <1>z, <1>f DEF Sent, At, StepsSound, StepSound
  <2> QED BY <1>e, <1>g, <2>1 DEF CookiesKept
<1>8. RefusalsSound'
  <2> SUFFICES ASSUME NEW u \in Thread, At(u, "refuse")', maker'[req'[u].s] = req'[u].b
               PROVE  req'[u].s \in Excused' \cup disturbed'
    BY DEF RefusalsSound
  <2>1. CASE u = t
    BY <1>g, <1>r, <1>h, <1>y, <1>z, <1>f, <2>1 DEF At, StepsSound, StepSound
  <2>2. CASE u # t
    <3>1. /\ At(u, "refuse") /\ req'[u] = req[u] /\ req[u].s \in State
          /\ maker[req[u].s] # None /\ maker[req[u].s] = req[u].b
      BY <1>g, <1>r, <1>h, <1>y, <1>z, <1>f, <2>2 DEF At, StepsSound, StepSound
    <3>2. req[u].s \in Excused \cup disturbed
      BY <3>1 DEF RefusalsSound
    <3> QED BY <1>e, <1>g, <3>1, <3>2
  <2> QED BY <2>1, <2>2
<1>9. DoomsSound'
  <2> SUFFICES ASSUME NEW u \in Thread, req'[u] # None PROVE DoomSound(req[u])'
    BY DEF DoomsSound
  <2>1. CASE u = t
    <3>1. req[t] # None => DoomSound(req[t])
      BY DEF DoomsSound
    <3> QED BY <1>g, <1>r, <1>h, <1>y, <1>z, <1>f, <2>1, <3>1 DEF DoomSound, Expired, At
  <2>2. CASE u # t
    <3>1. req'[u] = req[u] /\ req[u] # None /\ DoomSound(req[u])
      BY <1>r, <2>2 DEF DoomsSound
    <3> QED BY <1>g, <1>y, <3>1 DEF DoomSound, Expired
  <2> QED BY <2>1, <2>2
<1> QED BY <1>1, <1>2, <1>3, <1>4, <1>5, <1>6, <1>7, <1>8, <1>9

LEMMA PopDoomedInv == ASSUME IInv, NEW t \in Thread, PopDoomed(t) PROVE IInv'
<1> USE OAuthAssumption DEF IInv
<1>i. PICK i \in Left(t) :
        /\ table' = Dropped(i)
        /\ lost' = IF Expired(table[i]) THEN lost ELSE lost \cup {table[i]}
        /\ req' = [req EXCEPT ![t].doomed = @ \ {table[i]}]
  BY DEF PopDoomed
<1>j. i \in DOMAIN table /\ table[i] \in req[t].doomed /\ table[i] \in State /\ table[i] \in Held
  BY <1>i DEF Left, TypeOK, Held
<1>g. /\ At(t, "prune") \/ At(t, "evict")
      /\ table' = Dropped(i)
      /\ lost' = IF Expired(table[i]) THEN lost ELSE lost \cup {table[i]}
      /\ UNCHANGED <<age, cookie, maker, uses, disturbed>>
  BY <1>i DEF PopDoomed, tableVars, ghostVars, cookieVars
<1> DEFINE new ==
  [req[t] EXCEPT !.doomed = req[t].doomed \ {table[i]}]
<1>q. req' = [req EXCEPT ![t] = new]
  BY <1>i, <1>g DEF PopDoomed, tableVars, ghostVars, cookieVars, At, TypeOK, Request
<1>n. new \in Request
  BY <1>g, <1>j, Fields DEF Request, Held, At, Sent
<1>t. req' \in [Thread -> Request \cup {None}]
  <2> HIDE DEF new
  <2> QED BY <1>q, <1>n DEF TypeOK
<1>r. req'[t] = new /\ req'[t] # None /\ \A u \in Thread : u # t => req'[u] = req[u]
  <2> HIDE DEF new
  <2> QED BY <1>q, <1>n DEF TypeOK
<1>f. /\ req'[t].op = req[t].op
      /\ req'[t].b = req[t].b
      /\ req'[t].s = req[t].s
      /\ req'[t].at = req[t].at
      /\ req'[t].newest = req[t].newest
      /\ req'[t].raced = req[t].raced
      /\ req'[t].doomed = req[t].doomed \ {table[i]}
  BY <1>g, <1>r DEF At, TypeOK, Request
<1> HIDE DEF new
<1>h. TableOK' /\ Held' = Held \ {table[i]}
  <2>1. TableOK
    BY TypeTable
  <2>2. table' = Dropped(i) /\ i \in DOMAIN table
    BY <1>i, <1>j
  <2> QED BY <2>1, <2>2, DroppedIs
<1>y. \A u \in Thread : req[u] # None =>
        /\ req[u].op \in {"login", "callback"}
        /\ req[u].s \in State \cup {None} /\ req[u].b \in Browser
        /\ req[u].old \subseteq State /\ req[u].doomed \subseteq State
  BY Fields
<1>z. Held \subseteq State /\ \A x \in Held : maker[x] # None
  BY TypeTable, HeldCount DEF TypeOK
<1>e. \A x \in Excused : maker[x] # None => x \in Excused'
  <2>1. Checked \subseteq Checked'
    <3> SUFFICES ASSUME NEW x \in Checked PROVE x \in Checked'
      OBVIOUS
    <3>1. PICK u \in Thread : At(u, "check") /\ req[u].s = x
      BY DEF Checked
    <3>2. u # t
      BY <1>g, <3>1 DEF At
    <3>3. At(u, "check")' /\ req'[u].s = x
      BY <1>r, <3>1, <3>2 DEF At
    <3> QED BY <3>3 DEF Checked
  <2> QED BY <1>g, <2>1 DEF Excused
<1>1. TypeOK'
  <2>1. lost' \subseteq State
    BY <1>g, <1>j DEF TypeOK
  <2> QED BY <1>g, <1>h, <1>t, <2>1 DEF TypeOK, TableOK
<1>2. StepsSound'
  <2> SUFFICES ASSUME NEW u \in Thread, req'[u] # None PROVE StepSound(req[u])'
    BY DEF StepsSound
  <2>1. CASE u = t
    <3>1. req[t] # None => StepSound(req[t])
      BY DEF StepsSound
    <3> QED BY <1>g, <1>r, <1>h, <1>y, <1>z, <1>f, <1>j, <2>1, <3>1 DEF StepSound, At, UsesSound
  <2>2. CASE u # t
    <3>1. req'[u] = req[u] /\ req[u] # None /\ StepSound(req[u])
      BY <1>r, <2>2 DEF StepsSound
    <3> QED BY <1>g, <1>h, <1>y, <3>1 DEF StepSound
  <2> QED BY <2>1, <2>2
<1>3. OneChecks'
  BY <1>g, <1>r, <1>h, <1>y, <1>z, <1>f, <1>j DEF OneChecks, At
<1>4. UsesSound'
  BY <1>g, <1>r, <1>h, <1>y, <1>z, <1>f, <1>j DEF UsesSound, TypeOK
<1>5. CookiesSound'
  BY <1>g, <1>r, <1>h, <1>y, <1>z, <1>f, <1>j DEF CookiesSound, StepsSound, StepSound, At, TypeOK
<1>6. Gone'
  <2> SUFFICES ASSUME NEW s \in State, maker[s] # None, s \notin Held' PROVE s \in Excused'
    BY <1>g DEF Gone
  <2>1. CASE s = table[i]
    BY <1>g, <1>j, <2>1 DEF Excused, Expired, TypeOK
  <2>2. CASE s # table[i]
    BY <1>e, <1>h, <2>2 DEF Gone
  <2> QED BY <2>1, <2>2
<1>7. CookiesKept'
  <2> SUFFICES ASSUME NEW x \in State, Sent(x)', cookie'[maker'[x]] # x
               PROVE  x \in Excused' \cup disturbed'
    BY DEF CookiesKept
  <2>1. maker[x] # None /\ Sent(x) /\ cookie[maker[x]] # x
    BY <1>g, <1>r, <1>h, <1>y, <1>z, <1>f, <1>j DEF Sent, At, StepsSound, StepSound
  <2> QED BY <1>e, <1>g, <2>1 DEF CookiesKept
<1>8. RefusalsSound'
  <2> SUFFICES ASSUME NEW u \in Thread, At(u, "refuse")', maker'[req'[u].s] = req'[u].b
               PROVE  req'[u].s \in Excused' \cup disturbed'
    BY DEF RefusalsSound
  <2>1. CASE u = t
    BY <1>g, <1>r, <1>h, <1>y, <1>z, <1>f, <1>j, <2>1 DEF At, StepsSound, StepSound
  <2>2. CASE u # t
    <3>1. /\ At(u, "refuse") /\ req'[u] = req[u] /\ req[u].s \in State
          /\ maker[req[u].s] # None /\ maker[req[u].s] = req[u].b
      BY <1>g, <1>r, <1>h, <1>y, <1>z, <1>f, <1>j, <2>2 DEF At, StepsSound, StepSound
    <3>2. req[u].s \in Excused \cup disturbed
      BY <3>1 DEF RefusalsSound
    <3> QED BY <1>e, <1>g, <3>1, <3>2
  <2> QED BY <2>1, <2>2
<1>9. DoomsSound'
  <2> SUFFICES ASSUME NEW u \in Thread, req'[u] # None PROVE DoomSound(req[u])'
    BY DEF DoomsSound
  <2>1. CASE u = t
    <3>1. req[t] # None => DoomSound(req[t])
      BY DEF DoomsSound
    <3> QED BY <1>g, <1>r, <1>h, <1>y, <1>z, <1>f, <1>j, <2>1, <3>1 DEF DoomSound, Expired, At
  <2>2. CASE u # t
    <3>1. req'[u] = req[u] /\ req[u] # None /\ DoomSound(req[u])
      BY <1>r, <2>2 DEF DoomsSound
    <3> QED BY <1>g, <1>y, <3>1 DEF DoomSound, Expired
  <2> QED BY <2>1, <2>2
<1> QED BY <1>1, <1>2, <1>3, <1>4, <1>5, <1>6, <1>7, <1>8, <1>9

LEMMA InsertInv == ASSUME IInv, NEW t \in Thread, NEW s \in State, Insert(t, s) PROVE IInv'
<1> USE OAuthAssumption DEF IInv
<1>g. /\ At(t, "prune")
      /\ maker[s] = None
      /\ table' = Append(table, s)
      /\ age' = [age EXCEPT ![s] = 0]
      /\ maker' = [maker EXCEPT ![s] = req[t].b]
      /\ UNCHANGED <<cookie, uses, lost, disturbed>>
  BY DEF Insert, tableVars, ghostVars, cookieVars
<1> DEFINE new ==
  [req[t] EXCEPT !.at = "count", !.s = s, !.doomed = {}]
<1>q. req' = [req EXCEPT ![t] = new]
  BY <1>g DEF Insert, tableVars, ghostVars, cookieVars, At, TypeOK, Request
<1>n. new \in Request
  <2>1. req[t] \in Request
    BY <1>g, Fields DEF At
  <2> QED BY <2>1 DEF Request
<1>t. req' \in [Thread -> Request \cup {None}]
  <2> HIDE DEF new
  <2> QED BY <1>q, <1>n DEF TypeOK
<1>r. req'[t] = new /\ req'[t] # None /\ \A u \in Thread : u # t => req'[u] = req[u]
  <2> HIDE DEF new
  <2> QED BY <1>q, <1>n DEF TypeOK
<1>f. /\ req'[t].op = req[t].op
      /\ req'[t].b = req[t].b
      /\ req'[t].s = s
      /\ req'[t].at = "count"
  BY <1>g, <1>r DEF At, TypeOK, Request
<1> HIDE DEF new
<1>h. TableOK' /\ Held' = Held \cup {s} /\ s \notin Held
  BY <1>g, TypeTable, AppendIs DEF TypeOK
<1>y. \A u \in Thread : req[u] # None =>
        /\ req[u].op \in {"login", "callback"}
        /\ req[u].s \in State \cup {None} /\ req[u].b \in Browser
        /\ req[u].old \subseteq State /\ req[u].doomed \subseteq State
  BY Fields
<1>z. Held \subseteq State /\ \A x \in Held : maker[x] # None
  BY TypeTable, HeldCount DEF TypeOK
<1>e. \A x \in Excused : maker[x] # None => x \in Excused'
  <2>1. Checked \subseteq Checked'
    <3> SUFFICES ASSUME NEW x \in Checked PROVE x \in Checked'
      OBVIOUS
    <3>1. PICK u \in Thread : At(u, "check") /\ req[u].s = x
      BY DEF Checked
    <3>2. u # t
      BY <1>g, <3>1 DEF At
    <3>3. At(u, "check")' /\ req'[u].s = x
      BY <1>r, <3>1, <3>2 DEF At
    <3> QED BY <3>3 DEF Checked
  <2> QED BY <1>g, <2>1 DEF Excused, TypeOK
<1>1. TypeOK'
  <2>1. age' \in [State -> 0..(TTL + 1)] /\ maker' \in [State -> Browser \cup {None}]
    <3>1. 0 \in 0..(TTL + 1) /\ req[t].b \in Browser
      BY <1>g, Fields DEF At
    <3> QED BY <1>g, <3>1 DEF TypeOK
  <2>2. \A x \in Held' : maker'[x] # None
    <3>1. req[t].b \in Browser /\ maker'[s] = req[t].b
      BY <1>g, Fields DEF At, TypeOK
    <3> QED BY <1>g, <1>h, <1>z, <3>1 DEF TypeOK
  <2> QED BY <1>g, <1>h, <1>t, <2>1, <2>2 DEF TypeOK, TableOK
<1>2. StepsSound'
  <2>1. \A x \in State : x # s => maker'[x] = maker[x]
    BY <1>g DEF TypeOK
  <2>2. maker'[s] = req[t].b /\ maker[s] = None
    BY <1>g DEF TypeOK
  <2> SUFFICES ASSUME NEW u \in Thread, req'[u] # None PROVE StepSound(req[u])'
    BY DEF StepsSound
  <2>3. CASE u = t
    <3>1. req[t] # None /\ StepSound(req[t]) /\ req[t].op = "login"
      BY <1>g, <1>y DEF StepsSound, StepSound, At
    <3> QED BY <1>f, <1>r, <2>2, <2>3, <3>1 DEF StepSound
  <2>4. CASE u # t
    <3>1. req'[u] = req[u] /\ req[u] # None /\ StepSound(req[u])
      BY <1>r, <2>4 DEF StepsSound
    <3>2. CASE req[u].s = s
      <4>1. FALSE
        BY <1>y, <2>2, <3>1, <3>2 DEF StepSound
      <4> QED BY <4>1
    <3>3. CASE req[u].s # s
      BY <1>g, <1>h, <1>y, <2>1, <3>1, <3>3 DEF StepSound
    <3> QED BY <3>2, <3>3
  <2> QED BY <2>3, <2>4
<1>3. OneChecks'
  BY <1>g, <1>r, <1>h, <1>y, <1>z, <1>f DEF OneChecks, At
<1>4. UsesSound'
  BY <1>g, <1>r, <1>h, <1>y, <1>z, <1>f DEF UsesSound, TypeOK
<1>5. CookiesSound'
  BY <1>g, <1>r, <1>h, <1>y, <1>z, <1>f DEF CookiesSound, StepsSound, StepSound, At, TypeOK
<1>6. Gone'
  BY <1>g, <1>r, <1>h, <1>y, <1>z, <1>f, <1>e DEF Gone, TypeOK
<1>7. CookiesKept'
  <2> SUFFICES ASSUME NEW x \in State, Sent(x)', cookie'[maker'[x]] # x
               PROVE  x \in Excused' \cup disturbed'
    BY DEF CookiesKept
  <2>1. maker[x] # None /\ Sent(x) /\ cookie[maker[x]] # x
    BY <1>g, <1>r, <1>h, <1>y, <1>z, <1>f DEF Sent, At, StepsSound, StepSound
  <2> QED BY <1>e, <1>g, <2>1 DEF CookiesKept
<1>8. RefusalsSound'
  <2> SUFFICES ASSUME NEW u \in Thread, At(u, "refuse")', maker'[req'[u].s] = req'[u].b
               PROVE  req'[u].s \in Excused' \cup disturbed'
    BY DEF RefusalsSound
  <2>1. CASE u = t
    BY <1>g, <1>r, <1>h, <1>y, <1>z, <1>f, <2>1 DEF At, StepsSound, StepSound
  <2>2. CASE u # t
    <3>1. /\ At(u, "refuse") /\ req'[u] = req[u] /\ req[u].s \in State
          /\ maker[req[u].s] # None /\ maker[req[u].s] = req[u].b
      BY <1>g, <1>r, <1>h, <1>y, <1>z, <1>f, <2>2 DEF At, StepsSound, StepSound
    <3>2. req[u].s \in Excused \cup disturbed
      BY <3>1 DEF RefusalsSound
    <3> QED BY <1>e, <1>g, <3>1, <3>2
  <2> QED BY <2>1, <2>2
<1>9. DoomsSound'
  <2> SUFFICES ASSUME NEW u \in Thread, req'[u] # None PROVE DoomSound(req[u])'
    BY DEF DoomsSound
  <2>1. CASE u = t
    <3>1. req[t] # None => DoomSound(req[t])
      BY DEF DoomsSound
    <3> QED BY <1>f, <1>r, <2>1, <3>1 DEF DoomSound
  <2>2. CASE u # t
    <3>1. req'[u] = req[u] /\ req[u] # None /\ DoomSound(req[u])
      BY <1>r, <2>2 DEF DoomsSound
    <3>2. \A x \in State : maker[x] # None => maker'[x] # None /\ age'[x] = age[x]
      BY <1>g DEF TypeOK
    <3> QED BY <1>g, <1>y, <3>1, <3>2 DEF DoomSound, Expired
  <2> QED BY <2>1, <2>2
<1> QED BY <1>1, <1>2, <1>3, <1>4, <1>5, <1>6, <1>7, <1>8, <1>9

LEMMA CountOverflowInv == ASSUME IInv, NEW t \in Thread, CountOverflow(t) PROVE IInv'
<1> USE OAuthAssumption DEF IInv
<1>g. /\ At(t, "count")
      /\ UNCHANGED <<table, age, cookie, maker, uses, lost, disturbed>>
  BY DEF CountOverflow, tableVars, ghostVars, cookieVars
<1> DEFINE new ==
  IF Overflow > 0
   THEN [req[t] EXCEPT !.at = "list", !.over = Overflow, !.had = Held]
   ELSE [req[t] EXCEPT !.at = "answer"]
<1>q. req' = [req EXCEPT ![t] = new]
  BY <1>g DEF CountOverflow, tableVars, ghostVars, cookieVars, At, TypeOK, Request
<1>n. new \in Request
  <2>1. req[t] \in Request
    BY <1>g, Fields DEF At
  <2>2. Held \subseteq State /\ Overflow \in Int
    BY TypeTable, HeldCount DEF Overflow, TypeOK
  <2>3. CASE Overflow > 0
    <3>1. Overflow \in Nat
      BY <2>2, <2>3
    <3> HIDE DEF Overflow
    <3> QED BY <2>1, <2>2, <2>3, <3>1 DEF Request
  <2>4. CASE ~ (Overflow > 0)
    BY <2>1, <2>4 DEF Request
  <2> QED BY <2>3, <2>4
<1>t. req' \in [Thread -> Request \cup {None}]
  <2> HIDE DEF new
  <2> QED BY <1>q, <1>n DEF TypeOK
<1>r. req'[t] = new /\ req'[t] # None /\ \A u \in Thread : u # t => req'[u] = req[u]
  <2> HIDE DEF new
  <2> QED BY <1>q, <1>n DEF TypeOK
<1>f. /\ req'[t].op = req[t].op
      /\ req'[t].b = req[t].b
      /\ req'[t].s = req[t].s
      /\ \/ req'[t].at = "answer"
         \/ req'[t].at = "list" /\ req'[t].over = Overflow /\ req'[t].had = Held
  BY <1>g, <1>r DEF At, TypeOK, Request
<1> HIDE DEF new
<1>h. TableOK' /\ Held' = Held
  BY <1>g, TypeTable DEF TableOK, Held
<1>y. \A u \in Thread : req[u] # None =>
        /\ req[u].op \in {"login", "callback"}
        /\ req[u].s \in State \cup {None} /\ req[u].b \in Browser
        /\ req[u].old \subseteq State /\ req[u].doomed \subseteq State
  BY Fields
<1>z. Held \subseteq State /\ \A x \in Held : maker[x] # None
  BY TypeTable, HeldCount DEF TypeOK
<1>e. \A x \in Excused : maker[x] # None => x \in Excused'
  <2>1. Checked \subseteq Checked'
    <3> SUFFICES ASSUME NEW x \in Checked PROVE x \in Checked'
      OBVIOUS
    <3>1. PICK u \in Thread : At(u, "check") /\ req[u].s = x
      BY DEF Checked
    <3>2. u # t
      BY <1>g, <3>1 DEF At
    <3>3. At(u, "check")' /\ req'[u].s = x
      BY <1>r, <3>1, <3>2 DEF At
    <3> QED BY <3>3 DEF Checked
  <2> QED BY <1>g, <2>1 DEF Excused
<1>1. TypeOK'
  BY <1>g, <1>h, <1>t DEF TypeOK, TableOK
<1>2. StepsSound'
  <2> SUFFICES ASSUME NEW u \in Thread, req'[u] # None PROVE StepSound(req[u])'
    BY DEF StepsSound
  <2>1. CASE u = t
    <3>1. req[t] # None => StepSound(req[t])
      BY DEF StepsSound
    <3> QED BY <1>g, <1>r, <1>h, <1>y, <1>z, <1>f, <2>1, <3>1 DEF StepSound, At, UsesSound
  <2>2. CASE u # t
    <3>1. req'[u] = req[u] /\ req[u] # None /\ StepSound(req[u])
      BY <1>r, <2>2 DEF StepsSound
    <3> QED BY <1>g, <1>h, <1>y, <3>1 DEF StepSound
  <2> QED BY <2>1, <2>2
<1>3. OneChecks'
  BY <1>g, <1>r, <1>h, <1>y, <1>z, <1>f DEF OneChecks, At
<1>4. UsesSound'
  BY <1>g, <1>r, <1>h, <1>y, <1>z, <1>f DEF UsesSound, TypeOK
<1>5. CookiesSound'
  BY <1>g, <1>r, <1>h, <1>y, <1>z, <1>f DEF CookiesSound, StepsSound, StepSound, At, TypeOK
<1>6. Gone'
  BY <1>g, <1>r, <1>h, <1>y, <1>z, <1>f, <1>e DEF Gone, TypeOK
<1>7. CookiesKept'
  <2> SUFFICES ASSUME NEW x \in State, Sent(x)', cookie'[maker'[x]] # x
               PROVE  x \in Excused' \cup disturbed'
    BY DEF CookiesKept
  <2>1. maker[x] # None /\ Sent(x) /\ cookie[maker[x]] # x
    BY <1>g, <1>r, <1>h, <1>y, <1>z, <1>f DEF Sent, At, StepsSound, StepSound
  <2> QED BY <1>e, <1>g, <2>1 DEF CookiesKept
<1>8. RefusalsSound'
  <2> SUFFICES ASSUME NEW u \in Thread, At(u, "refuse")', maker'[req'[u].s] = req'[u].b
               PROVE  req'[u].s \in Excused' \cup disturbed'
    BY DEF RefusalsSound
  <2>1. CASE u = t
    BY <1>g, <1>r, <1>h, <1>y, <1>z, <1>f, <2>1 DEF At, StepsSound, StepSound
  <2>2. CASE u # t
    <3>1. /\ At(u, "refuse") /\ req'[u] = req[u] /\ req[u].s \in State
          /\ maker[req[u].s] # None /\ maker[req[u].s] = req[u].b
      BY <1>g, <1>r, <1>h, <1>y, <1>z, <1>f, <2>2 DEF At, StepsSound, StepSound
    <3>2. req[u].s \in Excused \cup disturbed
      BY <3>1 DEF RefusalsSound
    <3> QED BY <1>e, <1>g, <3>1, <3>2
  <2> QED BY <2>1, <2>2
<1>9. DoomsSound'
  <2> SUFFICES ASSUME NEW u \in Thread, req'[u] # None PROVE DoomSound(req[u])'
    BY DEF DoomsSound
  <2>1. CASE u = t
    <3>1. IsFiniteSet(Held) /\ Overflow = Cardinality(Held) - Cap
      BY TypeTable, HeldCount DEF Overflow
    <3> QED BY <1>f, <1>r, <2>1, <3>1 DEF DoomSound
  <2>2. CASE u # t
    <3>1. req'[u] = req[u] /\ req[u] # None /\ DoomSound(req[u])
      BY <1>r, <2>2 DEF DoomsSound
    <3> QED BY <1>g, <1>y, <3>1 DEF DoomSound, Expired
  <2> QED BY <2>1, <2>2
<1> QED BY <1>1, <1>2, <1>3, <1>4, <1>5, <1>6, <1>7, <1>8, <1>9

LEMMA ListOldestInv == ASSUME IInv, NEW t \in Thread, ListOldest(t) PROVE IInv'
<1> USE OAuthAssumption DEF IInv
<1> DEFINE n == IF req[t].over < Len(table) THEN req[t].over ELSE Len(table)
           k == IF Len(table) > Cap THEN Len(table) - Cap ELSE 0
<1>g. /\ At(t, "list")
      /\ UNCHANGED <<table, age, cookie, maker, uses, lost, disturbed>>
  BY DEF ListOldest, tableVars, ghostVars, cookieVars
<1> DEFINE new ==
  [req[t] EXCEPT !.at = "evict", !.doomed = {table[i] : i \in 1..n}, !.over = 0, !.had = {},
     !.newest = {table[i] : i \in (k + 1)..Len(table)}, !.raced = ~ (req[t].had \subseteq Held)]
<1>q. req' = [req EXCEPT ![t] = new]
  BY <1>g DEF ListOldest, tableVars, ghostVars, cookieVars, At, TypeOK, Request
<1>n. new \in Request
  <2>1. req[t] \in Request
    BY <1>g, Fields DEF At
  <2>2. {table[i] : i \in 1..n} \subseteq State /\ {table[i] : i \in (k + 1)..Len(table)} \subseteq State
    <3>1. Len(table) \in Nat /\ \A i \in 1..Len(table) : table[i] \in State
      BY DEF TypeOK
    <3>2. req[t].over \in Nat
      BY <1>g, Fields DEF At
    <3>3. n \in Nat /\ k \in Nat /\ n <= Len(table)
      BY <3>1, <3>2
    <3> HIDE DEF n, k
    <3> QED BY <3>1, <3>3
  <2> HIDE DEF n, k
  <2> QED BY <2>1, <2>2 DEF Request
<1>t. req' \in [Thread -> Request \cup {None}]
  <2> HIDE DEF new
  <2> QED BY <1>q, <1>n DEF TypeOK
<1>r. req'[t] = new /\ req'[t] # None /\ \A u \in Thread : u # t => req'[u] = req[u]
  <2> HIDE DEF new
  <2> QED BY <1>q, <1>n DEF TypeOK
<1>f. /\ req'[t].op = req[t].op
      /\ req'[t].b = req[t].b
      /\ req'[t].s = req[t].s
      /\ req'[t].at = "evict"
      /\ req'[t].doomed = {table[i] : i \in 1..n}
      /\ req'[t].newest = {table[i] : i \in (k + 1)..Len(table)}
      /\ req'[t].raced = ~ (req[t].had \subseteq Held)
  BY <1>g, <1>r DEF At, TypeOK, Request
<1> HIDE DEF new
<1>h. TableOK' /\ Held' = Held
  BY <1>g, TypeTable DEF TableOK, Held
<1>y. \A u \in Thread : req[u] # None =>
        /\ req[u].op \in {"login", "callback"}
        /\ req[u].s \in State \cup {None} /\ req[u].b \in Browser
        /\ req[u].old \subseteq State /\ req[u].doomed \subseteq State
  BY Fields
<1>z. Held \subseteq State /\ \A x \in Held : maker[x] # None
  BY TypeTable, HeldCount DEF TypeOK
<1>e. \A x \in Excused : maker[x] # None => x \in Excused'
  <2>1. Checked \subseteq Checked'
    <3> SUFFICES ASSUME NEW x \in Checked PROVE x \in Checked'
      OBVIOUS
    <3>1. PICK u \in Thread : At(u, "check") /\ req[u].s = x
      BY DEF Checked
    <3>2. u # t
      BY <1>g, <3>1 DEF At
    <3>3. At(u, "check")' /\ req'[u].s = x
      BY <1>r, <3>1, <3>2 DEF At
    <3> QED BY <3>3 DEF Checked
  <2> QED BY <1>g, <2>1 DEF Excused
<1>1. TypeOK'
  BY <1>g, <1>h, <1>t DEF TypeOK, TableOK
<1>2. StepsSound'
  <2> SUFFICES ASSUME NEW u \in Thread, req'[u] # None PROVE StepSound(req[u])'
    BY DEF StepsSound
  <2>1. CASE u = t
    <3>1. req[t] # None => StepSound(req[t])
      BY DEF StepsSound
    <3> QED BY <1>g, <1>r, <1>h, <1>y, <1>z, <1>f, <2>1, <3>1 DEF StepSound, At, UsesSound
  <2>2. CASE u # t
    <3>1. req'[u] = req[u] /\ req[u] # None /\ StepSound(req[u])
      BY <1>r, <2>2 DEF StepsSound
    <3> QED BY <1>g, <1>h, <1>y, <3>1 DEF StepSound
  <2> QED BY <2>1, <2>2
<1>3. OneChecks'
  BY <1>g, <1>r, <1>h, <1>y, <1>z, <1>f DEF OneChecks, At
<1>4. UsesSound'
  BY <1>g, <1>r, <1>h, <1>y, <1>z, <1>f DEF UsesSound, TypeOK
<1>5. CookiesSound'
  BY <1>g, <1>r, <1>h, <1>y, <1>z, <1>f DEF CookiesSound, StepsSound, StepSound, At, TypeOK
<1>6. Gone'
  BY <1>g, <1>r, <1>h, <1>y, <1>z, <1>f, <1>e DEF Gone, TypeOK
<1>7. CookiesKept'
  <2> SUFFICES ASSUME NEW x \in State, Sent(x)', cookie'[maker'[x]] # x
               PROVE  x \in Excused' \cup disturbed'
    BY DEF CookiesKept
  <2>1. maker[x] # None /\ Sent(x) /\ cookie[maker[x]] # x
    BY <1>g, <1>r, <1>h, <1>y, <1>z, <1>f DEF Sent, At, StepsSound, StepSound
  <2> QED BY <1>e, <1>g, <2>1 DEF CookiesKept
<1>8. RefusalsSound'
  <2> SUFFICES ASSUME NEW u \in Thread, At(u, "refuse")', maker'[req'[u].s] = req'[u].b
               PROVE  req'[u].s \in Excused' \cup disturbed'
    BY DEF RefusalsSound
  <2>1. CASE u = t
    BY <1>g, <1>r, <1>h, <1>y, <1>z, <1>f, <2>1 DEF At, StepsSound, StepSound
  <2>2. CASE u # t
    <3>1. /\ At(u, "refuse") /\ req'[u] = req[u] /\ req[u].s \in State
          /\ maker[req[u].s] # None /\ maker[req[u].s] = req[u].b
      BY <1>g, <1>r, <1>h, <1>y, <1>z, <1>f, <2>2 DEF At, StepsSound, StepSound
    <3>2. req[u].s \in Excused \cup disturbed
      BY <3>1 DEF RefusalsSound
    <3> QED BY <1>e, <1>g, <3>1, <3>2
  <2> QED BY <2>1, <2>2
<1>9. DoomsSound'
  <2> SUFFICES ASSUME NEW u \in Thread, req'[u] # None PROVE DoomSound(req[u])'
    BY DEF DoomsSound
  <2>1. CASE u = t
    <3> SUFFICES ASSUME req[t].had \subseteq Held PROVE req'[t].doomed \cap req'[t].newest = {}
      BY <1>f, <2>1 DEF DoomSound
    <3>1. Len(table) \in Nat /\ \A i, j \in 1..Len(table) : table[i] = table[j] => i = j
      BY DEF TypeOK
    <3>2. req[t].over \in Nat /\ req[t].over = Cardinality(req[t].had) - Cap
      BY <1>g, Fields DEF At, DoomsSound, DoomSound
    <3>3. /\ Cardinality(req[t].had) <= Len(table)
          /\ Cardinality(req[t].had) \in Nat
      <4>1. IsFiniteSet(Held) /\ Cardinality(Held) = Len(table)
        BY TypeTable, HeldCount
      <4> QED BY <4>1, FS_Subset, FS_CardinalityType
    <3>4. n <= k /\ n \in Nat /\ k \in Nat /\ n <= Len(table)
      BY <3>1, <3>2, <3>3
    <3> HIDE DEF n, k
    <3>5. ASSUME NEW i \in 1..n, NEW j \in (k + 1)..Len(table) PROVE table[i] # table[j]
      <4>1. i \in 1..Len(table) /\ j \in 1..Len(table) /\ i # j
        BY <3>1, <3>4
      <4> QED BY <3>1, <4>1
    <3> QED BY <1>f, <3>5
  <2>2. CASE u # t
    <3>1. req'[u] = req[u] /\ req[u] # None /\ DoomSound(req[u])
      BY <1>r, <2>2 DEF DoomsSound
    <3> QED BY <1>g, <1>y, <3>1 DEF DoomSound, Expired
  <2> QED BY <2>1, <2>2
<1> QED BY <1>1, <1>2, <1>3, <1>4, <1>5, <1>6, <1>7, <1>8, <1>9

LEMMA AnswerLoginInv == ASSUME IInv, NEW t \in Thread, AnswerLogin(t) PROVE IInv'
<1> USE OAuthAssumption DEF IInv
<1>g. /\ At(t, "answer") \/ At(t, "evict")
      /\ cookie' = [cookie EXCEPT ![req[t].b] = req[t].s]
      /\ disturbed' = disturbed \cup {s \in Held : maker[s] = req[t].b /\ s # req[t].s}
      /\ UNCHANGED <<table, age, maker, uses, lost>>
  BY DEF AnswerLogin, tableVars, ghostVars, cookieVars, Done, SetCookie
<1>q. req' = [req EXCEPT ![t] = None]
  BY DEF AnswerLogin, tableVars, ghostVars, cookieVars, Done, SetCookie
<1>t. req' \in [Thread -> Request \cup {None}]
  BY <1>q DEF TypeOK
<1>r. req'[t] = None /\ \A u \in Thread : u # t => req'[u] = req[u]
  BY <1>q DEF TypeOK
<1>h. TableOK' /\ Held' = Held
  BY <1>g, TypeTable DEF TableOK, Held
<1>y. \A u \in Thread : req[u] # None =>
        /\ req[u].op \in {"login", "callback"}
        /\ req[u].s \in State \cup {None} /\ req[u].b \in Browser
        /\ req[u].old \subseteq State /\ req[u].doomed \subseteq State
  BY Fields
<1>z. Held \subseteq State /\ \A x \in Held : maker[x] # None
  BY TypeTable, HeldCount DEF TypeOK
<1>e. \A x \in Excused : maker[x] # None => x \in Excused'
  <2>1. Checked \subseteq Checked'
    <3> SUFFICES ASSUME NEW x \in Checked PROVE x \in Checked'
      OBVIOUS
    <3>1. PICK u \in Thread : At(u, "check") /\ req[u].s = x
      BY DEF Checked
    <3>2. u # t
      BY <1>g, <3>1 DEF At
    <3>3. At(u, "check")' /\ req'[u].s = x
      BY <1>r, <3>1, <3>2 DEF At
    <3> QED BY <3>3 DEF Checked
  <2> QED BY <1>g, <2>1 DEF Excused
<1>1. TypeOK'
  <2>1. req[t].b \in Browser /\ req[t].s \in State \cup {None}
    BY <1>g, Fields DEF At
  <2>2. cookie' \in [Browser -> State \cup {None}]
    BY <1>g, <2>1 DEF TypeOK
  <2>3. disturbed' \subseteq State
    BY <1>g, <1>z DEF TypeOK
  <2> QED BY <1>g, <1>h, <1>t, <2>2, <2>3 DEF TypeOK, TableOK
<1>2. StepsSound'
  <2> SUFFICES ASSUME NEW u \in Thread, req'[u] # None PROVE StepSound(req[u])'
    BY DEF StepsSound
  <2>1. CASE u = t
    <3>1. req[t] # None => StepSound(req[t])
      BY DEF StepsSound
    <3> QED BY <1>g, <1>r, <1>h, <1>y, <1>z, <2>1, <3>1 DEF StepSound, At, UsesSound
  <2>2. CASE u # t
    <3>1. req'[u] = req[u] /\ req[u] # None /\ StepSound(req[u])
      BY <1>r, <2>2 DEF StepsSound
    <3> QED BY <1>g, <1>h, <1>y, <3>1 DEF StepSound
  <2> QED BY <2>1, <2>2
<1>3. OneChecks'
  BY <1>g, <1>r, <1>h, <1>y, <1>z DEF OneChecks, At
<1>4. UsesSound'
  BY <1>g, <1>r, <1>h, <1>y, <1>z DEF UsesSound, TypeOK
<1>5. CookiesSound'
  BY <1>g, <1>r, <1>h, <1>y, <1>z DEF CookiesSound, StepsSound, StepSound, At, TypeOK
<1>6. Gone'
  BY <1>g, <1>r, <1>h, <1>y, <1>z, <1>e DEF Gone, TypeOK
<1>7. CookiesKept'
  <2> SUFFICES ASSUME NEW s \in State, Sent(s)', cookie'[maker'[s]] # s
               PROVE  s \in Excused' \cup disturbed'
    BY DEF CookiesKept
  <2>1. maker[s] # None /\ maker[s] \in Browser
    BY <1>g DEF Sent, TypeOK
  <2>2. CASE s \notin Held
    BY <1>e, <2>1, <2>2 DEF Gone
  <2>3. CASE s \in Held /\ maker[s] = req[t].b
    <3>1. s # req[t].s
      <4>1. CASE s = req[t].s
        BY <1>g, <2>1, <2>3, <4>1 DEF TypeOK
      <4> QED BY <4>1
    <3> QED BY <1>g, <2>3, <3>1
  <2>4. CASE maker[s] # req[t].b
    <3>1. Sent(s) /\ cookie[maker[s]] # s
      BY <1>g, <1>r, <1>h, <1>y, <1>z, <2>1, <2>4 DEF Sent, At, StepsSound, StepSound
    <3> QED BY <1>e, <1>g, <2>1, <3>1 DEF CookiesKept
  <2> QED BY <2>2, <2>3, <2>4
<1>8. RefusalsSound'
  <2> SUFFICES ASSUME NEW u \in Thread, At(u, "refuse")', maker'[req'[u].s] = req'[u].b
               PROVE  req'[u].s \in Excused' \cup disturbed'
    BY DEF RefusalsSound
  <2>1. CASE u = t
    BY <1>g, <1>r, <1>h, <1>y, <1>z, <2>1 DEF At, StepsSound, StepSound
  <2>2. CASE u # t
    <3>1. /\ At(u, "refuse") /\ req'[u] = req[u] /\ req[u].s \in State
          /\ maker[req[u].s] # None /\ maker[req[u].s] = req[u].b
      BY <1>g, <1>r, <1>h, <1>y, <1>z, <2>2 DEF At, StepsSound, StepSound
    <3>2. req[u].s \in Excused \cup disturbed
      BY <3>1 DEF RefusalsSound
    <3> QED BY <1>e, <1>g, <3>1, <3>2
  <2> QED BY <2>1, <2>2
<1>9. DoomsSound'
  <2> SUFFICES ASSUME NEW u \in Thread, req'[u] # None PROVE DoomSound(req[u])'
    BY DEF DoomsSound
  <2>1. CASE u = t
    <3>1. req[t] # None => DoomSound(req[t])
      BY DEF DoomsSound
    <3> QED BY <1>g, <1>r, <1>h, <1>y, <1>z, <2>1, <3>1 DEF DoomSound, Expired, At
  <2>2. CASE u # t
    <3>1. req'[u] = req[u] /\ req[u] # None /\ DoomSound(req[u])
      BY <1>r, <2>2 DEF DoomsSound
    <3> QED BY <1>g, <1>y, <3>1 DEF DoomSound, Expired
  <2> QED BY <2>1, <2>2
<1> QED BY <1>1, <1>2, <1>3, <1>4, <1>5, <1>6, <1>7, <1>8, <1>9

LEMMA CallbackInv == ASSUME IInv, NEW t \in Thread, NEW b \in Browser, NEW s \in State, Callback(t, b, s) PROVE IInv'
<1> USE OAuthAssumption DEF IInv
<1>g. /\ req[t] = None
      /\ Sent(s)
      /\ UNCHANGED <<table, age, cookie, maker, uses, lost, disturbed>>
  BY DEF Callback, tableVars, ghostVars, cookieVars, Begin
<1> DEFINE new ==
  [op |-> "callback", at |-> IF cookie[b] = s THEN "consume" ELSE "refuse", b |-> b, s |-> s,
     size |-> 0, old |-> {}, doomed |-> {}, over |-> 0, had |-> {}, newest |-> {}, raced |-> FALSE]
<1>q. req' = [req EXCEPT ![t] = new]
  BY <1>g DEF Callback, tableVars, ghostVars, cookieVars, Begin, At, TypeOK, Request
<1>n. new \in Request
  BY <1>g DEF Request, Held, At, Sent, TypeOK
<1>t. req' \in [Thread -> Request \cup {None}]
  <2> HIDE DEF new
  <2> QED BY <1>q, <1>n DEF TypeOK
<1>r. req'[t] = new /\ req'[t] # None /\ \A u \in Thread : u # t => req'[u] = req[u]
  <2> HIDE DEF new
  <2> QED BY <1>q, <1>n DEF TypeOK
<1>f. /\ req'[t].op = "callback"
      /\ req'[t].at = IF cookie[b] = s THEN "consume" ELSE "refuse"
      /\ req'[t].b = b
      /\ req'[t].s = s
  BY <1>q, <1>r
<1> HIDE DEF new
<1>h. TableOK' /\ Held' = Held
  BY <1>g, TypeTable DEF TableOK, Held
<1>y. \A u \in Thread : req[u] # None =>
        /\ req[u].op \in {"login", "callback"}
        /\ req[u].s \in State \cup {None} /\ req[u].b \in Browser
        /\ req[u].old \subseteq State /\ req[u].doomed \subseteq State
  BY Fields
<1>z. Held \subseteq State /\ \A x \in Held : maker[x] # None
  BY TypeTable, HeldCount DEF TypeOK
<1>e. \A x \in Excused : maker[x] # None => x \in Excused'
  <2>1. Checked \subseteq Checked'
    <3> SUFFICES ASSUME NEW x \in Checked PROVE x \in Checked'
      OBVIOUS
    <3>1. PICK u \in Thread : At(u, "check") /\ req[u].s = x
      BY DEF Checked
    <3>2. u # t
      BY <1>g, <3>1 DEF At
    <3>3. At(u, "check")' /\ req'[u].s = x
      BY <1>r, <3>1, <3>2 DEF At
    <3> QED BY <3>3 DEF Checked
  <2> QED BY <1>g, <2>1 DEF Excused
<1>1. TypeOK'
  BY <1>g, <1>h, <1>t DEF TypeOK, TableOK
<1>2. StepsSound'
  <2> SUFFICES ASSUME NEW u \in Thread, req'[u] # None PROVE StepSound(req[u])'
    BY DEF StepsSound
  <2>1. CASE u = t
    <3>1. s # None /\ maker[s] # None
      BY <1>g DEF Sent
    <3>2. cookie[b] = s => maker[s] = b
      BY <3>1 DEF CookiesSound
    <3> QED BY <1>f, <1>g, <1>r, <2>1, <3>1, <3>2 DEF StepSound
  <2>2. CASE u # t
    <3>1. req'[u] = req[u] /\ req[u] # None /\ StepSound(req[u])
      BY <1>r, <2>2 DEF StepsSound
    <3> QED BY <1>g, <1>h, <1>y, <3>1 DEF StepSound
  <2> QED BY <2>1, <2>2
<1>3. OneChecks'
  BY <1>g, <1>r, <1>h, <1>y, <1>z, <1>f DEF OneChecks, At
<1>4. UsesSound'
  BY <1>g, <1>r, <1>h, <1>y, <1>z, <1>f DEF UsesSound, TypeOK
<1>5. CookiesSound'
  BY <1>g, <1>r, <1>h, <1>y, <1>z, <1>f DEF CookiesSound, StepsSound, StepSound, At, TypeOK
<1>6. Gone'
  BY <1>g, <1>r, <1>h, <1>y, <1>z, <1>f, <1>e DEF Gone, TypeOK
<1>7. CookiesKept'
  <2> SUFFICES ASSUME NEW x \in State, Sent(x)', cookie'[maker'[x]] # x
               PROVE  x \in Excused' \cup disturbed'
    BY DEF CookiesKept
  <2>1. maker[x] # None /\ Sent(x) /\ cookie[maker[x]] # x
    BY <1>g, <1>r, <1>h, <1>y, <1>z, <1>f DEF Sent, At, StepsSound, StepSound
  <2> QED BY <1>e, <1>g, <2>1 DEF CookiesKept
<1>8. RefusalsSound'
  <2> SUFFICES ASSUME NEW u \in Thread, At(u, "refuse")', maker'[req'[u].s] = req'[u].b
               PROVE  req'[u].s \in Excused' \cup disturbed'
    BY DEF RefusalsSound
  <2>1. CASE u = t
    <3>1. req'[u].s = s /\ maker[s] = b /\ cookie[b] # s /\ Sent(s)
      BY <1>g, <1>r, <1>h, <1>y, <1>z, <1>f, <2>1 DEF At
    <3>2. s \in Excused \cup disturbed
      BY <3>1 DEF CookiesKept
    <3> QED BY <1>e, <1>g, <3>1, <3>2 DEF Sent
  <2>2. CASE u # t
    <3>1. /\ At(u, "refuse") /\ req'[u] = req[u] /\ req[u].s \in State
          /\ maker[req[u].s] # None /\ maker[req[u].s] = req[u].b
      BY <1>g, <1>r, <1>h, <1>y, <1>z, <1>f, <2>2 DEF At, StepsSound, StepSound
    <3>2. req[u].s \in Excused \cup disturbed
      BY <3>1 DEF RefusalsSound
    <3> QED BY <1>e, <1>g, <3>1, <3>2
  <2> QED BY <2>1, <2>2
<1>9. DoomsSound'
  <2> SUFFICES ASSUME NEW u \in Thread, req'[u] # None PROVE DoomSound(req[u])'
    BY DEF DoomsSound
  <2>1. CASE u = t
    <3>1. req[t] # None => DoomSound(req[t])
      BY DEF DoomsSound
    <3> QED BY <1>g, <1>r, <1>h, <1>y, <1>z, <1>f, <2>1, <3>1 DEF DoomSound, Expired, At
  <2>2. CASE u # t
    <3>1. req'[u] = req[u] /\ req[u] # None /\ DoomSound(req[u])
      BY <1>r, <2>2 DEF DoomsSound
    <3> QED BY <1>g, <1>y, <3>1 DEF DoomSound, Expired
  <2> QED BY <2>1, <2>2
<1> QED BY <1>1, <1>2, <1>3, <1>4, <1>5, <1>6, <1>7, <1>8, <1>9

LEMMA ConsumeInv == ASSUME IInv, NEW t \in Thread, Consume(t) PROVE IInv'
<1> USE OAuthAssumption DEF IInv
<1>g. /\ At(t, "consume")
      /\ table' = Without(req[t].s)
      /\ UNCHANGED <<age, cookie, maker, uses, lost, disturbed>>
  BY DEF Consume, tableVars, ghostVars, cookieVars, GoTo
<1> DEFINE new ==
  [req[t] EXCEPT !.at = IF req[t].s \in Held THEN "check" ELSE "refuse"]
<1>q. req' = [req EXCEPT ![t] = new]
  BY <1>g DEF Consume, tableVars, ghostVars, cookieVars, GoTo, At, TypeOK, Request
<1>n. new \in Request
  BY <1>g, Fields DEF Request, Held, At, Sent
<1>t. req' \in [Thread -> Request \cup {None}]
  <2> HIDE DEF new
  <2> QED BY <1>q, <1>n DEF TypeOK
<1>r. req'[t] = new /\ req'[t] # None /\ \A u \in Thread : u # t => req'[u] = req[u]
  <2> HIDE DEF new
  <2> QED BY <1>q, <1>n DEF TypeOK
<1>f. /\ req'[t].op = req[t].op
      /\ req'[t].b = req[t].b
      /\ req'[t].s = req[t].s
      /\ req'[t].at = IF req[t].s \in Held THEN "check" ELSE "refuse"
  BY <1>g, <1>r DEF At, TypeOK, Request
<1> HIDE DEF new
<1>h. TableOK' /\ Held' = Held \ {req[t].s}
  BY <1>g, TypeTable, WithoutIs
<1>y. \A u \in Thread : req[u] # None =>
        /\ req[u].op \in {"login", "callback"}
        /\ req[u].s \in State \cup {None} /\ req[u].b \in Browser
        /\ req[u].old \subseteq State /\ req[u].doomed \subseteq State
  BY Fields
<1>z. Held \subseteq State /\ \A x \in Held : maker[x] # None
  BY TypeTable, HeldCount DEF TypeOK
<1>e. \A x \in Excused : maker[x] # None => x \in Excused'
  <2>1. Checked \subseteq Checked'
    <3> SUFFICES ASSUME NEW x \in Checked PROVE x \in Checked'
      OBVIOUS
    <3>1. PICK u \in Thread : At(u, "check") /\ req[u].s = x
      BY DEF Checked
    <3>2. u # t
      BY <1>g, <3>1 DEF At
    <3>3. At(u, "check")' /\ req'[u].s = x
      BY <1>r, <3>1, <3>2 DEF At
    <3> QED BY <3>3 DEF Checked
  <2> QED BY <1>g, <2>1 DEF Excused
<1>1. TypeOK'
  BY <1>g, <1>h, <1>t DEF TypeOK, TableOK
<1>2. StepsSound'
  <2> SUFFICES ASSUME NEW u \in Thread, req'[u] # None PROVE StepSound(req[u])'
    BY DEF StepsSound
  <2>1. CASE u = t
    <3>1. req[t] # None => StepSound(req[t])
      BY DEF StepsSound
    <3> QED BY <1>g, <1>r, <1>h, <1>y, <1>z, <1>f, <2>1, <3>1 DEF StepSound, At, UsesSound
  <2>2. CASE u # t
    <3>1. req'[u] = req[u] /\ req[u] # None /\ StepSound(req[u])
      BY <1>r, <2>2 DEF StepsSound
    <3> QED BY <1>g, <1>h, <1>y, <3>1 DEF StepSound
  <2> QED BY <2>1, <2>2
<1>3. OneChecks'
  <2>1. ASSUME NEW u \in Thread, u # t, At(u, "check")', At(t, "check")' PROVE req'[u].s # req'[t].s
    <3>1. req'[u] = req[u] /\ At(u, "check") /\ req[u].s \notin Held
      BY <1>r, <2>1 DEF At, StepsSound, StepSound
    <3>2. req'[t].s \in Held
      BY <1>f, <2>1 DEF At
    <3> QED BY <3>1, <3>2
  <2>2. ASSUME NEW u \in Thread, NEW v \in Thread, u # t, v # t,
               At(u, "check")', At(v, "check")', req'[u].s = req'[v].s
        PROVE  u = v
    BY <1>r, <2>2 DEF OneChecks, At
  <2> QED BY <2>1, <2>2 DEF OneChecks
<1>4. UsesSound'
  BY <1>g, <1>r, <1>h, <1>y, <1>z, <1>f DEF UsesSound, TypeOK
<1>5. CookiesSound'
  BY <1>g, <1>r, <1>h, <1>y, <1>z, <1>f DEF CookiesSound, StepsSound, StepSound, At, TypeOK
<1>6. Gone'
  <2> SUFFICES ASSUME NEW s \in State, maker[s] # None, s \notin Held' PROVE s \in Excused'
    BY <1>g DEF Gone
  <2>1. CASE s \in Held
    <3>1. s = req[t].s /\ At(t, "check")' /\ req'[t].s = s
      BY <1>g, <1>h, <1>r, <1>f, <2>1 DEF At
    <3> QED BY <3>1 DEF Excused, Checked
  <2>2. CASE s \notin Held
    BY <1>e, <2>2 DEF Gone
  <2> QED BY <2>1, <2>2
<1>7. CookiesKept'
  <2> SUFFICES ASSUME NEW x \in State, Sent(x)', cookie'[maker'[x]] # x
               PROVE  x \in Excused' \cup disturbed'
    BY DEF CookiesKept
  <2>1. maker[x] # None /\ Sent(x) /\ cookie[maker[x]] # x
    BY <1>g, <1>r, <1>h, <1>y, <1>z, <1>f DEF Sent, At, StepsSound, StepSound
  <2> QED BY <1>e, <1>g, <2>1 DEF CookiesKept
<1>8. RefusalsSound'
  <2> SUFFICES ASSUME NEW u \in Thread, At(u, "refuse")', maker'[req'[u].s] = req'[u].b
               PROVE  req'[u].s \in Excused' \cup disturbed'
    BY DEF RefusalsSound
  <2>1. CASE u = t
    <3>1. req'[u].s = req[t].s /\ req[t].s \notin Held /\ req[t].s \in State /\ maker[req[t].s] # None
      BY <1>g, <1>r, <1>h, <1>y, <1>z, <1>f, <2>1 DEF At, StepsSound, StepSound
    <3> QED BY <1>e, <3>1 DEF Gone
  <2>2. CASE u # t
    <3>1. /\ At(u, "refuse") /\ req'[u] = req[u] /\ req[u].s \in State
          /\ maker[req[u].s] # None /\ maker[req[u].s] = req[u].b
      BY <1>g, <1>r, <1>h, <1>y, <1>z, <1>f, <2>2 DEF At, StepsSound, StepSound
    <3>2. req[u].s \in Excused \cup disturbed
      BY <3>1 DEF RefusalsSound
    <3> QED BY <1>e, <1>g, <3>1, <3>2
  <2> QED BY <2>1, <2>2
<1>9. DoomsSound'
  <2> SUFFICES ASSUME NEW u \in Thread, req'[u] # None PROVE DoomSound(req[u])'
    BY DEF DoomsSound
  <2>1. CASE u = t
    <3>1. req[t] # None => DoomSound(req[t])
      BY DEF DoomsSound
    <3> QED BY <1>g, <1>r, <1>h, <1>y, <1>z, <1>f, <2>1, <3>1 DEF DoomSound, Expired, At
  <2>2. CASE u # t
    <3>1. req'[u] = req[u] /\ req[u] # None /\ DoomSound(req[u])
      BY <1>r, <2>2 DEF DoomsSound
    <3> QED BY <1>g, <1>y, <3>1 DEF DoomSound, Expired
  <2> QED BY <2>1, <2>2
<1> QED BY <1>1, <1>2, <1>3, <1>4, <1>5, <1>6, <1>7, <1>8, <1>9

LEMMA CheckAgeInv == ASSUME IInv, NEW t \in Thread, CheckAge(t) PROVE IInv'
<1> USE OAuthAssumption DEF IInv
<1>g. /\ At(t, "check")
      /\ uses' = IF age[req[t].s] >= TTL THEN uses
             ELSE [uses EXCEPT ![req[t].s] = Append(uses[req[t].s], req[t].b)]
      /\ UNCHANGED <<table, age, cookie, maker, lost, disturbed>>
  BY DEF CheckAge, tableVars, ghostVars, cookieVars, GoTo
<1> DEFINE new ==
  [req[t] EXCEPT !.at = IF age[req[t].s] >= TTL THEN "refuse" ELSE "exchange"]
<1>q. req' = [req EXCEPT ![t] = new]
  BY <1>g DEF CheckAge, tableVars, ghostVars, cookieVars, GoTo, At, TypeOK, Request
<1>n. new \in Request
  BY <1>g, Fields DEF Request, Held, At, Sent
<1>t. req' \in [Thread -> Request \cup {None}]
  <2> HIDE DEF new
  <2> QED BY <1>q, <1>n DEF TypeOK
<1>r. req'[t] = new /\ req'[t] # None /\ \A u \in Thread : u # t => req'[u] = req[u]
  <2> HIDE DEF new
  <2> QED BY <1>q, <1>n DEF TypeOK
<1>f. /\ req'[t].op = req[t].op
      /\ req'[t].b = req[t].b
      /\ req'[t].s = req[t].s
      /\ req'[t].at = IF age[req[t].s] >= TTL THEN "refuse" ELSE "exchange"
  BY <1>g, <1>r DEF At, TypeOK, Request
<1> HIDE DEF new
<1>h. TableOK' /\ Held' = Held
  BY <1>g, TypeTable DEF TableOK, Held
<1>u. /\ uses' \in [State -> Seq(Browser)]
      /\ req[t].s \in State /\ req[t].s \notin Held /\ maker[req[t].s] # None
      /\ age[req[t].s] >= TTL \/ uses'[req[t].s] # <<>>
      /\ \A x \in State : x # req[t].s => uses'[x] = uses[x]
  <2>1. req[t].s \in State \cup {None} /\ req[t].b \in Browser /\ req[t].op \in {"login", "callback"}
    BY <1>g, Fields DEF At
  <2>2. req[t].s \in State /\ req[t].s \notin Held /\ maker[req[t].s] # None
    BY <1>g, <2>1 DEF StepsSound, StepSound, At
  <2>3. uses[req[t].s] \in Seq(Browser)
    BY <2>2 DEF TypeOK
  <2>4. /\ Append(uses[req[t].s], req[t].b) \in Seq(Browser)
        /\ Append(uses[req[t].s], req[t].b) # <<>>
    BY <2>1, <2>3
  <2> QED BY <1>g, <2>2, <2>4 DEF TypeOK
<1>y. \A u \in Thread : req[u] # None =>
        /\ req[u].op \in {"login", "callback"}
        /\ req[u].s \in State \cup {None} /\ req[u].b \in Browser
        /\ req[u].old \subseteq State /\ req[u].doomed \subseteq State
  BY Fields
<1>z. Held \subseteq State /\ \A x \in Held : maker[x] # None
  BY TypeTable, HeldCount DEF TypeOK
<1>e. \A x \in Excused : maker[x] # None => x \in Excused'
  <2>1. \A x \in State : uses[x] # <<>> => uses'[x] # <<>>
    BY <1>g, <1>u
  <2> SUFFICES ASSUME NEW x \in Excused PROVE x \in Excused'
    OBVIOUS
  <2>2. x \in State
    BY DEF Excused
  <2>3. CASE x = req[t].s
    BY <1>g, <1>u, <2>2, <2>3 DEF Excused
  <2>4. CASE x # req[t].s /\ x \in Checked
    <3>1. PICK u \in Thread : At(u, "check") /\ req[u].s = x
      BY <2>4 DEF Checked
    <3>2. At(u, "check")' /\ req'[u].s = x
      BY <1>r, <2>4, <3>1 DEF At
    <3> QED BY <2>2, <3>2 DEF Excused, Checked
  <2>5. CASE x \notin Checked
    BY <1>g, <2>1, <2>2, <2>5 DEF Excused
  <2> QED BY <2>3, <2>4, <2>5
<1>1. TypeOK'
  BY <1>g, <1>h, <1>t, <1>u DEF TypeOK, TableOK
<1>2. StepsSound'
  <2> SUFFICES ASSUME NEW u \in Thread, req'[u] # None PROVE StepSound(req[u])'
    BY DEF StepsSound
  <2>1. CASE u = t
    <3>1. req[t] # None /\ StepSound(req[t]) /\ req[t].op = "callback"
      BY <1>g, <1>y DEF StepsSound, StepSound, At
    <3> QED BY <1>f, <1>g, <1>r, <1>u, <2>1, <3>1 DEF StepSound, At
  <2>2. CASE u # t
    <3>1. req'[u] = req[u] /\ req[u] # None /\ StepSound(req[u])
      BY <1>r, <2>2 DEF StepsSound
    <3>2. req[u].at = "check" => req[u].s # req[t].s
      BY <1>g, <2>2, <3>1 DEF OneChecks, At
    <3>3. req[u].at = "check" => uses'[req[u].s] = <<>>
      <4>1. req[u].at = "check" => req[u].s \in State
        BY <1>y, <3>1 DEF StepSound
      <4> QED BY <1>u, <3>1, <3>2, <4>1 DEF StepSound
    <3>4. req[u].at = "exchange" => uses'[req[u].s] # <<>>
      <4>1. req[u].at = "exchange" => req[u].s \in State
        BY <1>y, <3>1 DEF StepSound
      <4>2. \A x \in State : uses[x] # <<>> => uses'[x] # <<>>
        BY <1>g, <1>u
      <4> QED BY <3>1, <4>1, <4>2 DEF StepSound
    <3> QED BY <1>g, <1>h, <3>1, <3>3, <3>4 DEF StepSound
  <2> QED BY <2>1, <2>2
<1>3. OneChecks'
  BY <1>g, <1>r, <1>h, <1>y, <1>z, <1>f DEF OneChecks, At
<1>4. UsesSound'
  BY <1>g, <1>h, <1>u DEF UsesSound
<1>5. CookiesSound'
  BY <1>g, <1>r, <1>h, <1>y, <1>z, <1>f DEF CookiesSound, StepsSound, StepSound, At, TypeOK
<1>6. Gone'
  BY <1>g, <1>r, <1>h, <1>y, <1>z, <1>f, <1>e DEF Gone, TypeOK
<1>7. CookiesKept'
  <2> SUFFICES ASSUME NEW x \in State, Sent(x)', cookie'[maker'[x]] # x
               PROVE  x \in Excused' \cup disturbed'
    BY DEF CookiesKept
  <2>1. maker[x] # None /\ Sent(x) /\ cookie[maker[x]] # x
    BY <1>g, <1>r, <1>h, <1>y, <1>z, <1>f DEF Sent, At, StepsSound, StepSound
  <2> QED BY <1>e, <1>g, <2>1 DEF CookiesKept
<1>8. RefusalsSound'
  <2> SUFFICES ASSUME NEW u \in Thread, At(u, "refuse")', maker'[req'[u].s] = req'[u].b
               PROVE  req'[u].s \in Excused' \cup disturbed'
    BY DEF RefusalsSound
  <2>1. CASE u = t
    <3>1. /\ req'[u].s = req[t].s /\ req[t].s \in State /\ age[req[t].s] >= TTL
      BY <1>g, <1>r, <1>h, <1>y, <1>z, <1>f, <2>1 DEF At, StepsSound, StepSound
    <3> QED BY <1>g, <3>1 DEF Excused
  <2>2. CASE u # t
    <3>1. /\ At(u, "refuse") /\ req'[u] = req[u] /\ req[u].s \in State
          /\ maker[req[u].s] # None /\ maker[req[u].s] = req[u].b
      BY <1>g, <1>r, <1>h, <1>y, <1>z, <1>f, <2>2 DEF At, StepsSound, StepSound
    <3>2. req[u].s \in Excused \cup disturbed
      BY <3>1 DEF RefusalsSound
    <3> QED BY <1>e, <1>g, <3>1, <3>2
  <2> QED BY <2>1, <2>2
<1>9. DoomsSound'
  <2> SUFFICES ASSUME NEW u \in Thread, req'[u] # None PROVE DoomSound(req[u])'
    BY DEF DoomsSound
  <2>1. CASE u = t
    <3>1. req[t] # None => DoomSound(req[t])
      BY DEF DoomsSound
    <3> QED BY <1>g, <1>r, <1>h, <1>y, <1>z, <1>f, <2>1, <3>1 DEF DoomSound, Expired, At
  <2>2. CASE u # t
    <3>1. req'[u] = req[u] /\ req[u] # None /\ DoomSound(req[u])
      BY <1>r, <2>2 DEF DoomsSound
    <3> QED BY <1>g, <1>y, <3>1 DEF DoomSound, Expired
  <2> QED BY <2>1, <2>2
<1> QED BY <1>1, <1>2, <1>3, <1>4, <1>5, <1>6, <1>7, <1>8, <1>9

LEMMA SignedInInv == ASSUME IInv, NEW t \in Thread, SignedIn(t) PROVE IInv'
<1> USE OAuthAssumption DEF IInv
<1>g. /\ At(t, "exchange")
      /\ cookie' = [cookie EXCEPT ![req[t].b] = None]
      /\ disturbed' = disturbed \cup {s \in Held : maker[s] = req[t].b /\ s # req[t].s}
      /\ UNCHANGED <<table, age, maker, uses, lost>>
  BY DEF SignedIn, tableVars, ghostVars, cookieVars, Done, SetCookie
<1>q. req' = [req EXCEPT ![t] = None]
  BY DEF SignedIn, tableVars, ghostVars, cookieVars, Done, SetCookie
<1>t. req' \in [Thread -> Request \cup {None}]
  BY <1>q DEF TypeOK
<1>r. req'[t] = None /\ \A u \in Thread : u # t => req'[u] = req[u]
  BY <1>q DEF TypeOK
<1>h. TableOK' /\ Held' = Held
  BY <1>g, TypeTable DEF TableOK, Held
<1>y. \A u \in Thread : req[u] # None =>
        /\ req[u].op \in {"login", "callback"}
        /\ req[u].s \in State \cup {None} /\ req[u].b \in Browser
        /\ req[u].old \subseteq State /\ req[u].doomed \subseteq State
  BY Fields
<1>z. Held \subseteq State /\ \A x \in Held : maker[x] # None
  BY TypeTable, HeldCount DEF TypeOK
<1>e. \A x \in Excused : maker[x] # None => x \in Excused'
  <2>1. Checked \subseteq Checked'
    <3> SUFFICES ASSUME NEW x \in Checked PROVE x \in Checked'
      OBVIOUS
    <3>1. PICK u \in Thread : At(u, "check") /\ req[u].s = x
      BY DEF Checked
    <3>2. u # t
      BY <1>g, <3>1 DEF At
    <3>3. At(u, "check")' /\ req'[u].s = x
      BY <1>r, <3>1, <3>2 DEF At
    <3> QED BY <3>3 DEF Checked
  <2> QED BY <1>g, <2>1 DEF Excused
<1>1. TypeOK'
  <2>1. req[t].b \in Browser /\ req[t].s \in State \cup {None}
    BY <1>g, Fields DEF At
  <2>2. cookie' \in [Browser -> State \cup {None}]
    BY <1>g, <2>1 DEF TypeOK
  <2>3. disturbed' \subseteq State
    BY <1>g, <1>z DEF TypeOK
  <2> QED BY <1>g, <1>h, <1>t, <2>2, <2>3 DEF TypeOK, TableOK
<1>2. StepsSound'
  <2> SUFFICES ASSUME NEW u \in Thread, req'[u] # None PROVE StepSound(req[u])'
    BY DEF StepsSound
  <2>1. CASE u = t
    <3>1. req[t] # None => StepSound(req[t])
      BY DEF StepsSound
    <3> QED BY <1>g, <1>r, <1>h, <1>y, <1>z, <2>1, <3>1 DEF StepSound, At, UsesSound
  <2>2. CASE u # t
    <3>1. req'[u] = req[u] /\ req[u] # None /\ StepSound(req[u])
      BY <1>r, <2>2 DEF StepsSound
    <3> QED BY <1>g, <1>h, <1>y, <3>1 DEF StepSound
  <2> QED BY <2>1, <2>2
<1>3. OneChecks'
  BY <1>g, <1>r, <1>h, <1>y, <1>z DEF OneChecks, At
<1>4. UsesSound'
  BY <1>g, <1>r, <1>h, <1>y, <1>z DEF UsesSound, TypeOK
<1>5. CookiesSound'
  BY <1>g, <1>r, <1>h, <1>y, <1>z DEF CookiesSound, StepsSound, StepSound, At, TypeOK
<1>6. Gone'
  BY <1>g, <1>r, <1>h, <1>y, <1>z, <1>e DEF Gone, TypeOK
<1>7. CookiesKept'
  <2> SUFFICES ASSUME NEW s \in State, Sent(s)', cookie'[maker'[s]] # s
               PROVE  s \in Excused' \cup disturbed'
    BY DEF CookiesKept
  <2>1. maker[s] # None /\ maker[s] \in Browser
    BY <1>g DEF Sent, TypeOK
  <2>2. CASE s \notin Held
    BY <1>e, <2>1, <2>2 DEF Gone
  <2>3. CASE s \in Held /\ maker[s] = req[t].b
    <3>1. s # req[t].s
      <4>1. CASE s = req[t].s
        BY <1>g, <2>3, <4>1 DEF StepsSound, StepSound, UsesSound, At
      <4> QED BY <4>1
    <3> QED BY <1>g, <2>3, <3>1
  <2>4. CASE maker[s] # req[t].b
    <3>1. Sent(s) /\ cookie[maker[s]] # s
      BY <1>g, <1>r, <1>h, <1>y, <1>z, <2>1, <2>4 DEF Sent, At, StepsSound, StepSound
    <3> QED BY <1>e, <1>g, <2>1, <3>1 DEF CookiesKept
  <2> QED BY <2>2, <2>3, <2>4
<1>8. RefusalsSound'
  <2> SUFFICES ASSUME NEW u \in Thread, At(u, "refuse")', maker'[req'[u].s] = req'[u].b
               PROVE  req'[u].s \in Excused' \cup disturbed'
    BY DEF RefusalsSound
  <2>1. CASE u = t
    BY <1>g, <1>r, <1>h, <1>y, <1>z, <2>1 DEF At, StepsSound, StepSound
  <2>2. CASE u # t
    <3>1. /\ At(u, "refuse") /\ req'[u] = req[u] /\ req[u].s \in State
          /\ maker[req[u].s] # None /\ maker[req[u].s] = req[u].b
      BY <1>g, <1>r, <1>h, <1>y, <1>z, <2>2 DEF At, StepsSound, StepSound
    <3>2. req[u].s \in Excused \cup disturbed
      BY <3>1 DEF RefusalsSound
    <3> QED BY <1>e, <1>g, <3>1, <3>2
  <2> QED BY <2>1, <2>2
<1>9. DoomsSound'
  <2> SUFFICES ASSUME NEW u \in Thread, req'[u] # None PROVE DoomSound(req[u])'
    BY DEF DoomsSound
  <2>1. CASE u = t
    <3>1. req[t] # None => DoomSound(req[t])
      BY DEF DoomsSound
    <3> QED BY <1>g, <1>r, <1>h, <1>y, <1>z, <2>1, <3>1 DEF DoomSound, Expired, At
  <2>2. CASE u # t
    <3>1. req'[u] = req[u] /\ req[u] # None /\ DoomSound(req[u])
      BY <1>r, <2>2 DEF DoomsSound
    <3> QED BY <1>g, <1>y, <3>1 DEF DoomSound, Expired
  <2> QED BY <2>1, <2>2
<1> QED BY <1>1, <1>2, <1>3, <1>4, <1>5, <1>6, <1>7, <1>8, <1>9

LEMMA ExchangeFailsInv == ASSUME IInv, NEW t \in Thread, ExchangeFails(t) PROVE IInv'
<1> USE OAuthAssumption DEF IInv
<1>g. /\ At(t, "exchange")
      /\ UNCHANGED <<table, age, cookie, maker, uses, lost, disturbed>>
  BY DEF ExchangeFails, tableVars, ghostVars, cookieVars, GoTo
<1> DEFINE new ==
  [req[t] EXCEPT !.at = "refuse"]
<1>q. req' = [req EXCEPT ![t] = new]
  BY <1>g DEF ExchangeFails, tableVars, ghostVars, cookieVars, GoTo, At, TypeOK, Request
<1>n. new \in Request
  BY <1>g, Fields DEF Request, Held, At, Sent
<1>t. req' \in [Thread -> Request \cup {None}]
  <2> HIDE DEF new
  <2> QED BY <1>q, <1>n DEF TypeOK
<1>r. req'[t] = new /\ req'[t] # None /\ \A u \in Thread : u # t => req'[u] = req[u]
  <2> HIDE DEF new
  <2> QED BY <1>q, <1>n DEF TypeOK
<1>f. /\ req'[t].op = req[t].op
      /\ req'[t].b = req[t].b
      /\ req'[t].s = req[t].s
      /\ req'[t].at = "refuse"
  BY <1>g, <1>r DEF At, TypeOK, Request
<1> HIDE DEF new
<1>h. TableOK' /\ Held' = Held
  BY <1>g, TypeTable DEF TableOK, Held
<1>y. \A u \in Thread : req[u] # None =>
        /\ req[u].op \in {"login", "callback"}
        /\ req[u].s \in State \cup {None} /\ req[u].b \in Browser
        /\ req[u].old \subseteq State /\ req[u].doomed \subseteq State
  BY Fields
<1>z. Held \subseteq State /\ \A x \in Held : maker[x] # None
  BY TypeTable, HeldCount DEF TypeOK
<1>e. \A x \in Excused : maker[x] # None => x \in Excused'
  <2>1. Checked \subseteq Checked'
    <3> SUFFICES ASSUME NEW x \in Checked PROVE x \in Checked'
      OBVIOUS
    <3>1. PICK u \in Thread : At(u, "check") /\ req[u].s = x
      BY DEF Checked
    <3>2. u # t
      BY <1>g, <3>1 DEF At
    <3>3. At(u, "check")' /\ req'[u].s = x
      BY <1>r, <3>1, <3>2 DEF At
    <3> QED BY <3>3 DEF Checked
  <2> QED BY <1>g, <2>1 DEF Excused
<1>1. TypeOK'
  BY <1>g, <1>h, <1>t DEF TypeOK, TableOK
<1>2. StepsSound'
  <2> SUFFICES ASSUME NEW u \in Thread, req'[u] # None PROVE StepSound(req[u])'
    BY DEF StepsSound
  <2>1. CASE u = t
    <3>1. req[t] # None => StepSound(req[t])
      BY DEF StepsSound
    <3> QED BY <1>g, <1>r, <1>h, <1>y, <1>z, <1>f, <2>1, <3>1 DEF StepSound, At, UsesSound
  <2>2. CASE u # t
    <3>1. req'[u] = req[u] /\ req[u] # None /\ StepSound(req[u])
      BY <1>r, <2>2 DEF StepsSound
    <3> QED BY <1>g, <1>h, <1>y, <3>1 DEF StepSound
  <2> QED BY <2>1, <2>2
<1>3. OneChecks'
  BY <1>g, <1>r, <1>h, <1>y, <1>z, <1>f DEF OneChecks, At
<1>4. UsesSound'
  BY <1>g, <1>r, <1>h, <1>y, <1>z, <1>f DEF UsesSound, TypeOK
<1>5. CookiesSound'
  BY <1>g, <1>r, <1>h, <1>y, <1>z, <1>f DEF CookiesSound, StepsSound, StepSound, At, TypeOK
<1>6. Gone'
  BY <1>g, <1>r, <1>h, <1>y, <1>z, <1>f, <1>e DEF Gone, TypeOK
<1>7. CookiesKept'
  <2> SUFFICES ASSUME NEW x \in State, Sent(x)', cookie'[maker'[x]] # x
               PROVE  x \in Excused' \cup disturbed'
    BY DEF CookiesKept
  <2>1. maker[x] # None /\ Sent(x) /\ cookie[maker[x]] # x
    BY <1>g, <1>r, <1>h, <1>y, <1>z, <1>f DEF Sent, At, StepsSound, StepSound
  <2> QED BY <1>e, <1>g, <2>1 DEF CookiesKept
<1>8. RefusalsSound'
  <2> SUFFICES ASSUME NEW u \in Thread, At(u, "refuse")', maker'[req'[u].s] = req'[u].b
               PROVE  req'[u].s \in Excused' \cup disturbed'
    BY DEF RefusalsSound
  <2>1. CASE u = t
    <3>1. req'[u].s = req[t].s /\ req[t].s \in State /\ uses[req[t].s] # <<>>
      BY <1>g, <1>r, <1>h, <1>y, <1>z, <1>f, <2>1 DEF At, StepsSound, StepSound
    <3> QED BY <1>g, <3>1 DEF Excused
  <2>2. CASE u # t
    <3>1. /\ At(u, "refuse") /\ req'[u] = req[u] /\ req[u].s \in State
          /\ maker[req[u].s] # None /\ maker[req[u].s] = req[u].b
      BY <1>g, <1>r, <1>h, <1>y, <1>z, <1>f, <2>2 DEF At, StepsSound, StepSound
    <3>2. req[u].s \in Excused \cup disturbed
      BY <3>1 DEF RefusalsSound
    <3> QED BY <1>e, <1>g, <3>1, <3>2
  <2> QED BY <2>1, <2>2
<1>9. DoomsSound'
  <2> SUFFICES ASSUME NEW u \in Thread, req'[u] # None PROVE DoomSound(req[u])'
    BY DEF DoomsSound
  <2>1. CASE u = t
    <3>1. req[t] # None => DoomSound(req[t])
      BY DEF DoomsSound
    <3> QED BY <1>g, <1>r, <1>h, <1>y, <1>z, <1>f, <2>1, <3>1 DEF DoomSound, Expired, At
  <2>2. CASE u # t
    <3>1. req'[u] = req[u] /\ req[u] # None /\ DoomSound(req[u])
      BY <1>r, <2>2 DEF DoomsSound
    <3> QED BY <1>g, <1>y, <3>1 DEF DoomSound, Expired
  <2> QED BY <2>1, <2>2
<1> QED BY <1>1, <1>2, <1>3, <1>4, <1>5, <1>6, <1>7, <1>8, <1>9

LEMMA SessionFailsInv == ASSUME IInv, NEW t \in Thread, SessionFails(t) PROVE IInv'
<1> USE OAuthAssumption DEF IInv
<1>g. /\ At(t, "exchange")
      /\ UNCHANGED <<table, age, cookie, maker, uses, lost, disturbed>>
  BY DEF SessionFails, tableVars, ghostVars, cookieVars, Done
<1>q. req' = [req EXCEPT ![t] = None]
  BY DEF SessionFails, tableVars, ghostVars, cookieVars, Done
<1>t. req' \in [Thread -> Request \cup {None}]
  BY <1>q DEF TypeOK
<1>r. req'[t] = None /\ \A u \in Thread : u # t => req'[u] = req[u]
  BY <1>q DEF TypeOK
<1>h. TableOK' /\ Held' = Held
  BY <1>g, TypeTable DEF TableOK, Held
<1>y. \A u \in Thread : req[u] # None =>
        /\ req[u].op \in {"login", "callback"}
        /\ req[u].s \in State \cup {None} /\ req[u].b \in Browser
        /\ req[u].old \subseteq State /\ req[u].doomed \subseteq State
  BY Fields
<1>z. Held \subseteq State /\ \A x \in Held : maker[x] # None
  BY TypeTable, HeldCount DEF TypeOK
<1>e. \A x \in Excused : maker[x] # None => x \in Excused'
  <2>1. Checked \subseteq Checked'
    <3> SUFFICES ASSUME NEW x \in Checked PROVE x \in Checked'
      OBVIOUS
    <3>1. PICK u \in Thread : At(u, "check") /\ req[u].s = x
      BY DEF Checked
    <3>2. u # t
      BY <1>g, <3>1 DEF At
    <3>3. At(u, "check")' /\ req'[u].s = x
      BY <1>r, <3>1, <3>2 DEF At
    <3> QED BY <3>3 DEF Checked
  <2> QED BY <1>g, <2>1 DEF Excused
<1>1. TypeOK'
  BY <1>g, <1>h, <1>t DEF TypeOK, TableOK
<1>2. StepsSound'
  <2> SUFFICES ASSUME NEW u \in Thread, req'[u] # None PROVE StepSound(req[u])'
    BY DEF StepsSound
  <2>1. CASE u = t
    <3>1. req[t] # None => StepSound(req[t])
      BY DEF StepsSound
    <3> QED BY <1>g, <1>r, <1>h, <1>y, <1>z, <2>1, <3>1 DEF StepSound, At, UsesSound
  <2>2. CASE u # t
    <3>1. req'[u] = req[u] /\ req[u] # None /\ StepSound(req[u])
      BY <1>r, <2>2 DEF StepsSound
    <3> QED BY <1>g, <1>h, <1>y, <3>1 DEF StepSound
  <2> QED BY <2>1, <2>2
<1>3. OneChecks'
  BY <1>g, <1>r, <1>h, <1>y, <1>z DEF OneChecks, At
<1>4. UsesSound'
  BY <1>g, <1>r, <1>h, <1>y, <1>z DEF UsesSound, TypeOK
<1>5. CookiesSound'
  BY <1>g, <1>r, <1>h, <1>y, <1>z DEF CookiesSound, StepsSound, StepSound, At, TypeOK
<1>6. Gone'
  BY <1>g, <1>r, <1>h, <1>y, <1>z, <1>e DEF Gone, TypeOK
<1>7. CookiesKept'
  <2> SUFFICES ASSUME NEW x \in State, Sent(x)', cookie'[maker'[x]] # x
               PROVE  x \in Excused' \cup disturbed'
    BY DEF CookiesKept
  <2>1. maker[x] # None /\ Sent(x) /\ cookie[maker[x]] # x
    BY <1>g, <1>r, <1>h, <1>y, <1>z DEF Sent, At, StepsSound, StepSound
  <2> QED BY <1>e, <1>g, <2>1 DEF CookiesKept
<1>8. RefusalsSound'
  <2> SUFFICES ASSUME NEW u \in Thread, At(u, "refuse")', maker'[req'[u].s] = req'[u].b
               PROVE  req'[u].s \in Excused' \cup disturbed'
    BY DEF RefusalsSound
  <2>1. CASE u = t
    BY <1>g, <1>r, <1>h, <1>y, <1>z, <2>1 DEF At, StepsSound, StepSound
  <2>2. CASE u # t
    <3>1. /\ At(u, "refuse") /\ req'[u] = req[u] /\ req[u].s \in State
          /\ maker[req[u].s] # None /\ maker[req[u].s] = req[u].b
      BY <1>g, <1>r, <1>h, <1>y, <1>z, <2>2 DEF At, StepsSound, StepSound
    <3>2. req[u].s \in Excused \cup disturbed
      BY <3>1 DEF RefusalsSound
    <3> QED BY <1>e, <1>g, <3>1, <3>2
  <2> QED BY <2>1, <2>2
<1>9. DoomsSound'
  <2> SUFFICES ASSUME NEW u \in Thread, req'[u] # None PROVE DoomSound(req[u])'
    BY DEF DoomsSound
  <2>1. CASE u = t
    <3>1. req[t] # None => DoomSound(req[t])
      BY DEF DoomsSound
    <3> QED BY <1>g, <1>r, <1>h, <1>y, <1>z, <2>1, <3>1 DEF DoomSound, Expired, At
  <2>2. CASE u # t
    <3>1. req'[u] = req[u] /\ req[u] # None /\ DoomSound(req[u])
      BY <1>r, <2>2 DEF DoomsSound
    <3> QED BY <1>g, <1>y, <3>1 DEF DoomSound, Expired
  <2> QED BY <2>1, <2>2
<1> QED BY <1>1, <1>2, <1>3, <1>4, <1>5, <1>6, <1>7, <1>8, <1>9

LEMMA RefuseInv == ASSUME IInv, NEW t \in Thread, Refuse(t) PROVE IInv'
<1> USE OAuthAssumption DEF IInv
<1>g. /\ At(t, "refuse")
      /\ cookie' = [cookie EXCEPT ![req[t].b] = None]
      /\ disturbed' = disturbed \cup {s \in Held : maker[s] = req[t].b /\ s # req[t].s}
      /\ UNCHANGED <<table, age, maker, uses, lost>>
  BY DEF Refuse, tableVars, ghostVars, cookieVars, Done, SetCookie
<1>q. req' = [req EXCEPT ![t] = None]
  BY DEF Refuse, tableVars, ghostVars, cookieVars, Done, SetCookie
<1>t. req' \in [Thread -> Request \cup {None}]
  BY <1>q DEF TypeOK
<1>r. req'[t] = None /\ \A u \in Thread : u # t => req'[u] = req[u]
  BY <1>q DEF TypeOK
<1>h. TableOK' /\ Held' = Held
  BY <1>g, TypeTable DEF TableOK, Held
<1>y. \A u \in Thread : req[u] # None =>
        /\ req[u].op \in {"login", "callback"}
        /\ req[u].s \in State \cup {None} /\ req[u].b \in Browser
        /\ req[u].old \subseteq State /\ req[u].doomed \subseteq State
  BY Fields
<1>z. Held \subseteq State /\ \A x \in Held : maker[x] # None
  BY TypeTable, HeldCount DEF TypeOK
<1>e. \A x \in Excused : maker[x] # None => x \in Excused'
  <2>1. Checked \subseteq Checked'
    <3> SUFFICES ASSUME NEW x \in Checked PROVE x \in Checked'
      OBVIOUS
    <3>1. PICK u \in Thread : At(u, "check") /\ req[u].s = x
      BY DEF Checked
    <3>2. u # t
      BY <1>g, <3>1 DEF At
    <3>3. At(u, "check")' /\ req'[u].s = x
      BY <1>r, <3>1, <3>2 DEF At
    <3> QED BY <3>3 DEF Checked
  <2> QED BY <1>g, <2>1 DEF Excused
<1>1. TypeOK'
  <2>1. req[t].b \in Browser /\ req[t].s \in State \cup {None}
    BY <1>g, Fields DEF At
  <2>2. cookie' \in [Browser -> State \cup {None}]
    BY <1>g, <2>1 DEF TypeOK
  <2>3. disturbed' \subseteq State
    BY <1>g, <1>z DEF TypeOK
  <2> QED BY <1>g, <1>h, <1>t, <2>2, <2>3 DEF TypeOK, TableOK
<1>2. StepsSound'
  <2> SUFFICES ASSUME NEW u \in Thread, req'[u] # None PROVE StepSound(req[u])'
    BY DEF StepsSound
  <2>1. CASE u = t
    <3>1. req[t] # None => StepSound(req[t])
      BY DEF StepsSound
    <3> QED BY <1>g, <1>r, <1>h, <1>y, <1>z, <2>1, <3>1 DEF StepSound, At, UsesSound
  <2>2. CASE u # t
    <3>1. req'[u] = req[u] /\ req[u] # None /\ StepSound(req[u])
      BY <1>r, <2>2 DEF StepsSound
    <3> QED BY <1>g, <1>h, <1>y, <3>1 DEF StepSound
  <2> QED BY <2>1, <2>2
<1>3. OneChecks'
  BY <1>g, <1>r, <1>h, <1>y, <1>z DEF OneChecks, At
<1>4. UsesSound'
  BY <1>g, <1>r, <1>h, <1>y, <1>z DEF UsesSound, TypeOK
<1>5. CookiesSound'
  BY <1>g, <1>r, <1>h, <1>y, <1>z DEF CookiesSound, StepsSound, StepSound, At, TypeOK
<1>6. Gone'
  BY <1>g, <1>r, <1>h, <1>y, <1>z, <1>e DEF Gone, TypeOK
<1>7. CookiesKept'
  <2> SUFFICES ASSUME NEW s \in State, Sent(s)', cookie'[maker'[s]] # s
               PROVE  s \in Excused' \cup disturbed'
    BY DEF CookiesKept
  <2>1. maker[s] # None /\ maker[s] \in Browser
    BY <1>g DEF Sent, TypeOK
  <2>2. CASE s \notin Held
    BY <1>e, <2>1, <2>2 DEF Gone
  <2>3. CASE s \in Held /\ maker[s] = req[t].b
    <3>1. CASE s = req[t].s
      <4>1. s \in Excused \cup disturbed
        BY <1>g, <2>3, <3>1 DEF RefusalsSound
      <4> QED BY <1>e, <1>g, <2>1, <4>1
    <3>2. CASE s # req[t].s
      BY <1>g, <2>3, <3>2
    <3> QED BY <3>1, <3>2
  <2>4. CASE maker[s] # req[t].b
    <3>1. Sent(s) /\ cookie[maker[s]] # s
      BY <1>g, <1>r, <1>h, <1>y, <1>z, <2>1, <2>4 DEF Sent, At, StepsSound, StepSound
    <3> QED BY <1>e, <1>g, <2>1, <3>1 DEF CookiesKept
  <2> QED BY <2>2, <2>3, <2>4
<1>8. RefusalsSound'
  <2> SUFFICES ASSUME NEW u \in Thread, At(u, "refuse")', maker'[req'[u].s] = req'[u].b
               PROVE  req'[u].s \in Excused' \cup disturbed'
    BY DEF RefusalsSound
  <2>1. CASE u = t
    BY <1>g, <1>r, <1>h, <1>y, <1>z, <2>1 DEF At, StepsSound, StepSound
  <2>2. CASE u # t
    <3>1. /\ At(u, "refuse") /\ req'[u] = req[u] /\ req[u].s \in State
          /\ maker[req[u].s] # None /\ maker[req[u].s] = req[u].b
      BY <1>g, <1>r, <1>h, <1>y, <1>z, <2>2 DEF At, StepsSound, StepSound
    <3>2. req[u].s \in Excused \cup disturbed
      BY <3>1 DEF RefusalsSound
    <3> QED BY <1>e, <1>g, <3>1, <3>2
  <2> QED BY <2>1, <2>2
<1>9. DoomsSound'
  <2> SUFFICES ASSUME NEW u \in Thread, req'[u] # None PROVE DoomSound(req[u])'
    BY DEF DoomsSound
  <2>1. CASE u = t
    <3>1. req[t] # None => DoomSound(req[t])
      BY DEF DoomsSound
    <3> QED BY <1>g, <1>r, <1>h, <1>y, <1>z, <2>1, <3>1 DEF DoomSound, Expired, At
  <2>2. CASE u # t
    <3>1. req'[u] = req[u] /\ req[u] # None /\ DoomSound(req[u])
      BY <1>r, <2>2 DEF DoomsSound
    <3> QED BY <1>g, <1>y, <3>1 DEF DoomSound, Expired
  <2> QED BY <2>1, <2>2
<1> QED BY <1>1, <1>2, <1>3, <1>4, <1>5, <1>6, <1>7, <1>8, <1>9

LEMMA TickInv == ASSUME IInv, Tick PROVE IInv'
<1> USE OAuthAssumption DEF IInv
<1>g. /\ age' = [s \in State |-> IF Looked(s) /\ ~ Expired(s) THEN age[s] + 1 ELSE age[s]]
      /\ UNCHANGED <<table, cookie, req, maker, uses, lost, disturbed>>
  BY DEF Tick
<1>a. /\ age' \in [State -> 0..(TTL + 1)]
      /\ \A s \in State : age'[s] >= age[s]
  <2>1. \A s \in State : age[s] \in 0..(TTL + 1) /\ (~ Expired(s) => age[s] + 1 \in 0..(TTL + 1))
    BY DEF Expired, TypeOK
  <2> QED BY <1>g, <2>1
<1>h. TableOK' /\ Held' = Held
  BY <1>g, TypeTable DEF TableOK, Held
<1>e. Excused \subseteq Excused'
  <2>1. Checked' = Checked
    BY <1>g DEF Checked, At
  <2>2. \A s \in State : age[s] \in Int /\ age'[s] \in Int
    BY <1>a DEF TypeOK
  <2> QED BY <1>a, <1>g, <2>1, <2>2 DEF Excused
<1>1. TypeOK'
  BY <1>a, <1>g, <1>h DEF TypeOK, TableOK
<1>2. StepsSound'
  BY <1>g, <1>h DEF StepsSound, StepSound
<1>3. OneChecks'
  BY <1>g DEF OneChecks, At
<1>4. UsesSound'
  BY <1>g, <1>h DEF UsesSound
<1>5. CookiesSound'
  BY <1>g DEF CookiesSound
<1>6. Gone'
  BY <1>e, <1>g, <1>h DEF Gone
<1>7. CookiesKept'
  BY <1>e, <1>g DEF CookiesKept, Sent
<1>8. RefusalsSound'
  BY <1>e, <1>g DEF RefusalsSound, At
<1>9. DoomsSound'
  <2>1. \A s \in State : Expired(s) => Expired(s)'
    BY <1>a DEF Expired, TypeOK
  <2> QED BY <1>g, <2>1 DEF DoomsSound, DoomSound, TypeOK, Request
<1> QED BY <1>1, <1>2, <1>3, <1>4, <1>5, <1>6, <1>7, <1>8, <1>9

LEMMA StutterInv == ASSUME IInv, UNCHANGED vars PROVE IInv'
<1> USE DEF vars, IInv
<1>1. TypeOK' /\ Held' = Held
  BY DEF TypeOK, Held
<1>2. StepsSound' /\ OneChecks' /\ UsesSound' /\ CookiesSound'
  BY <1>1 DEF StepsSound, StepSound, OneChecks, At, UsesSound, CookiesSound
<1>3. Excused' = Excused
  BY DEF Excused, Checked, At
<1>4. Gone' /\ CookiesKept' /\ RefusalsSound'
  BY <1>1, <1>3 DEF Gone, CookiesKept, Sent, RefusalsSound, At
<1>5. DoomsSound'
  BY DEF DoomsSound, DoomSound, Expired
<1> QED BY <1>1, <1>2, <1>4, <1>5

LEMMA NextInv == IInv /\ [Next]_vars => IInv'
<1> SUFFICES ASSUME IInv, [Next]_vars PROVE IInv'
  OBVIOUS
<1>1. CASE Tick
  BY <1>1, TickInv
<1>2. ASSUME NEW t \in Thread, Login(t) PROVE IInv'
  BY <1>2, AskLoginInv, IterationRaisesInv, CollectInv, PopDoomedInv, InsertInv, CountOverflowInv,
     ListOldestInv, AnswerLoginInv DEF Login
<1>3. ASSUME NEW t \in Thread, Return(t) PROVE IInv'
  BY <1>3, CallbackInv, ConsumeInv, CheckAgeInv, SignedInInv, ExchangeFailsInv, SessionFailsInv,
     RefuseInv DEF Return
<1>4. CASE UNCHANGED vars
  BY <1>4, StutterInv
<1> QED BY <1>1, <1>2, <1>3, <1>4 DEF Next

LEMMA Invariance == Spec => []IInv
BY InitInv, NextInv, PTL DEF Spec
-----------------------------------------------------------------------------
(* The table, the cookies and what every thread has in hand stay of their    *)
(* types: no handler leaves a state twice in the table (oauth.py).           *)
THEOREM TypeCorrect == Spec => []TypeOK
<1>1. IInv => TypeOK
  BY DEF IInv
<1> QED BY <1>1, Invariance, PTL

(* A browser is refused its own sign-in only for a reason (auth/routes.py,   *)
(* oauth_callback, and consume_state).                                       *)
THEOREM RefusedCorrect == Spec => []RefusedDeserved
<1>1. IInv => RefusedDeserved
  <2> SUFFICES ASSUME IInv, NEW t \in Thread, At(t, "refuse"), maker[req[t].s] = req[t].b
               PROVE  \/ age[req[t].s] >= TTL
                      \/ uses[req[t].s] # <<>>
                      \/ req[t].s \in lost \cup disturbed
                      \/ \E u \in Thread : At(u, "check") /\ req[u].s = req[t].s
    BY DEF RefusedDeserved
  <2>1. req[t].s \in Excused \cup disturbed
    BY DEF IInv, RefusalsSound
  <2> QED BY <2>1 DEF Excused, Checked
<1> QED BY <1>1, Invariance, PTL

(* What a step does not take from the table it does not drop.                *)
LEMMA NothingDropped ==
  ASSUME IInv, NEW t \in Thread,
         Login(t) \/ Return(t), ~ PopDoomed(t), ~ Consume(t)
  PROVE  Held \subseteq {table'[i] : i \in DOMAIN table'}
<1> USE DEF tableVars, Held
<1>1. CASE table' = table
  BY <1>1
<1>2. ASSUME NEW s \in State, Insert(t, s) PROVE Held \subseteq {table'[i] : i \in DOMAIN table'}
  <2>1. TableOK /\ s \notin Held
    BY <1>2, TypeTable DEF Insert, IInv, TypeOK
  <2>2. table' = Append(table, s)
    BY <1>2 DEF Insert
  <2>3. Held' = Held \cup {s}
    BY <2>1, <2>2, AppendIs
  <2> QED BY <2>3
<1>3. (\A s \in State : ~ Insert(t, s)) => table' = table
  BY DEF Login, Return, AskLogin, IterationRaises, Collect, CountOverflow, ListOldest, AnswerLogin,
     Callback, CheckAge, SignedIn, ExchangeFails, SessionFails, Refuse
<1> QED BY <1>1, <1>2, <1>3

(* A state leaves the table too early only for newer ones, or because the    *)
(* overflow was stale (oauth.py, _prune_expired_states and                   *)
(* _enforce_state_cap).                                                      *)
THEOREM DropsCorrect == Spec => DropsDeserved
<1> DEFINE Deserved(s) ==
      \/ age[s] >= TTL
      \/ \E t \in Thread : At(t, "consume") /\ req[t].s = s
      \/ \E t \in Thread :
           /\ At(t, "evict") /\ s \in req[t].doomed
           /\ s \notin req[t].newest \/ req[t].raced
<1>1. ASSUME IInv, [Next]_vars, NEW s \in Held, s \notin {table'[i] : i \in DOMAIN table'}
      PROVE  Deserved(s)
  <2>1. table' # table
    BY <1>1 DEF Held
  <2>2. PICK t \in Thread : Login(t) \/ Return(t)
    BY <1>1, <2>1 DEF Next, Tick, vars
  <2>3. PopDoomed(t) \/ Consume(t)
    BY <1>1, <2>2, NothingDropped
  <2>4. CASE Consume(t)
    <3>1. At(t, "consume") /\ table' = Without(req[t].s)
      BY <2>4 DEF Consume
    <3>2. Held' = Held \ {req[t].s}
      BY <1>1, <3>1, TypeTable, WithoutIs DEF IInv
    <3>3. s = req[t].s
      BY <1>1, <3>2 DEF Held
    <3> QED BY <3>1, <3>3
  <2>5. CASE PopDoomed(t)
    <3>1. PICK i \in Left(t) : table' = Dropped(i)
      BY <2>5 DEF PopDoomed
    <3>2. i \in DOMAIN table /\ table[i] \in req[t].doomed
      BY <3>1 DEF Left
    <3>3. TableOK
      BY <1>1, TypeTable DEF IInv
    <3>4. Held' = Held \ {table[i]}
      BY <3>1, <3>2, <3>3, DroppedIs
    <3>5. s = table[i]
      BY <1>1, <3>4 DEF Held
    <3>6. req[t] # None /\ DoomSound(req[t]) /\ (At(t, "prune") \/ At(t, "evict"))
      BY <1>1, <2>5 DEF PopDoomed, At, IInv, DoomsSound
    <3>7. s \in req[t].doomed
      BY <3>2, <3>5
    <3>8. CASE At(t, "evict")
      <4>1. req[t].raced \/ s \notin req[t].newest
        BY <3>6, <3>7, <3>8 DEF DoomSound, At
      <4> QED BY <3>7, <3>8, <4>1
    <3>9. CASE At(t, "prune")
      <4>1. age[s] > TTL
        BY <3>6, <3>7, <3>9 DEF DoomSound, At, Expired
      <4>2. age[s] \in Int /\ TTL \in Int
        BY <1>1, <3>3, HeldCount, OAuthAssumption DEF IInv, TypeOK
      <4> QED BY <4>1, <4>2
    <3> QED BY <3>6, <3>8, <3>9
  <2> QED BY <2>3, <2>4, <2>5
<1>2. IInv /\ [Next]_vars =>
        [\A s \in Held \ {table'[i] : i \in DOMAIN table'} : Deserved(s)]_vars
  BY <1>1
<1> QED BY <1>2, Invariance, PTL DEF Spec, DropsDeserved
-----------------------------------------------------------------------------
(* The table implements SingleUse.                                           *)

LEMMA LapseStep ==
  ASSUME Live' \subseteq Live, maker' = maker, uses' = uses
  PROVE  Abstract!Next
BY DEF Abstract!Next, Abstract!Lapse

(* A step that puts nothing into the table and takes nothing else in hand.   *)
LEMMA NothingOpened ==
  ASSUME IInv, \A s \in State : Looked(s)' => Looked(s),
         age' = age, maker' = maker, uses' = uses
  PROVE  Abstract!Next
<1>1. Live' \subseteq Live
  BY DEF Live
<1> QED BY <1>1, LapseStep

LEMMA InsertIssues ==
  ASSUME IInv, NEW t \in Thread, NEW s \in State, Insert(t, s)
  PROVE  Abstract!Next
<1>1. /\ At(t, "prune") /\ maker[s] = None /\ table' = Append(table, s)
      /\ age' = [age EXCEPT ![s] = 0] /\ maker' = [maker EXCEPT ![s] = req[t].b] /\ uses' = uses
  BY DEF Insert
<1>2. Held' = Held \cup {s}
  BY <1>1, TypeTable, AppendIs DEF IInv, TypeOK
<1>3. req[t].b \in Browser
  BY <1>1, Fields DEF At, IInv
<1>4. \A x \in State : (\E u \in Thread : At(u, "check") /\ req[u].s = x)'
                   <=> (\E u \in Thread : At(u, "check") /\ req[u].s = x)
  <2>1. /\ req' = [req EXCEPT ![t].at = "count", ![t].s = s, ![t].doomed = {}]
        /\ req \in [Thread -> Request \cup {None}]
    BY DEF Insert, IInv, TypeOK
  <2>2. \A u \in Thread : u # t => req'[u] = req[u]
    BY <2>1
  <2>3. req[t] \in Request /\ req[t] # None /\ req[t].at = "prune"
    BY <1>1, Fields DEF At, IInv
  <2>4. req'[t].at = "count"
    BY <2>1, <2>3 DEF Request
  <2>5. \A u \in Thread : At(u, "check")' => u # t
    BY <2>4 DEF At
  <2>6. \A u \in Thread : At(u, "check") => u # t
    BY <2>3 DEF At
  <2> QED BY <2>2, <2>5, <2>6 DEF At
<1>5. Live' = Live \cup {s}
  <2>1. age'[s] = 0 /\ \A x \in State : x # s => age'[x] = age[x]
    BY <1>1 DEF IInv, TypeOK
  <2>2. 0 < TTL
    BY OAuthAssumption
  <2>3. \A x \in State : Looked(x)' <=> Looked(x) \/ x = s
    BY <1>2, <1>4 DEF Looked
  <2>4. \A x \in State : x \in Live' <=> x \in Live \/ x = s
    BY <2>1, <2>2, <2>3 DEF Live
  <2> QED BY <2>4 DEF Live
<1>6. Abstract!Issue(s, req[t].b)
  BY <1>1, <1>5 DEF Abstract!Issue
<1> QED BY <1>3, <1>6 DEF Abstract!Next

LEMMA CheckUses ==
  ASSUME IInv, NEW t \in Thread, CheckAge(t)
  PROVE  Abstract!Next
<1> DEFINE s == req[t].s
<1>1. At(t, "check") /\ req[t] # None /\ req[t].at = "check" /\ table' = table /\ age' = age
      /\ maker' = maker
  BY DEF CheckAge, At, tableVars
<1>2. /\ req[t] \in Request /\ s \in State /\ s \notin Held /\ uses[s] = <<>> /\ maker[s] = req[t].b
  <2>1. req[t].s \in State \cup {None} /\ req[t].op \in {"login", "callback"} /\ req[t] \in Request
    BY <1>1, Fields DEF IInv
  <2> QED BY <1>1, <2>1 DEF IInv, StepsSound, StepSound
<1>3. \A u \in Thread : u # t => req'[u] = req[u]
  BY DEF CheckAge, GoTo, IInv, TypeOK
<1>4. ~ At(t, "check")'
  BY <1>1, <1>2 DEF CheckAge, GoTo, At, IInv, TypeOK, Request
<1>5. \A x \in State : Looked(x)' <=> Looked(x) /\ x # s
  <2>1. \A u \in Thread : At(u, "check") /\ req[u].s = s => u = t
    BY <1>1 DEF IInv, OneChecks
  <2>2. Held' = Held
    BY <1>1 DEF Held
  <2>3. ASSUME NEW x \in State, Looked(x)' PROVE Looked(x) /\ x # s
    <3>1. CASE x \in Held
      BY <1>2, <3>1 DEF Looked
    <3>2. CASE x \notin Held
      <4>1. PICK u \in Thread : At(u, "check")' /\ req'[u].s = x
        BY <2>2, <2>3, <3>2 DEF Looked
      <4>2. u # t
        BY <1>4, <4>1
      <4>3. At(u, "check") /\ req[u].s = x
        BY <1>3, <4>1, <4>2 DEF At
      <4> QED BY <2>1, <4>2, <4>3 DEF Looked
    <3> QED BY <3>1, <3>2
  <2>4. ASSUME NEW x \in State, Looked(x), x # s PROVE Looked(x)'
    <3>1. CASE x \in Held
      BY <2>2, <3>1 DEF Looked
    <3>2. CASE x \notin Held
      <4>1. PICK u \in Thread : At(u, "check") /\ req[u].s = x
        BY <2>4, <3>2 DEF Looked
      <4>2. At(u, "check")' /\ req'[u].s = x
        BY <1>3, <2>4, <4>1 DEF At
      <4> QED BY <4>2 DEF Looked
    <3> QED BY <3>1, <3>2
  <2> QED BY <2>3, <2>4
<1>6. CASE age[s] >= TTL
  <2>1. uses' = uses
    BY <1>6 DEF CheckAge
  <2> QED BY <1>1, <1>5, <2>1, NothingOpened
<1>7. CASE ~ (age[s] >= TTL)
  <2>1. uses' = [uses EXCEPT ![s] = <<maker[s]>>]
    <3>1. uses' = [uses EXCEPT ![s] = Append(uses[s], req[t].b)]
      BY <1>7 DEF CheckAge
    <3>2. Append(<<>>, req[t].b) = <<req[t].b>>
      OBVIOUS
    <3> QED BY <1>2, <3>1, <3>2
  <2>2. s \in Live
    <3>1. age[s] \in Int /\ TTL \in Int
      BY <1>2, OAuthAssumption DEF IInv, TypeOK
    <3> QED BY <1>1, <1>2, <1>7, <3>1 DEF Live, Looked
  <2>3. Live' = Live \ {s}
    BY <1>1, <1>5 DEF Live
  <2>4. Abstract!Use(s)
    BY <1>1, <2>1, <2>2, <2>3 DEF Abstract!Use
  <2> QED BY <1>2, <2>4 DEF Abstract!Next
<1> QED BY <1>6, <1>7

(* The steps of a handler that leave what is open as it is, or less.         *)
LEMMA OthersLapse ==
  ASSUME IInv, NEW t \in Thread, Login(t) \/ Return(t),
         \A s \in State : ~ Insert(t, s), ~ CheckAge(t)
  PROVE  Abstract!Next
<1>1. age' = age /\ maker' = maker /\ uses' = uses
  BY DEF Login, Return, AskLogin, IterationRaises, Collect, PopDoomed, CountOverflow, ListOldest,
     AnswerLogin, Callback, Consume, SignedIn, ExchangeFails, SessionFails, Refuse, tableVars, ghostVars
<1>2. Held' \subseteq Held
  <2>1. CASE PopDoomed(t)
    <3>1. PICK i \in Left(t) : table' = Dropped(i)
      BY <2>1 DEF PopDoomed
    <3>2. i \in DOMAIN table
      BY DEF Left
    <3>3. TableOK
      BY TypeTable DEF IInv
    <3> QED BY <3>1, <3>2, <3>3, DroppedIs
  <2>2. CASE Consume(t)
    BY <2>2, TypeTable, WithoutIs DEF Consume, IInv
  <2>3. CASE ~ PopDoomed(t) /\ ~ Consume(t)
    BY <2>3 DEF Login, Return, AskLogin, IterationRaises, Collect, CountOverflow, ListOldest,
       AnswerLogin, Callback, SignedIn, ExchangeFails, SessionFails, Refuse, tableVars, Held
  <2> QED BY <2>1, <2>2, <2>3
<1>3. \A u \in Thread : u # t => req'[u] = req[u]
  BY DEF Login, Return, AskLogin, IterationRaises, Collect, PopDoomed, CountOverflow, ListOldest,
     AnswerLogin, Callback, Consume, SignedIn, ExchangeFails, SessionFails, Refuse, Begin, GoTo, Done,
     IInv, TypeOK
<1>4. At(t, "check")' => Consume(t) /\ req'[t].s \in Held
  <2>1. ASSUME Consume(t) PROVE At(t, "check")' => req'[t].s \in Held
    <3>1. req[t] # None /\ req[t] \in Request /\ req \in [Thread -> Request \cup {None}]
      BY <2>1, Fields DEF Consume, At, IInv, TypeOK
    <3>2. req' = [req EXCEPT ![t].at = IF req[t].s \in Held THEN "check" ELSE "refuse"]
      BY <2>1 DEF Consume, GoTo
    <3>3. req'[t] = [req[t] EXCEPT !.at = IF req[t].s \in Held THEN "check" ELSE "refuse"]
      BY <3>1, <3>2
    <3>4. req'[t].s = req[t].s /\ (req'[t].at = "check" => req[t].s \in Held)
      BY <3>1, <3>3 DEF Request
    <3> QED BY <3>4 DEF At
  <2>2. ASSUME ~ Consume(t) PROVE ~ At(t, "check")'
    <3>1. At(t, "check")' => req'[t] # None /\ req'[t].at = "check"
      BY DEF At
    <3>2. req \in [Thread -> Request \cup {None}]
      BY DEF IInv, TypeOK
    <3>3. CASE IterationRaises(t) \/ AnswerLogin(t) \/ SignedIn(t) \/ SessionFails(t) \/ Refuse(t)
      BY <3>1, <3>2, <3>3 DEF IterationRaises, AnswerLogin, SignedIn, SessionFails, Refuse, Done
    <3>4. CASE \/ \E b \in Browser : AskLogin(t, b)
               \/ \E b \in Browser, s \in State : Callback(t, b, s)
      <4>1. req'[t].at \in {"iterate", "consume", "refuse"}
        BY <3>2, <3>4 DEF AskLogin, Callback, Begin
      <4> QED BY <3>1, <4>1
    <3>5. CASE Collect(t) \/ PopDoomed(t) \/ CountOverflow(t) \/ ListOldest(t) \/ ExchangeFails(t)
      <4>1. req[t] # None /\ req[t] \in Request
        BY <3>5, Fields DEF IInv, Collect, PopDoomed, CountOverflow, ListOldest, ExchangeFails, At
      <4>2. req'[t].at \in {"prune", "evict", "list", "answer", "refuse"}
        <5>1. CASE Collect(t)
          BY <3>2, <4>1, <5>1 DEF Collect, Request
        <5>2. CASE PopDoomed(t)
          BY <3>2, <4>1, <5>2 DEF PopDoomed, At, Request
        <5>3. CASE CountOverflow(t)
          BY <3>2, <4>1, <5>3 DEF CountOverflow, Request
        <5>4. CASE ListOldest(t)
          BY <3>2, <4>1, <5>4 DEF ListOldest, Request
        <5>5. CASE ExchangeFails(t)
          BY <3>2, <4>1, <5>5 DEF ExchangeFails, GoTo, Request
        <5> QED BY <3>5, <5>1, <5>2, <5>3, <5>4, <5>5
      <4> QED BY <3>1, <4>2
    <3> QED BY <2>2, <3>3, <3>4, <3>5 DEF Login, Return
  <2> QED BY <2>1, <2>2
<1>5. ASSUME NEW s \in State, Looked(s)' PROVE Looked(s)
  <2>1. CASE s \in Held
    BY <2>1 DEF Looked
  <2>2. CASE s \notin Held
    <3>1. PICK u \in Thread : At(u, "check")' /\ req'[u].s = s
      BY <1>2, <1>5, <2>2 DEF Looked
    <3>2. u # t
      BY <1>4, <2>2, <3>1
    <3> QED BY <1>3, <3>1, <3>2 DEF Looked, At
  <2> QED BY <2>1, <2>2
<1> QED BY <1>1, <1>5, NothingOpened

LEMMA TickLapses == ASSUME IInv, Tick PROVE Abstract!Next
<1>1. /\ age' = [s \in State |-> IF Looked(s) /\ ~ Expired(s) THEN age[s] + 1 ELSE age[s]]
      /\ table' = table /\ req' = req /\ maker' = maker /\ uses' = uses
  BY DEF Tick
<1>2. \A s \in State : Looked(s)' <=> Looked(s)
  BY <1>1 DEF Looked, Held, At
<1>3. \A s \in State : age[s] \in Int /\ age'[s] \in Int /\ age'[s] >= age[s]
  BY <1>1 DEF IInv, TypeOK
<1>4. TTL \in Int
  BY OAuthAssumption
<1>5. Live' \subseteq Live
  BY <1>2, <1>3, <1>4 DEF Live
<1> QED BY <1>1, <1>5, LapseStep

(* "State is single-use and expiring" (oauth.py): a state lets one callback  *)
(* through, of the browser it was made for, and none once it has lapsed.     *)
THEOREM UsedOnceCorrect == Spec => UsedOnce
<1>1. Init => Abstract!Init
  <2> SUFFICES ASSUME Init PROVE Abstract!Init
    OBVIOUS
  <2>1. Live = {}
    BY DEF Init, Live, Looked, Held, At
  <2> QED BY <2>1 DEF Init, Abstract!Init
<1>2. IInv /\ [Next]_vars => [Abstract!Next]_(Abstract!vars)
  <2> SUFFICES ASSUME IInv, [Next]_vars PROVE [Abstract!Next]_(Abstract!vars)
    OBVIOUS
  <2>1. CASE Tick
    BY <2>1, TickLapses
  <2>2. ASSUME NEW t \in Thread, Login(t) \/ Return(t) PROVE Abstract!Next
    BY <2>2, InsertIssues, CheckUses, OthersLapse
  <2>3. CASE UNCHANGED vars
    BY <2>3 DEF vars, Abstract!vars, Live, Looked, Held, At
  <2> QED BY <2>1, <2>2, <2>3 DEF Next
<1> QED BY <1>1, <1>2, Invariance, PTL DEF Spec, UsedOnce, Abstract!Spec
=================================================================================
