------------------------------ MODULE ReportsProofs ------------------------------
(***************************************************************************)
(* Proofs about what is behind a report, for any reports, views, questions *)
(* and documents: of module ReportDocument its types, StrayNeedsLateBind,  *)
(* CleanIsStored and EditsKept; of module SemanticQuery, in the machine of *)
(* Visuals, JoinVerdictRight, AdviceWorks, AskedIsShown, FiltersMean and   *)
(* ValuesHonest; of module Visuals ExportShowsScreen and FeedShowsReport.  *)
(***************************************************************************)
EXTENDS ReportDocument, Visuals, FiniteSetTheorems, SequenceTheorems, TLAPS

-----------------------------------------------------------------------------
(**** The report document.                                             ****)

(* An answer waits only for a component that is mounted.                     *)
Heard ==
  \A c \in Call : calls[c] # None =>
    /\ calls[c].served => calls[c].mounted
    /\ calls[c].mounted => cur # None

(* Wherever a document is on its way, it is one of the report it is for.     *)
HomesTrue ==
  /\ \A r \in Report : server[r].home = r
  /\ \A r \in Report : cache[r] # None => cache[r].home = r
  /\ \A r \in Report : fetch[r] # None /\ fetch[r].doc # None => fetch[r].doc.home = r
  /\ \A c \in Call : calls[c] # None => calls[c].doc.home = calls[c].to
  /\ def # None => def.home = cur

Homes == ~ lateBind => HomesTrue

(* At most one request for a report is under way, unless the client may be   *)
(* wrong about it; once it is served the server has its document.            *)
AloneAt(r) ==
  /\ \A c, d \in ToReport(r) : c = d
  /\ \A c \in ToReport(r) : calls[c].served => server[r] = calls[c].doc

Alone == \A r \in Report : r \notin doubt => AloneAt(r)

(* What the client knows of the report it shows, when nothing has misled it: *)
(* at most one request is under way and it will be heard; once that one is   *)
(* served the server has its document, and until then the baseline.          *)
Understood ==
  /\ \A c, d \in ToReport(cur) : c = d
  /\ \A c \in ToReport(cur) :
       calls[c].mounted /\ server[cur] = IF calls[c].served THEN calls[c].doc ELSE base
  /\ ToReport(cur) = {} => server[cur] = base

Known == cur # None /\ def # None /\ cur \notin doubt => Understood

IInv == TypeOK /\ Heard /\ Homes /\ Alone /\ Known
-----------------------------------------------------------------------------
(* The invariant holds at the start, and every action keeps it.              *)

LEMMA InitInv == Init => IInv
<1> SUFFICES ASSUME Init PROVE IInv
  OBVIOUS
<1> USE DEF Init
<1>1. server \in [Report -> Doc]
  BY DEF Doc
<1>2. TypeOK
  BY <1>1 DEF TypeOK
<1>3. Homes
  BY DEF Homes, HomesTrue
<1>4. Heard /\ Alone /\ Known
  BY DEF Heard, Alone, AloneAt, ToReport, Known
<1> QED BY <1>2, <1>3, <1>4 DEF IInv

LEMMA OpenInv == ASSUME IInv, NEW r \in Report, Open(r) PROVE IInv'
<1> USE DocumentAssumption DEF IInv, Open, Show, StartFetch, Populate
<1>1. TypeOK'
  BY DEF TypeOK, Doc, Fetch, Request
<1>2. Heard'
  BY <1>1 DEF Heard, TypeOK, Request
<1>3. Homes'
  BY <1>1 DEF Homes, HomesTrue, TypeOK, Doc, Fetch, Request
<1>4. Known'
  BY <1>1 DEF Known, Understood, ToReport, TypeOK, Heard, Request
<1>5. Alone'
  BY <1>1 DEF Alone, AloneAt, ToReport, TypeOK, Heard, Request
<1> QED BY <1>1, <1>2, <1>3, <1>4, <1>5

LEMMA GoInv == ASSUME IInv, NEW r \in Report, Go(r) PROVE IInv'
<1> USE DocumentAssumption DEF IInv, Go, Show, StartFetch, Populate
<1>0. calls' \in [Call -> Request \cup {None}]
  <2> SUFFICES ASSUME NEW c \in Call
               PROVE  (IF calls[c] # None /\ calls[c].kind = "save"
                       THEN [calls[c] EXCEPT !.watched = FALSE] ELSE calls[c])
                      \in Request \cup {None}
    OBVIOUS
  <2> QED BY DEF TypeOK, Request
<1>1. TypeOK'
  BY <1>0 DEF TypeOK, Fetch
<1>a. \A c \in Call :
        IF calls[c] = None THEN calls'[c] = None
        ELSE /\ calls'[c] # None /\ calls'[c].served = calls[c].served
             /\ calls'[c].mounted = calls[c].mounted
             /\ calls'[c].doc = calls[c].doc /\ calls'[c].to = calls[c].to
  BY DEF TypeOK, Request
<1>2. Heard'
  BY <1>a DEF Heard
<1>3. Homes'
  <2>1. UNCHANGED <<server, cache, lateBind>> /\ cur' = r /\ def' = cache[r]
    OBVIOUS
  <2>2. \A x \in Report : fetch'[x] = fetch[x] \/ fetch'[x].doc = None
    BY DEF TypeOK, StartFetch
  <2> HIDE DEF Go
  <2> QED BY <1>a, <2>1, <2>2 DEF Homes, HomesTrue
<1>4. Known'
  BY <1>1 DEF Known, Understood, ToReport, TypeOK, Heard, Request
<1>5. Alone'
  BY <1>1 DEF Alone, AloneAt, ToReport, TypeOK, Heard, Request
<1> QED BY <1>1, <1>2, <1>3, <1>4, <1>5

LEMMA LeaveInv == ASSUME IInv, Leave PROVE IInv'
<1> USE DocumentAssumption DEF IInv, Leave
<1>0. calls' \in [Call -> Request \cup {None}]
  <2> SUFFICES ASSUME NEW c \in Call
               PROVE  (IF calls[c] # None /\ ~ calls[c].served
                       THEN [calls[c] EXCEPT !.watched = FALSE, !.mounted = FALSE] ELSE None)
                      \in Request \cup {None}
    OBVIOUS
  <2> QED BY DEF TypeOK, Request
<1>1. TypeOK'
  <2>1. UNCHANGED <<server, cache, fetch, failed, lateBind, doubt>>
        /\ cur' = None /\ def' = None /\ base' = None
    OBVIOUS
  <2> HIDE DEF Leave
  <2> QED BY <1>0, <2>1 DEF TypeOK
<1>2. Heard'
  <2>1. \A c \in Call : calls'[c] # None => ~ calls'[c].served /\ ~ calls'[c].mounted
    BY DEF TypeOK, Request
  <2> QED BY <2>1 DEF Heard
<1>3. Homes'
  <2>1. \A c \in Call : calls'[c] # None =>
          calls'[c].doc = calls[c].doc /\ calls'[c].to = calls[c].to /\ calls[c] # None
    BY DEF TypeOK, Request
  <2>2. UNCHANGED <<server, cache, fetch, lateBind>> /\ def' = None
    OBVIOUS
  <2> HIDE DEF Leave
  <2> QED BY <2>1, <2>2 DEF IInv, Homes, HomesTrue
<1>4. Known'
  BY <1>1 DEF Known, Understood, ToReport, TypeOK, Heard, Request
<1>5. Alone'
  <2>1. \A c \in Call : calls'[c] # None =>
          /\ calls[c] # None /\ calls'[c].to = calls[c].to
          /\ ~ calls'[c].served
    BY DEF TypeOK, Request
  <2>2. \A r \in Report : ToReport(r)' \subseteq ToReport(r)
    BY <2>1 DEF ToReport
  <2>3. \A r \in Report : \A c \in ToReport(r)' : ~ calls'[c].served
    BY <2>1 DEF ToReport
  <2> SUFFICES ASSUME NEW r \in Report, r \notin doubt PROVE AloneAt(r)'
    BY DEF Alone
  <2>4. AloneAt(r)
    BY DEF Alone
  <2>5. \A c, d \in ToReport(r)' : c = d
    BY <2>2, <2>4 DEF AloneAt
  <2> QED BY <2>3, <2>5 DEF AloneAt
<1> QED BY <1>1, <1>2, <1>3, <1>4, <1>5

LEMMA ForgetInv == ASSUME IInv, NEW r \in Report, Forget(r) PROVE IInv'
<1> USE DocumentAssumption DEF IInv, Forget
<1>1. TypeOK'
  BY DEF TypeOK, Doc, Fetch, Request
<1>2. Heard'
  BY <1>1 DEF Heard, TypeOK, Request
<1>3. Homes'
  BY <1>1 DEF Homes, HomesTrue, TypeOK, Doc, Fetch, Request
<1>4. Known'
  BY <1>1 DEF Known, Understood, ToReport, TypeOK, Heard, Request
<1>5. Alone'
  BY <1>1 DEF Alone, AloneAt, ToReport, TypeOK, Heard, Request
<1> QED BY <1>1, <1>2, <1>3, <1>4, <1>5

LEMMA RefetchInv == ASSUME IInv, NEW r \in Report, Refetch(r) PROVE IInv'
<1> USE DocumentAssumption DEF IInv, Refetch, StartFetch
<1>1. TypeOK'
  BY DEF TypeOK, Doc, Fetch, Request
<1>2. Heard'
  BY <1>1 DEF Heard, TypeOK, Request
<1>3. Homes'
  BY <1>1 DEF Homes, HomesTrue, TypeOK, Doc, Fetch, Request
<1>4. Known'
  BY <1>1 DEF Known, Understood, ToReport, TypeOK, Heard, Request
<1>5. Alone'
  BY <1>1 DEF Alone, AloneAt, ToReport, TypeOK, Heard, Request
<1> QED BY <1>1, <1>2, <1>3, <1>4, <1>5

LEMMA FetchReadInv == ASSUME IInv, NEW r \in Report, FetchRead(r) PROVE IInv'
<1> USE DocumentAssumption DEF IInv, FetchRead
<1>1. TypeOK'
  BY DEF TypeOK, Doc, Fetch, Request
<1>2. Heard'
  BY <1>1 DEF Heard, TypeOK, Request
<1>3. Homes'
  BY <1>1 DEF Homes, HomesTrue, TypeOK, Doc, Fetch, Request
<1>4. Known'
  BY <1>1 DEF Known, Understood, ToReport, TypeOK, Heard, Request
<1>5. Alone'
  BY <1>1 DEF Alone, AloneAt, ToReport, TypeOK, Heard, Request
<1> QED BY <1>1, <1>2, <1>3, <1>4, <1>5

LEMMA FetchArrivesInv == ASSUME IInv, NEW r \in Report, FetchArrives(r) PROVE IInv'
<1> USE DocumentAssumption DEF IInv, FetchArrives, Populate
<1>1. TypeOK'
  BY DEF TypeOK, Doc, Fetch, Request
<1>2. Heard'
  BY <1>1 DEF Heard, TypeOK, Request
<1>3. Homes'
  BY <1>1 DEF Homes, HomesTrue, TypeOK, Doc, Fetch, Request
<1>4. Known'
  BY <1>1 DEF Known, Understood, ToReport, TypeOK, Heard, Request
<1>5. Alone'
  BY <1>1 DEF Alone, AloneAt, ToReport, TypeOK, Heard, Request
<1> QED BY <1>1, <1>2, <1>3, <1>4, <1>5

LEMMA FetchFailsInv == ASSUME IInv, NEW r \in Report, FetchFails(r) PROVE IInv'
<1> USE DocumentAssumption DEF IInv, FetchFails
<1>1. TypeOK'
  BY DEF TypeOK, Doc, Fetch, Request
<1>2. Heard'
  BY <1>1 DEF Heard, TypeOK, Request
<1>3. Homes'
  BY <1>1 DEF Homes, HomesTrue, TypeOK, Doc, Fetch, Request
<1>4. Known'
  BY <1>1 DEF Known, Understood, ToReport, TypeOK, Heard, Request
<1>5. Alone'
  BY <1>1 DEF Alone, AloneAt, ToReport, TypeOK, Heard, Request
<1> QED BY <1>1, <1>2, <1>3, <1>4, <1>5

LEMMA MakeEditInv == ASSUME IInv, NEW e \in Edit, MakeEdit(e) PROVE IInv'
<1> USE DocumentAssumption DEF IInv, MakeEdit, OnScreen
<1>1. TypeOK'
  BY DEF TypeOK, Doc, Fetch, Request
<1>2. Heard'
  BY <1>1 DEF Heard, TypeOK, Request
<1>3. Homes'
  BY <1>1 DEF Homes, HomesTrue, TypeOK, Doc, Fetch, Request
<1>4. Known'
  BY <1>1 DEF Known, Understood, ToReport, TypeOK, Heard, Request
<1>5. Alone'
  BY <1>1 DEF Alone, AloneAt, ToReport, TypeOK, Heard, Request
<1> QED BY <1>1, <1>2, <1>3, <1>4, <1>5

LEMMA UndoInv == ASSUME IInv, NEW e \in Edit, Undo(e) PROVE IInv'
<1> USE DocumentAssumption DEF IInv, Undo, OnScreen
<1>1. TypeOK'
  BY DEF TypeOK, Doc, Fetch, Request
<1>2. Heard'
  BY <1>1 DEF Heard, TypeOK, Request
<1>3. Homes'
  BY <1>1 DEF Homes, HomesTrue, TypeOK, Doc, Fetch, Request
<1>4. Known'
  BY <1>1 DEF Known, Understood, ToReport, TypeOK, Heard, Request
<1>5. Alone'
  BY <1>1 DEF Alone, AloneAt, ToReport, TypeOK, Heard, Request
<1> QED BY <1>1, <1>2, <1>3, <1>4, <1>5

(* A request is sent: the new one, and what becomes of the others.           *)
LEMMA Sent ==
  ASSUME TypeOK, NEW c \in Call, NEW kind \in {"save", "bind"}, NEW taken \in Doc,
         cur \in Report, Send(c, kind, taken)
  PROVE  /\ calls' \in [Call -> Request \cup {None}]
         /\ calls'[c] # None /\ calls'[c].to = cur /\ calls'[c].doc = taken
         /\ calls'[c].mounted /\ ~ calls'[c].served
         /\ \A d \in Call \ {c} :
              IF calls[d] = None THEN calls'[d] = None
              ELSE /\ calls'[d] # None
                   /\ calls'[d].to = calls[d].to /\ calls'[d].doc = calls[d].doc
                   /\ calls'[d].mounted = calls[d].mounted /\ calls'[d].served = calls[d].served
<1> USE DocumentAssumption
<1> DEFINE sent == [kind |-> kind, to |-> cur, doc |-> taken, served |-> FALSE,
                    watched |-> kind = "save", mounted |-> TRUE]
<1>1. sent \in Request /\ sent # None
  <2>1. (kind = "save") \in BOOLEAN
    OBVIOUS
  <2>2. \A w \in BOOLEAN :
          [kind |-> kind, to |-> cur, doc |-> taken, served |-> FALSE,
           watched |-> w, mounted |-> TRUE] \in Request
    BY DEF Request
  <2> QED BY <2>1, <2>2
<1>2. calls' = [d \in Call |-> IF d = c THEN sent
                 ELSE IF calls[d] # None /\ calls[d].kind = kind
                      THEN [calls[d] EXCEPT !.watched = FALSE] ELSE calls[d]]
  BY DEF Send
<1>3. calls'[c] = sent
  BY <1>2
<1>4. ASSUME NEW d \in Call \ {c}, calls[d] # None
      PROVE  /\ calls'[d] \in Request
             /\ calls'[d].to = calls[d].to /\ calls'[d].doc = calls[d].doc
             /\ calls'[d].mounted = calls[d].mounted /\ calls'[d].served = calls[d].served
  <2>1. calls[d] \in Request
    BY <1>4 DEF TypeOK
  <2>2. calls'[d] = IF calls[d].kind = kind THEN [calls[d] EXCEPT !.watched = FALSE] ELSE calls[d]
    BY <1>2, <1>4
  <2> QED BY <2>1, <2>2 DEF Request
<1>5. \A d \in Call \ {c} : calls[d] = None => calls'[d] = None
  BY <1>2
<1>6. calls' \in [Call -> Request \cup {None}]
  <2> SUFFICES ASSUME NEW d \in Call PROVE calls'[d] \in Request \cup {None}
    BY <1>2
  <2> QED BY <1>1, <1>3, <1>4, <1>5
<1> QED BY <1>1, <1>3, <1>4, <1>5, <1>6

LEMMA SendInv ==
  ASSUME IInv, NEW c \in Call, NEW kind \in {"save", "bind"}, NEW taken \in Doc,
         def # None, taken.home = def.home, Send(c, kind, taken)
  PROVE  IInv'
<1> USE DocumentAssumption DEF IInv
<1>0. cur \in Report /\ calls[c] = None
  BY DEF TypeOK, Send
<1>a. UNCHANGED <<server, cache, fetch, failed, cur, def, base, lateBind>>
  BY DEF Send
<1>1. TypeOK'
  <2>1. calls' \in [Call -> Request \cup {None}]
    BY <1>0, Sent
  <2>2. doubt' \subseteq Report
    BY <1>0 DEF TypeOK, Send
  <2> QED BY <1>a, <2>1, <2>2 DEF TypeOK
<1>2. Heard'
  BY <1>0, <1>a, Sent DEF Heard
<1>3. Homes'
  <2>1. ASSUME ~ lateBind, NEW d \in Call, calls'[d] # None
        PROVE  calls'[d].doc.home = calls'[d].to
    <3>1. CASE d = c
      BY <1>0, <2>1, <3>1, Sent DEF Homes, HomesTrue
    <3>2. CASE d # c
      BY <1>0, <2>1, <3>2, Sent DEF Homes, HomesTrue
    <3> QED BY <3>1, <3>2
  <2> QED BY <1>a, <2>1 DEF Homes, HomesTrue
<1>4. Known'
  <2> SUFFICES ASSUME cur \notin doubt'
               PROVE  Known'
    BY <1>a DEF Known
  <2>1. ToReport(cur) = {} /\ cur \notin doubt
    BY DEF Send
  <2>2. server[cur] = base
    BY <1>0, <2>1 DEF Known, Understood, Send
  <2>3. \A d \in ToReport(cur)' : d = c
    BY <1>0, <1>a, <2>1, Sent DEF ToReport
  <2> QED BY <1>0, <1>a, <2>2, <2>3, Sent DEF Known, Understood, ToReport
<1>5. Alone'
  <2> SUFFICES ASSUME NEW r \in Report, r \notin doubt' PROVE AloneAt(r)'
    BY DEF Alone
  <2>1. r \notin doubt /\ AloneAt(r)
    BY DEF Send, Alone
  <2>2. CASE r = cur
    <3>1. ToReport(r) = {}
      BY <2>2 DEF Send
    <3>2. \A d \in ToReport(r)' : d = c
      BY <1>0, <2>2, <3>1, Sent DEF ToReport
    <3> QED BY <1>0, <3>2, Sent DEF AloneAt
  <2>3. CASE r # cur
    <3>1. \A d \in ToReport(r)' : d # c /\ d \in Call
      BY <1>0, <2>3, Sent DEF ToReport
    <3>2. \A d \in ToReport(r)' :
            /\ d \in ToReport(r)
            /\ calls'[d].served = calls[d].served /\ calls'[d].doc = calls[d].doc
      BY <1>0, <3>1, Sent DEF ToReport
    <3> QED BY <1>a, <2>1, <3>2 DEF AloneAt
  <2> QED BY <2>2, <2>3
<1> QED BY <1>1, <1>2, <1>3, <1>4, <1>5

LEMMA SaveInv == ASSUME IInv, NEW c \in Call, Save(c) PROVE IInv'
<1>1. def \in Doc /\ def # None
  BY DEF IInv, TypeOK, Save, dirty
<1> QED BY <1>1, SendInv DEF Save

LEMMA BindViewInv == ASSUME IInv, NEW c \in Call, BindView(c) PROVE IInv'
<1> DEFINE taken == [def EXCEPT !.bound = TRUE]
<1>1. def \in Doc /\ def # None
  BY DEF IInv, TypeOK, BindView, OnScreen
<1>2. taken \in Doc /\ taken.home = def.home
  BY <1>1 DEF Doc
<1>3. Send(c, "bind", taken)
  BY DEF BindView
<1> HIDE DEF taken
<1> QED BY <1>1, <1>2, <1>3, SendInv

LEMMA ServeInv == ASSUME IInv, NEW c \in Call, Serve(c) PROVE IInv'
<1> USE DocumentAssumption DEF IInv, Serve
<1>0. calls[c] \in Request /\ [calls[c] EXCEPT !.served = TRUE] \in Request
  BY DEF TypeOK, Request
<1>1. TypeOK'
  BY <1>0 DEF TypeOK, Request
<1>2. Heard'
  BY <1>1 DEF Heard, TypeOK, Request
<1>3. Homes'
  BY <1>1 DEF Homes, HomesTrue, TypeOK, Doc, Fetch, Request
<1>4. Known'
  <2> SUFFICES ASSUME cur # None, def # None, cur \notin doubt'
               PROVE  Understood'
    BY DEF Known
  <2>0. cur \notin doubt /\ Understood
    BY DEF Known
  <2>1. ToReport(cur)' = IF calls[c].mounted THEN ToReport(cur) ELSE ToReport(cur) \ {c}
    BY <1>0 DEF ToReport, TypeOK, Request
  <2>2. \A d \in Call \ {c} : calls'[d] = calls[d]
    BY DEF TypeOK
  <2>3. c \in ToReport(cur) <=> calls[c].to = cur
    BY DEF ToReport
  <2>4. CASE calls[c].to = cur
    <3>1. calls[c].mounted /\ ToReport(cur)' = ToReport(cur)
      BY <2>0, <2>1, <2>3, <2>4 DEF Understood
    <3>2. calls'[c] = [calls[c] EXCEPT !.served = TRUE] /\ server'[cur] = calls[c].doc
      BY <2>4, <3>1 DEF TypeOK
    <3>3. calls'[c].served /\ calls'[c].mounted /\ calls'[c].doc = calls[c].doc
      BY <1>0, <3>1, <3>2 DEF Request
    <3> QED BY <2>0, <2>3, <2>4, <3>1, <3>2, <3>3 DEF Understood
  <2>5. CASE calls[c].to # cur
    <3>1. server'[cur] = server[cur]
      BY <1>0, <2>5 DEF TypeOK, Request
    <3> QED BY <2>0, <2>1, <2>2, <2>3, <2>5, <3>1 DEF Understood
  <2> QED BY <2>4, <2>5
<1>5. Alone'
  BY <1>1 DEF Alone, AloneAt, ToReport, TypeOK, Heard, Request
<1> QED BY <1>1, <1>2, <1>3, <1>4, <1>5

LEMMA SaveAnsweredInv == ASSUME IInv, NEW c \in Call, SaveAnswered(c) PROVE IInv'
<1> USE DocumentAssumption DEF IInv, SaveAnswered
<1>0. calls[c] \in Request
  BY DEF TypeOK
<1>1. TypeOK'
  <2>1. base' \in Doc \cup {None} /\ (def = None <=> base' = None)
    BY <1>0 DEF TypeOK, Request
  <2>2. doubt' \subseteq Report
    BY DEF TypeOK
  <2> QED BY <2>1, <2>2 DEF TypeOK
<1>2. Heard'
  BY <1>1 DEF Heard, TypeOK, Request
<1>3. Homes'
  BY <1>1 DEF Homes, HomesTrue, TypeOK, Doc, Fetch, Request
<1>4. Known'
  <2> SUFFICES ASSUME cur # None, def # None, cur \notin doubt'
               PROVE  Understood'
    BY DEF Known
  <2>0. cur \notin doubt /\ Understood
    BY DEF Known
  <2>1. ToReport(cur)' = ToReport(cur) \ {c}
    BY DEF ToReport, TypeOK
  <2>2. \A d \in ToReport(cur) \ {c} : calls'[d] = calls[d]
    BY DEF ToReport, TypeOK
  <2>3. c \in ToReport(cur) <=> calls[c].to = cur
    BY DEF ToReport
  <2>4. CASE calls[c].to = cur
    <3>1. \A d \in ToReport(cur) : d = c
      BY <2>0, <2>3, <2>4 DEF Understood
    <3>2. ToReport(cur)' = {}
      BY <2>1, <3>1
    <3> QED BY <2>0, <2>3, <2>4, <3>2 DEF Understood
  <2>5. CASE calls[c].to # cur
    BY <2>0, <2>1, <2>2, <2>3, <2>5 DEF Understood
  <2> QED BY <2>4, <2>5
<1>5. Alone'
  BY <1>1 DEF Alone, AloneAt, ToReport, TypeOK, Heard, Request
<1> QED BY <1>1, <1>2, <1>3, <1>4, <1>5

LEMMA BindAnsweredInv == ASSUME IInv, NEW c \in Call, BindAnswered(c) PROVE IInv'
<1> USE DocumentAssumption DEF IInv, BindAnswered
<1>0. cur # None /\ calls[c] \in Request
  BY DEF TypeOK, Heard
<1>1. TypeOK'
  BY <1>0 DEF TypeOK, Request
<1>2. Heard'
  BY <1>1 DEF Heard, TypeOK, Request
<1>3. Homes'
  BY <1>1 DEF Homes, HomesTrue, TypeOK, Doc, Fetch, Request
<1>4. Known'
  <2> SUFFICES ASSUME cur \notin doubt'
               PROVE  Understood'
    BY <1>0 DEF Known
  <2>1. calls[c].to = cur /\ cur \notin doubt
    OBVIOUS
  <2>2. c \in ToReport(cur) /\ cur \in Report
    BY <1>0, <2>1 DEF ToReport, TypeOK
  <2>3. server[cur] = calls[c].doc /\ ToReport(cur) = {c}
    BY <2>1, <2>2 DEF Alone, AloneAt
  <2>4. ToReport(cur)' = {}
    BY <2>3 DEF ToReport, TypeOK
  <2> QED BY <2>3, <2>4 DEF Understood
<1>5. Alone'
  BY <1>1 DEF Alone, AloneAt, ToReport, TypeOK, Heard, Request
<1> QED BY <1>1, <1>2, <1>3, <1>4, <1>5

LEMMA CallFailsInv == ASSUME IInv, NEW c \in Call, CallFails(c) PROVE IInv'
<1> USE DocumentAssumption DEF IInv, CallFails
<1>1. TypeOK'
  BY DEF TypeOK, Doc, Fetch, Request
<1>2. Heard'
  BY <1>1 DEF Heard, TypeOK, Request
<1>3. Homes'
  BY <1>1 DEF Homes, HomesTrue, TypeOK, Doc, Fetch, Request
<1>4. Known'
  <2> SUFFICES ASSUME cur # None, def # None, cur \notin doubt'
               PROVE  Understood'
    BY DEF Known
  <2>0. cur \notin doubt /\ Understood
    BY DEF Known
  <2>1. ToReport(cur)' = ToReport(cur) \ {c}
    BY DEF ToReport, TypeOK
  <2>2. \A d \in ToReport(cur) \ {c} : calls'[d] = calls[d]
    BY DEF ToReport, TypeOK
  <2>3. c \in ToReport(cur) <=> calls[c].to = cur
    BY DEF ToReport
  <2>4. CASE calls[c].to = cur
    <3>1. \A d \in ToReport(cur) : d = c
      BY <2>0, <2>3, <2>4 DEF Understood
    <3>2. ToReport(cur)' = {}
      BY <2>1, <3>1
    <3> QED BY <2>0, <2>3, <2>4, <3>2 DEF Understood
  <2>5. CASE calls[c].to # cur
    BY <2>0, <2>1, <2>2, <2>3, <2>5 DEF Understood
  <2> QED BY <2>4, <2>5
<1>5. Alone'
  BY <1>1 DEF Alone, AloneAt, ToReport, TypeOK, Heard, Request
<1> QED BY <1>1, <1>2, <1>3, <1>4, <1>5

LEMMA StutterInv == IInv /\ UNCHANGED vars => IInv'
BY DEF IInv, vars, TypeOK, Heard, Homes, HomesTrue, Alone, AloneAt, Known, Understood, ToReport

LEMMA NextInv == IInv /\ [Next]_vars => IInv'
BY OpenInv, GoInv, LeaveInv, ForgetInv, RefetchInv, FetchReadInv, FetchArrivesInv, FetchFailsInv,
   MakeEditInv, UndoInv, SaveInv, BindViewInv, ServeInv, SaveAnsweredInv,
   BindAnsweredInv, CallFailsInv, StutterInv DEF Next
-----------------------------------------------------------------------------
LEMMA Invariance == Spec => []IInv
BY InitInv, NextInv, PTL DEF Spec

(* Everything keeps its type: in particular a document is shown exactly when *)
(* there is a baseline, and none is without a builder (useReportDocument).   *)
THEOREM TypeCorrect == Spec => []TypeOK
BY Invariance, PTL DEF IInv

(* Whatever answers arrive while the user moves about, a document of one     *)
(* report is shown or stored under another only after a bind that was        *)
(* answered too late (useReportDocument's reset, save and bind).             *)
THEOREM StrayCorrect == Spec => []StrayNeedsLateBind
<1>1. IInv => StrayNeedsLateBind
  BY DEF IInv, Homes, HomesTrue, StrayNeedsLateBind
<1> QED BY <1>1, Invariance, PTL

(* Without unsaved changes, a request under way or a reason for doubt, what  *)
(* is on screen is what is stored (`dirty` and the baseline of save).        *)
THEOREM CleanCorrect == Spec => []CleanIsStored
<1>1. IInv => CleanIsStored
  BY DEF IInv, Known, Understood, CleanIsStored, dirty
<1> QED BY <1>1, Invariance, PTL

(* What the user has done to a document that stays open is undone by the     *)
(* user or by the answer to a bind, never by a fetch or the answer to a save;*)
(* it leaves the screen only for the alert of a failed fetch, and the next   *)
(* fetch that succeeds brings it back.                                       *)
THEOREM EditsCorrect == Spec => EditsKept
<1> DEFINE Stays == \/ def' # None /\ def.edits \subseteq def'.edits
                    \/ \E e \in Edit : Undo(e)
                    \/ \E c \in Call : BindAnswered(c)
           Screen == /\ OnScreen /\ ~ OnScreen' => FetchFails(cur)
                     /\ ~ OnScreen /\ OnScreen' => FetchArrives(cur) /\ def' = def
<1>1. TypeOK /\ [Next]_vars => [cur' = cur /\ def # None => Stays /\ Screen]_vars
  <2> SUFFICES ASSUME TypeOK, Next, cur' = cur, def # None PROVE Stays /\ Screen
    BY DEF vars
  <2> USE DocumentAssumption
  <2>0. cur # None
    BY DEF TypeOK
  <2>1. ASSUME NEW r \in Report, FetchArrives(r) PROVE Stays /\ Screen
    <3>1. def' = def /\ cache' = [cache EXCEPT ![r] = fetch[r].doc] /\ failed' = failed \ {r}
          /\ fetch[r].doc # None
      BY <2>1 DEF FetchArrives
    <3>2. OnScreen => OnScreen'
      BY <3>1 DEF OnScreen, TypeOK
    <3>3. ~ OnScreen /\ OnScreen' => r = cur
      BY <3>1 DEF OnScreen, TypeOK
    <3> QED BY <2>1, <3>1, <3>2, <3>3
  <2>2. ASSUME NEW r \in Report, FetchFails(r) PROVE Stays /\ Screen
    <3>1. def' = def /\ cache' = cache /\ failed' = failed \cup {r}
      BY <2>2 DEF FetchFails
    <3> QED BY <2>2, <3>1 DEF OnScreen
  <2>3. ASSUME NEW r \in Report, Forget(r) \/ Refetch(r) PROVE Stays /\ Screen
    BY <2>3 DEF Forget, Refetch, StartFetch, OnScreen, TypeOK
  <2>4. ASSUME NEW e \in Edit, MakeEdit(e) PROVE Stays /\ Screen
    <3>1. def \in Doc /\ def' = [def EXCEPT !.edits = @ \cup {e}]
      BY <2>4 DEF MakeEdit, TypeOK
    <3>2. def' \in Doc /\ def'.edits = def.edits \cup {e}
      BY <3>1 DEF Doc
    <3> QED BY <2>4, <3>2 DEF MakeEdit, OnScreen
  <2>5. ASSUME NEW e \in Edit, Undo(e) PROVE Stays /\ Screen
    <3>1. def \in Doc /\ def' = [def EXCEPT !.edits = @ \ {e}]
      BY <2>5 DEF Undo, TypeOK
    <3>2. def' \in Doc
      BY <3>1 DEF Doc
    <3> QED BY <2>5, <3>2 DEF Undo, OnScreen
  <2>6. ASSUME NEW c \in Call, BindAnswered(c) PROVE Stays /\ Screen
    <3>1. calls[c].doc # None
      BY <2>6 DEF BindAnswered, TypeOK, Request
    <3> QED BY <2>6, <3>1 DEF BindAnswered, OnScreen
  <2>7. ASSUME NEW r \in Report, FetchRead(r) PROVE Stays /\ Screen
    BY <2>7 DEF FetchRead, OnScreen
  <2>8. ASSUME NEW c \in Call, Save(c) \/ BindView(c) \/ Serve(c) \/ SaveAnswered(c) \/ CallFails(c)
        PROVE  Stays /\ Screen
    BY <2>8 DEF Save, BindView, Send, Serve, SaveAnswered, CallFails, OnScreen
  <2> QED
    BY <2>0, <2>1, <2>2, <2>3, <2>4, <2>5, <2>6, <2>7, <2>8 DEF Next, Open, Go, Show, Leave
<1> QED BY <1>1, TypeCorrect, PTL DEF Spec, EditsKept

-----------------------------------------------------------------------------
(**** Semantic queries: the plan, the columns, the values.             ****)

(* Every nonempty set of numbers has a least one.                            *)
LEMMA LeastNat ==
  ASSUME NEW S \in SUBSET Nat, S # {}
  PROVE  \E n \in S : \A m \in S : n <= m
<1> DEFINE F == {0..n : n \in S}
<1>1. F \in SUBSET FiniteSubsetsOf(Nat)
  <2> SUFFICES ASSUME NEW n \in S PROVE 0..n \in FiniteSubsetsOf(Nat)
    OBVIOUS
  <2> QED BY FS_Interval DEF FiniteSubsetsOf
<1>2. F # {}
  OBVIOUS
<1> HIDE DEF F
<1>3. PICK I \in F : \A J \in F : ~ (<<J, I>> \in StrictSubsetOrdering(Nat))
  BY <1>1, <1>2, WFMin, FS_StrictSubsetOrderingWellFounded
<1>4. PICK n \in S : I = 0..n
  BY <1>3 DEF F
<1>5. ASSUME NEW m \in S, ~ (n <= m) PROVE FALSE
  <2>1. 0..m \subseteq 0..n /\ 0..m # 0..n
    <3>1. n \in 0..n /\ n \notin 0..m
      BY <1>5
    <3> QED BY <1>5, <3>1
  <2>2. 0..m \in F /\ 0..m \in SUBSET Nat /\ 0..n \in SUBSET Nat
    BY DEF F
  <2> QED BY <1>3, <1>4, <2>1, <2>2 DEF StrictSubsetOrdering
<1> QED BY <1>5

(* Induction, over a set of numbers.                                         *)
LEMMA Induction ==
  ASSUME NEW T, 0 \in T, \A n \in Nat : n \in T => n + 1 \in T
  PROVE  Nat \subseteq T
<1> SUFFICES ASSUME Nat \ T # {} PROVE FALSE
  OBVIOUS
<1>1. PICK n \in Nat \ T : \A m \in Nat \ T : n <= m
  BY LeastNat
<1>2. n # 0 /\ n - 1 \in Nat /\ n - 1 \notin Nat \ T
  BY <1>1
<1> QED BY <1>1, <1>2

LEMMA MinIs ==
  ASSUME NEW S \in SUBSET Nat, S # {}
  PROVE  Min(S) \in S /\ \A x \in S : Min(S) <= x
  BY LeastNat DEF Min

-----------------------------------------------------------------------------
(* joins.py: reachable.                                                      *)

GraphOK(graph) == graph \subseteq Table \X Table

Beyond(graph, inner) == inner \cup {e[2] : e \in {x \in graph : x[1] \in inner}}

IsSearch(graph, start, n, ball) ==
  ball = [k \in 0..n |-> IF k = 0 THEN {start} ELSE Beyond(graph, ball[k - 1])]

LEMMA SearchExists ==
  ASSUME NEW graph, NEW start, NEW n \in Nat
  PROVE  \E ball : IsSearch(graph, start, n, ball)
<1> DEFINE T == {m \in Nat : \E ball : IsSearch(graph, start, m, ball)}
<1>1. 0 \in T
  <2>1. IsSearch(graph, start, 0, [k \in 0..0 |-> {start}])
    BY DEF IsSearch
  <2> QED BY <2>1
<1>2. ASSUME NEW m \in Nat, m \in T PROVE m + 1 \in T
  <2>1. PICK ball : IsSearch(graph, start, m, ball)
    BY <1>2
  <2> DEFINE more == [k \in 0..(m + 1) |-> IF k = m + 1 THEN Beyond(graph, ball[m]) ELSE ball[k]]
  <2>2. ball = [k \in 0..m |-> IF k = 0 THEN {start} ELSE Beyond(graph, ball[k - 1])]
    BY <2>1 DEF IsSearch
  <2>3. more[0] = {start}
    BY <2>2
  <2>4. ASSUME NEW k \in 1..(m + 1) PROVE more[k] = Beyond(graph, more[k - 1])
    <3>1. CASE k = m + 1
      BY <3>1
    <3>2. CASE k # m + 1
      <4>1. k \in 0..m /\ k - 1 \in 0..m /\ k # 0
        BY <3>2
      <4>2. ball[k] = Beyond(graph, ball[k - 1])
        BY <2>2, <4>1
      <4> QED BY <4>1, <4>2, <3>2
    <3> QED BY <3>1, <3>2
  <2> HIDE DEF more
  <2>5. more = [k \in 0..(m + 1) |-> more[k]]
    BY DEF more
  <2>6. ASSUME NEW k \in 0..(m + 1)
        PROVE  more[k] = IF k = 0 THEN {start} ELSE Beyond(graph, more[k - 1])
    <3>1. k = 0 \/ k \in 1..(m + 1)
      OBVIOUS
    <3> QED BY <2>3, <2>4, <3>1
  <2>7. IsSearch(graph, start, m + 1, more)
    BY <2>5, <2>6 DEF IsSearch
  <2> QED BY <2>7
<1> HIDE DEF T
<1>3. n \in T
  BY <1>1, <1>2, Induction
<1> QED BY <1>3 DEF T

LEMMA WithinIs ==
  ASSUME NEW graph, NEW start
  PROVE  IsSearch(graph, start, Cardinality(Table), Within(graph, start))
<1>1. Cardinality(Table) \in Nat
  BY JoinsAssumption, FS_CardinalityType
<1>2. \E ball : IsSearch(graph, start, Cardinality(Table), ball)
  BY <1>1, SearchExists
<1>3. Within(graph, start) = CHOOSE ball : IsSearch(graph, start, Cardinality(Table), ball)
  BY DEF Within, IsSearch, Beyond
<1> QED BY <1>2, <1>3

ClosedUnder(graph, C) == \A e \in graph : e[1] \in C => e[2] \in C

LEMMA Balls ==
  ASSUME NEW graph, GraphOK(graph), NEW start \in Table
  PROVE  LET n == Cardinality(Table)
             ball == Within(graph, start) IN
         /\ n \in Nat
         /\ ball[0] = {start}
         /\ \A k \in 0..n : k + 1 \in 0..n => ball[k + 1] = Beyond(graph, ball[k])
<1> DEFINE n == Cardinality(Table)
           ball == Within(graph, start)
<1>1. n \in Nat
  BY JoinsAssumption, FS_CardinalityType
<1>2. ball = [k \in 0..n |-> IF k = 0 THEN {start} ELSE Beyond(graph, ball[k - 1])]
  BY WithinIs DEF IsSearch
<1> HIDE DEF ball, n
<1>3. ball[0] = {start}
  BY <1>1, <1>2
<1>4. ASSUME NEW k \in 0..n, k + 1 \in 0..n PROVE ball[k + 1] = Beyond(graph, ball[k])
  <2>1. ASSUME NEW j \in 0..n, j # 0 PROVE ball[j] = Beyond(graph, ball[j - 1])
    BY <1>2, <2>1, Zenon
  <2>2. k + 1 # 0 /\ (k + 1) - 1 = k
    BY <1>1
  <2>3. ball[k + 1] = Beyond(graph, ball[(k + 1) - 1])
    BY <1>4, <2>1, <2>2
  <2> QED BY <2>2, <2>3
<1> QED BY <1>1, <1>3, <1>4 DEF ball, n

(* The breadth-first search ends after at most as many rounds as there are   *)
(* tables: what it finds is the least set that holds the start and is closed *)
(* under the edges.                                                          *)
LEMMA ReachableIs ==
  ASSUME NEW graph, GraphOK(graph), NEW start \in Table
  PROVE  /\ start \in reachable(graph, start)
         /\ reachable(graph, start) \subseteq Table
         /\ ClosedUnder(graph, reachable(graph, start))
         /\ \A C : start \in C /\ ClosedUnder(graph, C) => reachable(graph, start) \subseteq C
<1> DEFINE n == Cardinality(Table)
           ball == Within(graph, start)
<1>1. n \in Nat /\ IsFiniteSet(Table)
  BY Balls, JoinsAssumption
<1>2. ball[0] = {start}
  BY Balls
<1>3. \A k \in 0..n : k + 1 \in 0..n => ball[k + 1] = Beyond(graph, ball[k])
  BY Balls
<1>4. reachable(graph, start) = ball[n]
  BY DEF reachable
<1> HIDE DEF n, ball
<1>5. \A k \in 0..n : start \in ball[k] /\ ball[k] \subseteq Table
  <2> DEFINE T == {k \in Nat : k <= n => start \in ball[k] /\ ball[k] \subseteq Table}
  <2>1. 0 \in T
    BY <1>2
  <2>2. ASSUME NEW k \in Nat, k \in T PROVE k + 1 \in T
    <3> SUFFICES ASSUME k + 1 <= n PROVE start \in ball[k + 1] /\ ball[k + 1] \subseteq Table
      OBVIOUS
    <3>1. ball[k + 1] = Beyond(graph, ball[k])
      BY <1>1, <1>3
    <3>2. start \in ball[k] /\ ball[k] \subseteq Table
      BY <1>1, <2>2
    <3> QED BY <3>1, <3>2 DEF Beyond, GraphOK
  <2> HIDE DEF T
  <2>3. Nat \subseteq T
    BY <2>1, <2>2, Induction
  <2> QED BY <1>1, <2>3 DEF T
<1>6. \A k \in 0..n : ClosedUnder(graph, ball[k]) \/ Cardinality(ball[k]) >= k + 1
  <2> DEFINE T == {k \in Nat : k <= n => ClosedUnder(graph, ball[k]) \/ Cardinality(ball[k]) >= k + 1}
  <2>1. 0 \in T
    BY <1>2, FS_Singleton
  <2>2. ASSUME NEW k \in Nat, k \in T PROVE k + 1 \in T
    <3> SUFFICES ASSUME k + 1 <= n
                 PROVE  ClosedUnder(graph, ball[k + 1]) \/ Cardinality(ball[k + 1]) >= (k + 1) + 1
      OBVIOUS
    <3>1. ball[k + 1] = Beyond(graph, ball[k])
      BY <1>1, <1>3
    <3>2. CASE ClosedUnder(graph, ball[k])
      <4>1. ball[k + 1] = ball[k]
        BY <3>1, <3>2 DEF Beyond, ClosedUnder
      <4> QED BY <3>2, <4>1
    <3>3. CASE ~ ClosedUnder(graph, ball[k])
      <4>1. Cardinality(ball[k]) >= k + 1
        BY <1>1, <2>2, <3>3
      <4>2. ball[k] \subseteq ball[k + 1] /\ ball[k] # ball[k + 1]
        BY <3>1, <3>3 DEF Beyond, ClosedUnder
      <4>3. ball[k + 1] \in SUBSET Table
        BY <1>1, <1>5
      <4>4. IsFiniteSet(ball[k + 1])
        BY <1>1, <4>3, FS_Subset
      <4>5. /\ IsFiniteSet(ball[k])
            /\ Cardinality(ball[k]) <= Cardinality(ball[k + 1])
            /\ Cardinality(ball[k]) # Cardinality(ball[k + 1])
        BY <4>2, <4>4, FS_Subset
      <4>6. Cardinality(ball[k]) \in Nat /\ Cardinality(ball[k + 1]) \in Nat
        BY <4>4, <4>5, FS_CardinalityType
      <4> QED BY <4>1, <4>5, <4>6
    <3> QED BY <3>2, <3>3
  <2> HIDE DEF T
  <2>3. Nat \subseteq T
    BY <2>1, <2>2, Induction
  <2> QED BY <1>1, <2>3 DEF T
<1>7. ClosedUnder(graph, ball[n])
  <2>1. ball[n] \in SUBSET Table
    BY <1>1, <1>5
  <2>2. Cardinality(ball[n]) <= n /\ Cardinality(ball[n]) \in Nat
    BY <1>1, <2>1, FS_Subset, FS_CardinalityType DEF n
  <2> QED BY <1>1, <1>6, <2>2
<1>8. ASSUME NEW C, start \in C, ClosedUnder(graph, C) PROVE ball[n] \subseteq C
  <2> DEFINE T == {k \in Nat : k <= n => ball[k] \subseteq C}
  <2>1. 0 \in T
    BY <1>2, <1>8
  <2>2. ASSUME NEW k \in Nat, k \in T PROVE k + 1 \in T
    <3> SUFFICES ASSUME k + 1 <= n PROVE ball[k + 1] \subseteq C
      OBVIOUS
    <3>1. ball[k + 1] = Beyond(graph, ball[k])
      BY <1>1, <1>3
    <3>2. ball[k] \subseteq C
      BY <1>1, <2>2
    <3> QED BY <1>8, <3>1, <3>2 DEF Beyond, ClosedUnder
  <2> HIDE DEF T
  <2>3. Nat \subseteq T
    BY <2>1, <2>2, Induction
  <2> QED BY <1>1, <2>3 DEF T
<1> QED BY <1>1, <1>4, <1>5, <1>7, <1>8

(* joins.py: _total_distance, a sum over the targets.                        *)
Distance(graph, start, t) == Min({k \in 0..Cardinality(Table) : t \in Within(graph, start)[k]})

One(s) == CHOOSE x \in s : TRUE

IsSum(graph, start, D, g) ==
  g = [s \in SUBSET D |->
         IF s = {} THEN 0 ELSE Distance(graph, start, One(s)) + g[s \ {One(s)}]]

LEMMA DistanceNat ==
  ASSUME NEW graph, GraphOK(graph), NEW start \in Table, NEW t \in reachable(graph, start)
  PROVE  Distance(graph, start, t) \in Nat
<1>1. Cardinality(Table) \in Nat
  BY Balls
<1>2. t \in Within(graph, start)[Cardinality(Table)]
  BY DEF reachable
<1> DEFINE S == {k \in 0..Cardinality(Table) : t \in Within(graph, start)[k]}
<1>3. S \in SUBSET Nat /\ S # {}
  BY <1>1, <1>2
<1> QED BY <1>3, MinIs DEF Distance

LEMMA Smaller ==
  ASSUME NEW s, IsFiniteSet(s), s # {}
  PROVE  /\ One(s) \in s /\ IsFiniteSet(s \ {One(s)})
         /\ Cardinality(s) \in Nat /\ Cardinality(s) # 0
         /\ Cardinality(s \ {One(s)}) = Cardinality(s) - 1
<1>1. One(s) \in s
  BY DEF One
<1> QED BY <1>1, FS_RemoveElement, FS_CardinalityType, FS_EmptySet

LEMMA SumExists ==
  ASSUME NEW graph, NEW start, NEW D, IsFiniteSet(D)
  PROVE  \E g : IsSum(graph, start, D, g)
<1> DEFINE Val(g, s) ==
             IF s = {} THEN 0 ELSE Distance(graph, start, One(s)) + g[s \ {One(s)}]
           Upto(g, m) == \A s \in SUBSET D : Cardinality(s) <= m => g[s] = Val(g, s)
           T == {m \in Nat : \E g : g = [s \in SUBSET D |-> g[s]] /\ Upto(g, m)}
<1>1. \A s \in SUBSET D : IsFiniteSet(s) /\ Cardinality(s) \in Nat /\ (Cardinality(s) = 0 => s = {})
  BY FS_Subset, FS_CardinalityType, FS_EmptySet
<1>2. 0 \in T
  <2> DEFINE g == [s \in SUBSET D |-> 0]
  <2>1. g = [s \in SUBSET D |-> g[s]] /\ Upto(g, 0)
    BY <1>1
  <2> QED BY <2>1
<1>3. ASSUME NEW m \in Nat, m \in T PROVE m + 1 \in T
  <2>1. PICK g : g = [s \in SUBSET D |-> g[s]] /\ Upto(g, m)
    BY <1>3
  <2> DEFINE more == [s \in SUBSET D |-> IF Cardinality(s) = m + 1 THEN Val(g, s) ELSE g[s]]
  <2>2. ASSUME NEW s \in SUBSET D, Cardinality(s) <= m + 1 PROVE more[s] = Val(more, s)
    <3>1. CASE s = {}
      <4>1. Cardinality(s) = 0
        BY <3>1, FS_EmptySet
      <4>2. g[s] = Val(g, s)
        <5>1. Upto(g, m)
          BY <2>1
        <5> HIDE DEF Val
        <5> QED BY <4>1, <5>1
      <4>3. more[s] = g[s]
        BY <4>1
      <4> QED BY <3>1, <4>2, <4>3
    <3>2. CASE s # {}
      <4> DEFINE r == s \ {One(s)}
      <4>1. /\ r \in SUBSET D /\ Cardinality(s) \in Nat /\ Cardinality(s) # 0
            /\ Cardinality(r) = Cardinality(s) - 1
        BY <1>1, <3>2, Smaller
      <4>2. more[r] = g[r]
        BY <2>2, <4>1
      <4>3. more[s] = Val(g, s)
        <5>1. CASE Cardinality(s) = m + 1
          BY <5>1
        <5>2. CASE Cardinality(s) # m + 1
          <6>1. Cardinality(s) <= m
            BY <2>2, <4>1, <5>2
          <6>2. g[s] = Val(g, s)
            BY <2>1, <6>1
          <6> QED BY <5>2, <6>2
        <5> QED BY <5>1, <5>2
      <4>4. Val(more, s) = Val(g, s)
        BY <3>2, <4>2
      <4> QED BY <4>3, <4>4
    <3> QED BY <3>1, <3>2
  <2>3. more = [s \in SUBSET D |-> more[s]]
    OBVIOUS
  <2> HIDE DEF more, Val
  <2>4. Upto(more, m + 1)
    BY <2>2
  <2>5. \E h : h = [s \in SUBSET D |-> h[s]] /\ Upto(h, m + 1)
    BY <2>3, <2>4
  <2> HIDE DEF Upto
  <2> QED BY <2>5
<1> HIDE DEF T
<1>4. Cardinality(D) \in T
  BY <1>1, <1>2, <1>3, Induction
<1>5. PICK g : g = [s \in SUBSET D |-> g[s]] /\ Upto(g, Cardinality(D))
  BY <1>4 DEF T
<1>6. \A s \in SUBSET D : g[s] = Val(g, s)
  BY <1>5, FS_Subset
<1>7. g = [s \in SUBSET D |-> Val(g, s)]
  BY <1>5, <1>6
<1> QED BY <1>7 DEF IsSum

LEMMA TotalDistanceNat ==
  ASSUME NEW graph, GraphOK(graph), NEW start \in Table,
         NEW D, D \subseteq reachable(graph, start)
  PROVE  _total_distance(graph, start, D) \in Nat
<1>1. IsFiniteSet(D)
  BY ReachableIs, JoinsAssumption, FS_Subset
<1> DEFINE g == CHOOSE g : IsSum(graph, start, D, g)
<1>2. IsSum(graph, start, D, g)
  BY <1>1, SumExists
<1>3. _total_distance(graph, start, D) = g[D]
  BY DEF _total_distance, MapThenSumSet, MapThenFoldSet, IsSum, Distance, One
<1> HIDE DEF g
<1>4. \A s \in SUBSET D :
        g[s] = IF s = {} THEN 0 ELSE Distance(graph, start, One(s)) + g[s \ {One(s)}]
  BY <1>2, Zenon DEF IsSum
<1> DEFINE T == {m \in Nat : \A s \in SUBSET D : Cardinality(s) = m => g[s] \in Nat}
<1>5. \A s \in SUBSET D : IsFiniteSet(s) /\ Cardinality(s) \in Nat /\ (Cardinality(s) = 0 => s = {})
  BY <1>1, FS_Subset, FS_CardinalityType, FS_EmptySet
<1>6. 0 \in T
  BY <1>4, <1>5
<1>7. ASSUME NEW m \in Nat, m \in T PROVE m + 1 \in T
  <2> SUFFICES ASSUME NEW s \in SUBSET D, Cardinality(s) = m + 1 PROVE g[s] \in Nat
    OBVIOUS
  <2>1. s # {}
    BY FS_EmptySet
  <2>2. One(s) \in s /\ Cardinality(s \ {One(s)}) = m
    BY <1>5, <2>1, Smaller
  <2>3. g[s \ {One(s)}] \in Nat
    BY <1>7, <2>2
  <2>4. Distance(graph, start, One(s)) \in Nat
    BY <2>2, DistanceNat
  <2>5. g[s] = Distance(graph, start, One(s)) + g[s \ {One(s)}]
    BY <1>4, <2>1
  <2> QED BY <2>3, <2>4, <2>5
<1> HIDE DEF T
<1>8. Cardinality(D) \in T
  BY <1>5, <1>6, <1>7, Induction
<1> QED BY <1>3, <1>8 DEF T

LEMMA LeastBy ==
  ASSUME NEW S \in SUBSET Nat, S # {}, NEW f \in [S -> Nat]
  PROVE  \E t \in S : \A u \in S : f[t] < f[u] \/ (f[t] = f[u] /\ t <= u)
<1> DEFINE M == {f[t] : t \in S}
<1>1. PICK m \in M : \A n \in M : m <= n
  <2>1. M \in SUBSET Nat /\ M # {}
    OBVIOUS
  <2> HIDE DEF M
  <2> QED BY <2>1, LeastNat
<1> DEFINE L == {t \in S : f[t] = m}
<1>2. PICK t \in L : \A u \in L : t <= u
  <2>1. L \in SUBSET Nat /\ L # {}
    BY <1>1
  <2> HIDE DEF L
  <2> QED BY <2>1, LeastNat
<1>3. ASSUME NEW u \in S PROVE f[t] < f[u] \/ (f[t] = f[u] /\ t <= u)
  <2>1. f[t] = m /\ m <= f[u] /\ m \in Nat /\ f[u] \in Nat
    BY <1>1, <1>2
  <2>2. f[u] = m => t <= u
    BY <1>2
  <2> QED BY <2>1, <2>2
<1> QED BY <1>2, <1>3

(* joins.py: the two choices of a plan are choices among what there is.      *)
LEMMA WorstIn ==
  ASSUME NEW graph, GraphOK(graph), NEW dims \in SUBSET Table, NEW bases \in SUBSET Table,
         bases # {}
  PROVE  Worst(graph, dims, bases) \in bases
<1> DEFINE blocks(b) == Cardinality(dims \ reachable(graph, b))
           f == [b \in bases |-> Cardinality(dims) - blocks(b)]
<1>1. ASSUME NEW b \in bases
      PROVE  /\ Cardinality(dims) \in Nat /\ blocks(b) \in Nat /\ blocks(b) <= Cardinality(dims)
  BY JoinsAssumption, FS_Subset, FS_CardinalityType
<1>2. bases \in SUBSET Nat
  BY JoinsAssumption
<1>3. f \in [bases -> Nat]
  BY <1>1
<1>4. PICK t \in bases : \A u \in bases : f[t] < f[u] \/ (f[t] = f[u] /\ t <= u)
  <2> HIDE DEF f
  <2> QED BY <1>2, <1>3, LeastBy
<1>5. \A u \in bases : blocks(t) > blocks(u) \/ (blocks(t) = blocks(u) /\ t <= u)
  <2> SUFFICES ASSUME NEW u \in bases
               PROVE  blocks(t) > blocks(u) \/ (blocks(t) = blocks(u) /\ t <= u)
    OBVIOUS
  <2>1. f[t] < f[u] \/ (f[t] = f[u] /\ t <= u)
    BY <1>4
  <2>2. f[t] = Cardinality(dims) - blocks(t) /\ f[u] = Cardinality(dims) - blocks(u)
    OBVIOUS
  <2>3. Cardinality(dims) \in Nat /\ blocks(t) \in Nat /\ blocks(u) \in Nat
    BY <1>1
  <2> HIDE DEF f, blocks
  <2> QED BY <2>1, <2>2, <2>3
<1> QED BY <1>5 DEF Worst

LEMMA ClosestIn ==
  ASSUME NEW graph, GraphOK(graph), NEW dims, NEW found \in SUBSET Table, found # {},
         \A t \in found : dims \subseteq reachable(graph, t)
  PROVE  Closest(graph, dims, found) \in found
<1> DEFINE f == [t \in found |-> _total_distance(graph, t, dims)]
<1>1. f \in [found -> Nat]
  BY TotalDistanceNat
<1>2. found \in SUBSET Nat
  BY JoinsAssumption
<1>3. PICK t \in found : \A u \in found : f[t] < f[u] \/ (f[t] = f[u] /\ t <= u)
  <2> HIDE DEF f
  <2> QED BY <1>1, <1>2, LeastBy
<1>4. \A u \in found :
        \/ _total_distance(graph, t, dims) < _total_distance(graph, u, dims)
        \/ _total_distance(graph, t, dims) = _total_distance(graph, u, dims) /\ t <= u
  BY <1>3
<1> QED BY <1>4 DEF Closest

-----------------------------------------------------------------------------
(* discovery.py: what a described view holds.                                *)

Described(d) ==
  /\ GraphOK(build_join_graph(d))
  /\ d.dimensions \subseteq Table \X Name
  /\ d.metrics \subseteq Table \X Name
  /\ d.facts \subseteq Table \X Name

LEMMA DescribedIs ==
  ASSUME NEW v \in View
  PROVE  Described(describe_semantic_view(v))
<1> DEFINE d == describe_semantic_view(v)
<1>1. \A r \in v : RowTyped(r)
  BY InputAssumption
<1>2. /\ d.dimensions \subseteq Table \X Name
      /\ d.metrics \subseteq Table \X Name
      /\ d.facts \subseteq Table \X Name
  BY <1>1 DEF describe_semantic_view, RowTyped
<1>3. ASSUME NEW x \in v, x.kind = "RELATIONSHIP"
      PROVE  LET r == Relationship(v, x.object) IN
             r.table \in Table /\ r.refTable \in Table \cup {NoTable}
  <2> DEFINE own == {r \in v : r.kind = "RELATIONSHIP" /\ r.object = x.object}
             prop(p) == {r.value : r \in {y \in own : y.property = p}}
             parents == {r.parent : r \in own}
  <2>1. x \in own
    BY <1>3
  <2>2. parents \subseteq Table /\ parents # {}
    BY <1>1, <2>1 DEF RowTyped
  <2>3. prop("TABLE") \subseteq Table /\ prop("REF_TABLE") \subseteq Table
    BY <1>1 DEF RowTyped
  <2>4. (CHOOSE t \in parents : TRUE) \in Table
    BY <2>2
  <2>5. \A S : S \subseteq Table /\ S # {} => (CHOOSE t \in S : TRUE) \in Table
    OBVIOUS
  <2>6. Relationship(v, x.object) =
          [table    |-> IF prop("TABLE") = {} THEN CHOOSE t \in parents : TRUE
                        ELSE CHOOSE t \in prop("TABLE") : TRUE,
           refTable |-> IF prop("REF_TABLE") = {} THEN NoTable
                        ELSE CHOOSE t \in prop("REF_TABLE") : TRUE]
    BY Zenon DEF Relationship
  <2> HIDE DEF parents, prop, own
  <2> QED BY <2>3, <2>4, <2>5, <2>6
<1>4. GraphOK(build_join_graph(d))
  <2> SUFFICES ASSUME NEW e \in build_join_graph(d) PROVE e \in Table \X Table
    BY DEF GraphOK
  <2>1. PICK r \in d.relationships : e = <<r.table, r.refTable>> /\ NoTable \notin {e[1], e[2]}
    BY DEF build_join_graph
  <2>2. PICK x \in v : x.kind = "RELATIONSHIP" /\ r = Relationship(v, x.object)
    BY DEF describe_semantic_view
  <2>3. r.table \in Table /\ r.refTable \in Table \cup {NoTable}
    BY <1>3, <2>2
  <2> QED BY <2>1, <2>3
<1> QED BY <1>2, <1>4 DEF Described

-----------------------------------------------------------------------------
(* query.py: the verdict on a request.                                       *)

LEMMA ReachesIs ==
  ASSUME Described(detail), NEW s \in Table, NEW D \in SUBSET Table
  PROVE  Reaches(s, D) <=> D \subseteq reachable(build_join_graph(detail), s)
<1> DEFINE G == build_join_graph(detail)
<1>1. /\ s \in reachable(G, s) /\ reachable(G, s) \in SUBSET Table
      /\ ClosedUnder(G, reachable(G, s))
      /\ \A C : s \in C /\ ClosedUnder(G, C) => reachable(G, s) \subseteq C
  BY ReachableIs DEF Described
<1>2. Reaches(s, D) <=> \A C \in SUBSET Table : s \in C /\ ClosedUnder(G, C) => D \subseteq C
  BY Zenon DEF Reaches, ClosedUnder
<1> HIDE DEF G
<1>3. (\A C \in SUBSET Table : s \in C /\ ClosedUnder(G, C) => D \subseteq C) <=> D \subseteq reachable(G, s)
  BY <1>1, Zenon
<1> QED BY <1>2, <1>3 DEF G

LEMMA ResolveIs ==
  ASSUME NEW graph, NEW tables \in SUBSET Table
  PROVE  resolve_base(graph, tables) # NoTable <=>
           \E t \in tables : tables \subseteq reachable(graph, t)
<1> DEFINE bases == {t \in tables : tables \subseteq reachable(graph, t)}
<1>1. bases \in SUBSET Nat /\ 0 \notin bases
  BY JoinsAssumption
<1>2. bases # {} => Min(bases) \in bases
  <2> HIDE DEF bases
  <2> QED BY <1>1, MinIs
<1>3. resolve_base(graph, tables) = IF bases = {} THEN NoTable ELSE Min(bases)
  BY DEF resolve_base
<1> HIDE DEF bases
<1>4. resolve_base(graph, tables) # NoTable <=> bases # {}
  BY <1>1, <1>2, <1>3 DEF NoTable
<1> QED BY <1>4 DEF bases

(* The plan agrees with the definition of what can be answered.              *)
LEMMA PlanIs ==
  ASSUME Described(detail), NEW q, TablesOf(q.dims) \subseteq Table, TablesOf(q.mets) \subseteq Table
  PROVE  LET p == plan_join(detail, TablesOf(q.dims), TablesOf(q.mets)) IN
         /\ Answerable(q) => p = NoPlan
         /\ ~ Answerable(q) => TablesOf(q.dims) # {}
         /\ ~ Answerable(q) /\ q.mets = {} => Cardinality(TablesOf(q.dims)) > 1
         /\ ~ Answerable(q) /\ q.mets # {} => p.bridge = NoTable /\ p.blocked # {}
         /\ ~ Answerable(q) /\ q.mets = {} =>
              IF Repairs(q) = {} THEN p.bridge = NoTable /\ p.blocked # {}
              ELSE p.bridge \in Repairs(q) /\ p.blocked = {}
<1> DEFINE G == build_join_graph(detail)
           D == TablesOf(q.dims)
           B == TablesOf(q.mets)
           failing == {b \in B : ~ D \subseteq reachable(G, b)}
           p == plan_join(detail, D, B)
<1>1. GraphOK(G)
  BY DEF Described
<1>2. \A t \in Table : Reaches(t, D) <=> D \subseteq reachable(G, t)
  BY ReachesIs
<1>3. q.mets = {} <=> B = {}
  BY DEF TablesOf
<1>4. IsFiniteSet(D) /\ Cardinality(D) \in Nat
  BY JoinsAssumption, FS_Subset, FS_CardinalityType
<1>5. Cardinality(D) < 2 => D = {} \/ \E t \in D : D \subseteq reachable(G, t)
  <2> SUFFICES ASSUME Cardinality(D) < 2, D # {} PROVE \E t \in D : D \subseteq reachable(G, t)
    OBVIOUS
  <2>1. Cardinality(D) = 1
    BY <1>4, FS_EmptySet
  <2>2. PICK t : D = {t}
    BY <1>4, <2>1, FS_Singleton
  <2> QED BY <1>1, <2>2, ReachableIs
<1>6. resolve_base(G, D) # NoTable <=> \E t \in D : D \subseteq reachable(G, t)
  BY ResolveIs
<1>7. Answerable(q) <=>
        \/ G = {}
        \/ B # {} /\ \A b \in B : D \subseteq reachable(G, b)
        \/ B = {} /\ (Cardinality(D) < 2 \/ resolve_base(G, D) # NoTable)
  <2>1. Answerable(q) <=>
          \/ G = {}
          \/ B # {} /\ \A b \in B : D \subseteq reachable(G, b)
          \/ B = {} /\ \E t \in D : D \subseteq reachable(G, t)
          \/ D = {}
    BY <1>2, <1>3 DEF Answerable
  <2>2. D = {} => Cardinality(D) < 2
    BY FS_EmptySet
  <2> HIDE DEF G, D, B
  <2> QED BY <1>5, <1>6, <2>1, <2>2
<1>8. p = IF Answerable(q) THEN NoPlan
          ELSE IF B # {} THEN BlockedPlan(detail, G, D, failing) ELSE BridgePlan(detail, G, D)
  <2>1. p = IF \/ G = {}
               \/ B # {} /\ \A b \in B : D \subseteq reachable(G, b)
               \/ B = {} /\ (Cardinality(D) < 2 \/ resolve_base(G, D) # NoTable)
            THEN NoPlan
            ELSE IF B # {} THEN BlockedPlan(detail, G, D, failing) ELSE BridgePlan(detail, G, D)
    BY Zenon DEF plan_join, PlanOver
  <2> HIDE DEF G, D, B, p, failing
  <2> QED BY <1>7, <2>1
<1>9. ~ Answerable(q) => D # {}
  BY DEF Answerable
<1>12. ~ Answerable(q) /\ B = {} => Cardinality(D) > 1
  <2> HIDE DEF G, D, B
  <2> QED BY <1>4, <1>7
<1>10. ASSUME ~ Answerable(q), B # {} PROVE p.bridge = NoTable /\ p.blocked # {}
  <2>1. failing # {} /\ failing \in SUBSET Table
    BY <1>7, <1>10
  <2>2. Worst(G, D, failing) \in failing
    <3> HIDE DEF failing, G
    <3> QED BY <1>1, <2>1, WorstIn
  <2>3. D \ reachable(G, Worst(G, D, failing)) # {}
    BY <2>2
  <2>4. p = [NoPlan EXCEPT !.base = Worst(G, D, failing),
                           !.blocked = D \ reachable(G, Worst(G, D, failing)),
                           !.alternatives = Alternatives(detail, G, D)]
    BY <1>8, <1>10 DEF BlockedPlan
  <2> HIDE DEF G, D, failing, p
  <2> QED BY <2>3, <2>4 DEF NoPlan
<1>11. ASSUME ~ Answerable(q), B = {}
       PROVE  IF Repairs(q) = {} THEN p.bridge = NoTable /\ p.blocked # {}
              ELSE p.bridge \in Repairs(q) /\ p.blocked = {}
  <2>1. TablesOf(detail.metrics) \subseteq Table
    BY DEF TablesOf, Described
  <2>2. Candidates(detail, G, D) = Repairs(q)
    BY <1>2, <2>1 DEF Candidates, Repairs
  <2>3. Repairs(q) \in SUBSET Table
    BY <2>1 DEF Repairs
  <2>4. \A t \in Repairs(q) : D \subseteq reachable(G, t)
    BY <2>2 DEF Candidates
  <2>5. p = IF Repairs(q) = {} THEN [NoPlan EXCEPT !.blocked = D]
            ELSE [NoPlan EXCEPT !.bridge = Closest(G, D, Repairs(q))]
    BY <1>8, <1>11, <2>2 DEF BridgePlan
  <2>6. Repairs(q) # {} => Closest(G, D, Repairs(q)) \in Repairs(q)
    <3> HIDE DEF G, D
    <3> QED BY <1>1, <2>3, <2>4, ClosestIn
  <2> HIDE DEF G, D, p
  <2> QED BY <1>9, <1>11, <2>5, <2>6 DEF NoPlan
<1> HIDE DEF G, D, B, p, failing
<1> QED BY <1>3, <1>8, <1>9, <1>10, <1>11, <1>12 DEF p, D, B

LEMMA JoinedCases ==
  ASSUME NEW d, NEW q, NEW n, NEW join, NEW r, r = Joined(d, q, n, join)
  PROVE  \/ r.refused \notin {"", "blocked"}
         \/ /\ ~ Unresolved(d, q) /\ join.plan.blocked # {}
            /\ r = [refused |-> "blocked", plan |-> join.plan]
         \/ /\ ~ Unresolved(d, q)
            /\ q.mets = {} \/ q.facts = {}
            /\ q.dims \cup q.mets \cup q.facts # {}
            /\ ~ (q.facts # {} /\ q.dims # {} /\ Cardinality(TablesOf(q.facts \cup q.dims)) > 1)
            /\ join.plan.blocked = {}
            /\ ~ BadFilter(d, q)
            /\ q.order = NoField \/ Cardinality(OrderHits(q)) = 1
            /\ r = Selecting(q, {join.bridge} \ {NoField}, Where(q), n)
  BY DEF Joined, Refused

Resolved(d, q) == ~ Unresolved(d, q)

LEMMA ResolvedIs ==
  ASSUME NEW d, Described(d), NEW q, Resolved(d, q)
  PROVE  /\ q.dims \subseteq Table \X Name /\ q.mets \subseteq Table \X Name
         /\ q.facts \subseteq Table \X Name
         /\ q.mets \subseteq d.metrics
         /\ TablesOf(q.dims) \subseteq Table /\ TablesOf(q.mets) \subseteq Table
         /\ TablesOf(q.facts \cup q.dims) \subseteq Table
  BY DEF Resolved, Unresolved, Described, TablesOf

FreeOf(q) ==
  Unshadowed(detail, q, plan_join(detail, TablesOf(q.dims), TablesOf(q.mets)).bridge)

(* The repaired plan, in the three cases there are.                          *)
LEMMA RepairIs ==
  ASSUME Described(detail), NEW q, Resolved(detail, q)
  PROVE  LET join == _plan_and_repair_join(detail, q)
             through == bridged_through(detail, q) IN
         IF Answerable(q) THEN join = [bridge |-> NoField, plan |-> NoPlan] /\ through = NoTable
         ELSE IF q.mets = {} /\ Repairs(q) # {}
         THEN /\ through \in Repairs(q)
              /\ FreeOf(q) = Unshadowed(detail, q, through)
              /\ IF FreeOf(q) = {} THEN join.plan.blocked # {}
                 ELSE join.bridge \in FreeOf(q) /\ join.plan.blocked = {}
         ELSE /\ join.plan.blocked # {}
              /\ join = [bridge |-> NoField, plan |-> plan_join(detail, TablesOf(q.dims), TablesOf(q.mets))]
<1> DEFINE D == TablesOf(q.dims)
           B == TablesOf(q.mets)
           p == plan_join(detail, D, B)
           through == bridged_through(detail, q)
           free == Unshadowed(detail, q, through)
           join == _plan_and_repair_join(detail, q)
<1>1. D \subseteq Table /\ B \subseteq Table
  BY ResolvedIs
<1>2. through = p.bridge
  BY DEF bridged_through
<1>3. join = Repaired(p, Unshadowed(detail, q, p.bridge), q.dims)
  BY DEF _plan_and_repair_join, Bridged
<1>4. /\ Answerable(q) => p = NoPlan
      /\ ~ Answerable(q) => D # {}
      /\ ~ Answerable(q) /\ q.mets # {} => p.bridge = NoTable /\ p.blocked # {}
      /\ ~ Answerable(q) /\ q.mets = {} =>
           IF Repairs(q) = {} THEN p.bridge = NoTable /\ p.blocked # {}
           ELSE p.bridge \in Repairs(q) /\ p.blocked = {}
  BY <1>1, PlanIs
<1>5. p.bridge = NoTable => join = [bridge |-> NoField, plan |-> p]
  BY <1>3 DEF Repaired
<1>6. NoPlan.bridge = NoTable
  BY DEF NoPlan
<1>7. Repairs(q) \subseteq Table /\ NoTable \notin Table
  BY JoinsAssumption DEF Repairs, TablesOf, Described, NoTable
<1>8. ASSUME ~ Answerable(q), q.mets = {}, Repairs(q) # {}
      PROVE  IF free = {} THEN join.plan.blocked # {}
             ELSE join.bridge \in free /\ join.plan.blocked = {}
  <2>1. p.bridge # NoTable
    BY <1>4, <1>7, <1>8
  <2>2. CASE free = {}
    <3>1. join = [bridge |-> NoField, plan |-> [NoPlan EXCEPT !.blocked = TablesOf(q.dims)]]
      BY <1>2, <1>3, <2>1, <2>2 DEF Repaired
    <3> HIDE DEF join, p, free
    <3> QED BY <1>4, <1>8, <2>2, <3>1 DEF NoPlan
  <2>3. CASE free # {}
    <3>1. join.bridge = (CHOOSE m \in free : \A n \in free : m[2] <= n[2]) /\ join.plan = p
      BY <1>2, <1>3, <2>1, <2>3 DEF Repaired
    <3>2. free \subseteq Table \X Name
      BY DEF Unshadowed, Described
    <3> DEFINE N == {m[2] : m \in free}
    <3>3. N \in SUBSET Nat /\ N # {}
      BY <2>3, <3>2, JoinsAssumption
    <3>4. PICK n \in N : \A k \in N : n <= k
      <4> HIDE DEF N
      <4> QED BY <3>3, LeastNat
    <3>5. \E m \in free : \A k \in free : m[2] <= k[2]
      BY <3>4
    <3>6. p.blocked = {}
      BY <1>4, <1>8
    <3> HIDE DEF free, join, p
    <3> QED BY <2>3, <3>1, <3>5, <3>6
  <2> QED BY <2>2, <2>3
<1> HIDE DEF D, B, p, through, free, join
<1> QED BY <1>2, <1>4, <1>5, <1>6, <1>8 DEF FreeOf, D, B, p, through, free, join

(* What a compiled and what a blocked statement say of their request.        *)
LEMMA BuiltIs ==
  ASSUME NEW d, NEW q, NEW n, NEW r, r = build_semantic_sql(d, q, n)
  PROVE  LET join == _plan_and_repair_join(d, q) IN
         /\ r.refused = "" =>
              /\ Resolved(d, q)
              /\ q.mets = {} \/ q.facts = {}
              /\ ~ (q.facts # {} /\ q.dims # {} /\ Cardinality(TablesOf(q.facts \cup q.dims)) > 1)
              /\ join.plan.blocked = {}
              /\ ~ BadFilter(d, q)
              /\ q.order = NoField \/ Cardinality(OrderHits(q)) = 1
              /\ r = Selecting(q, {join.bridge} \ {NoField}, Where(q), n)
         /\ r.refused = "blocked" =>
              /\ Resolved(d, q) /\ join.plan.blocked # {} /\ r.plan = join.plan
<1> DEFINE join == _plan_and_repair_join(d, q)
<1>1. r = Joined(d, q, n, join)
  BY DEF build_semantic_sql
<1> HIDE DEF join
<1>2. \/ r.refused \notin {"", "blocked"}
      \/ /\ ~ Unresolved(d, q) /\ join.plan.blocked # {}
         /\ r = [refused |-> "blocked", plan |-> join.plan]
      \/ /\ ~ Unresolved(d, q)
         /\ q.mets = {} \/ q.facts = {}
         /\ q.dims \cup q.mets \cup q.facts # {}
         /\ ~ (q.facts # {} /\ q.dims # {} /\ Cardinality(TablesOf(q.facts \cup q.dims)) > 1)
         /\ join.plan.blocked = {}
         /\ ~ BadFilter(d, q)
         /\ q.order = NoField \/ Cardinality(OrderHits(q)) = 1
         /\ r = Selecting(q, {join.bridge} \ {NoField}, Where(q), n)
  BY ZenonT(60), <1>1, JoinedCases
<1>3. \A B, W : Selecting(q, B, W, n).refused = ""
  BY DEF Selecting
<1>6. ASSUME r = [refused |-> "blocked", plan |-> join.plan]
      PROVE  r.refused = "blocked" /\ r.plan = join.plan
  BY <1>6
<1>4. ASSUME r.refused = ""
      PROVE  /\ ~ Unresolved(d, q)
             /\ q.mets = {} \/ q.facts = {}
             /\ ~ (q.facts # {} /\ q.dims # {} /\ Cardinality(TablesOf(q.facts \cup q.dims)) > 1)
             /\ join.plan.blocked = {}
             /\ ~ BadFilter(d, q)
             /\ q.order = NoField \/ Cardinality(OrderHits(q)) = 1
             /\ r = Selecting(q, {join.bridge} \ {NoField}, Where(q), n)
  <2>1. r.refused # "blocked"
    BY <1>4
  <2>2. r.refused \in {"", "blocked"}
    BY <1>4
  <2> QED BY <1>2, <1>6, <2>1, <2>2, Zenon
<1>5. ASSUME r.refused = "blocked"
      PROVE  ~ Unresolved(d, q) /\ join.plan.blocked # {} /\ r.plan = join.plan
  <2>1. /\ ~ Unresolved(d, q) /\ join.plan.blocked # {}
        /\ r = [refused |-> "blocked", plan |-> join.plan]
    BY <1>2, <1>3, <1>5
  <2> QED BY <2>1
<1> QED BY <1>4, <1>5 DEF join, Resolved

-----------------------------------------------------------------------------
(* JoinVerdictRight, AdviceWorks and AskedIsShown, of any statement.         *)

IsSql == out = [kind |-> "sql", q |-> out.q, sql |-> build_semantic_sql(detail, out.q, RowCap),
                through |-> bridged_through(detail, out.q)]

Stated(q, sql) == sql = build_semantic_sql(detail, q, RowCap) /\ sql.refused = ""

LEMMA StatementIs ==
  ASSUME Described(detail), NEW q, NEW sql, Stated(q, sql)
  PROVE  LET through == bridged_through(detail, q) IN
         /\ Resolved(detail, q)
         /\ q.mets = {} \/ q.facts = {}
         /\ ~ (q.facts # {} /\ q.dims # {} /\ Cardinality(TablesOf(q.facts \cup q.dims)) > 1)
         /\ ~ BadFilter(detail, q)
         /\ q.order = NoField \/ Cardinality(OrderHits(q)) = 1
         /\ \E bridge :
              /\ sql = Selecting(q, {bridge} \ {NoField}, Where(q), RowCap)
              /\ IF Answerable(q) THEN bridge = NoField /\ through = NoTable
                 ELSE /\ q.mets = {} /\ through \in Repairs(q)
                      /\ bridge # NoField
                      /\ bridge \in Unshadowed(detail, q, through)
<1> DEFINE join == _plan_and_repair_join(detail, q)
           through == bridged_through(detail, q)
<1>1. sql = build_semantic_sql(detail, q, RowCap) /\ sql.refused = ""
  BY DEF Stated
<1>2. /\ Resolved(detail, q)
      /\ q.mets = {} \/ q.facts = {}
      /\ ~ (q.facts # {} /\ q.dims # {} /\ Cardinality(TablesOf(q.facts \cup q.dims)) > 1)
      /\ join.plan.blocked = {}
      /\ ~ BadFilter(detail, q)
      /\ q.order = NoField \/ Cardinality(OrderHits(q)) = 1
      /\ sql = Selecting(q, {join.bridge} \ {NoField}, Where(q), RowCap)
  BY ZenonT(60), <1>1, BuiltIs
<1>3. IF Answerable(q) THEN join.bridge = NoField /\ through = NoTable
      ELSE /\ q.mets = {} /\ through \in Repairs(q)
           /\ join.bridge \in Unshadowed(detail, q, through)
  <2>1. IF Answerable(q) THEN join = [bridge |-> NoField, plan |-> NoPlan] /\ through = NoTable
        ELSE IF q.mets = {} /\ Repairs(q) # {}
        THEN /\ through \in Repairs(q)
             /\ FreeOf(q) = Unshadowed(detail, q, through)
             /\ IF FreeOf(q) = {} THEN join.plan.blocked # {}
                ELSE join.bridge \in FreeOf(q)
        ELSE join.plan.blocked # {}
    BY <1>2, RepairIs
  <2> HIDE DEF join, through
  <2> QED BY <1>2, <2>1
<1>4. \A m \in detail.metrics : m # NoField
  BY JoinsAssumption DEF Described, NoField
<1>5. ~ Answerable(q) => join.bridge # NoField
  BY <1>3, <1>4 DEF Unshadowed
<1> HIDE DEF join
<1> QED BY <1>2, <1>3, <1>5

LEMMA CompiledIs ==
  ASSUME IsSql, Compiled
  PROVE  Stated(out.q, out.sql) /\ out.through = bridged_through(detail, out.q)
<1>1. out.sql = build_semantic_sql(detail, out.q, RowCap) /\ out.through = bridged_through(detail, out.q)
  BY DEF IsSql
<1> QED BY <1>1 DEF Compiled, Stated

LEMMA BlockedIs ==
  ASSUME Described(detail), IsSql, Blocked
  PROVE  LET q == out.q
             p == plan_join(detail, TablesOf(q.dims), TablesOf(q.mets)) IN
         /\ Resolved(detail, q) /\ ~ Answerable(q)
         /\ q.mets # {} \/ Repairs(q) = {} \/
              \E t \in Repairs(q) : Unshadowed(detail, q, t) = {}
         /\ q.mets # {} => out.sql.plan = p
<1> DEFINE q == out.q
           join == _plan_and_repair_join(detail, q)
           p == plan_join(detail, TablesOf(q.dims), TablesOf(q.mets))
           through == bridged_through(detail, q)
<1>1. /\ out.sql = build_semantic_sql(detail, q, RowCap) /\ out.sql.refused = "blocked"
  BY DEF IsSql, Blocked
<1>2. Resolved(detail, q) /\ join.plan.blocked # {} /\ out.sql.plan = join.plan
  BY ZenonT(60), <1>1, BuiltIs
<1>3. IF Answerable(q) THEN join = [bridge |-> NoField, plan |-> NoPlan] /\ through = NoTable
      ELSE IF q.mets = {} /\ Repairs(q) # {}
      THEN /\ through \in Repairs(q)
           /\ FreeOf(q) = Unshadowed(detail, q, through)
           /\ IF FreeOf(q) = {} THEN join.plan.blocked # {}
              ELSE join.bridge \in FreeOf(q) /\ join.plan.blocked = {}
      ELSE join.plan.blocked # {} /\ join = [bridge |-> NoField, plan |-> p]
  BY <1>2, RepairIs
<1>4. ~ Answerable(q)
  <2> SUFFICES ASSUME Answerable(q) PROVE FALSE
    OBVIOUS
  <2>1. join.plan = NoPlan
    BY <1>3
  <2> HIDE DEF join
  <2> QED BY <1>2, <2>1 DEF NoPlan
<1>5. q.mets # {} => join.plan = p
  <2> HIDE DEF p, q
  <2> QED BY <1>3, <1>4
<1>6. ASSUME q.mets = {}, Repairs(q) # {}
      PROVE \E t \in Repairs(q) : Unshadowed(detail, q, t) = {}
  <2>1. CASE FreeOf(q) = {}
    BY <1>3, <1>4, <1>6, <2>1
  <2>2. CASE FreeOf(q) # {}
    <3>1. join.plan.blocked = {}
      BY <1>3, <1>4, <1>6, <2>2
    <3> QED BY <1>2, <3>1
  <2> QED BY <2>1, <2>2
<1> HIDE DEF join, p
<1> QED BY <1>2, <1>4, <1>5, <1>6 DEF p, q

LEMMA SelectingIs ==
  ASSUME NEW q, NEW bridges, NEW where, NEW n
  PROVE  /\ Selecting(q, bridges, where, n).bridge =
              IF bridges = {} THEN NoField ELSE CHOOSE m \in bridges : TRUE
         /\ Selecting(q, bridges, where, n).selected = q.dims \cup q.facts \cup q.mets \cup bridges
         /\ Selecting(q, bridges, where, n).excluded = NamesOf(bridges)
         /\ Selecting(q, bridges, where, n).order = q.order[2]
  BY DEF Selecting

LEMMA AtMostOne ==
  ASSUME NEW bridge
  PROVE  LET bridges == {bridge} \ {NoField} IN
         (IF bridges = {} THEN NoField ELSE CHOOSE m \in bridges : TRUE) = bridge
<1>1. CASE bridge = NoField
  BY <1>1
<1>2. CASE bridge # NoField
  <2>1. {bridge} \ {NoField} = {bridge}
    BY <1>2
  <2> QED BY <2>1
<1> QED BY <1>1, <1>2

LEMMA VerdictHolds ==
  ASSUME Described(detail), IsSql
  PROVE  JoinVerdictRight
<1> DEFINE q == out.q
<1>1. ASSUME Compiled
      PROVE  IF Answerable(q) THEN out.sql.bridge = NoField /\ out.through = NoTable
             ELSE /\ q.mets = {} /\ out.sql.bridge \in detail.metrics
                  /\ out.sql.bridge[1] = out.through /\ out.through \in Repairs(q)
  <2>1. PICK bridge :
          /\ out.sql = Selecting(q, {bridge} \ {NoField}, Where(q), RowCap)
          /\ IF Answerable(q) THEN bridge = NoField /\ out.through = NoTable
             ELSE /\ q.mets = {} /\ out.through \in Repairs(q)
                  /\ bridge # NoField
                  /\ bridge \in Unshadowed(detail, q, out.through)
    <3> DEFINE sql == out.sql
               through == bridged_through(detail, q)
    <3>1. Stated(q, sql) /\ out.through = through
      BY <1>1, CompiledIs
    <3> HIDE DEF q, sql
    <3>2. \E bridge :
             /\ sql = Selecting(q, {bridge} \ {NoField}, Where(q), RowCap)
             /\ IF Answerable(q) THEN bridge = NoField /\ through = NoTable
                ELSE /\ q.mets = {} /\ through \in Repairs(q)
                     /\ bridge # NoField
                     /\ bridge \in Unshadowed(detail, q, through)
      BY <3>1, StatementIs
    <3> HIDE DEF through
    <3> QED BY <3>1, <3>2 DEF sql
  <2>3. out.sql.bridge = bridge
    <3> DEFINE bridges == {bridge} \ {NoField}
    <3>1. out.sql = Selecting(q, bridges, Where(q), RowCap)
      BY <2>1
    <3>2. (IF bridges = {} THEN NoField ELSE CHOOSE m \in bridges : TRUE) = bridge
      BY AtMostOne
    <3> HIDE DEF bridges, q
    <3> QED BY <3>1, <3>2, SelectingIs
  <2> HIDE DEF q
  <2> QED BY <2>1, <2>3 DEF Unshadowed
<1>2. ASSUME Blocked
      PROVE  /\ ~ Answerable(q)
             /\ q.mets # {} \/ \E t \in Repairs(q) \cup {NoTable} :
                  \A m \in detail.metrics : m[1] = t => m[2] \in NamesOf(q.dims)
  <2>1. /\ ~ Answerable(q)
        /\ q.mets # {} \/ Repairs(q) = {} \/
             \E t \in Repairs(q) : Unshadowed(detail, q, t) = {}
    BY <1>2, BlockedIs
  <2>2. \A m \in detail.metrics : m[1] # NoTable
    BY JoinsAssumption DEF Described, NoTable
  <2>3. ASSUME NEW t, Unshadowed(detail, q, t) = {}
        PROVE  \A m \in detail.metrics : m[1] = t => m[2] \in NamesOf(q.dims)
    BY <2>3 DEF Unshadowed
  <2> HIDE DEF q
  <2> QED BY <2>1, <2>2, <2>3
<1> QED BY <1>1, <1>2 DEF JoinVerdictRight

(* Metrics each of which reaches all the dimensions are not refused.         *)
LEMMA ServedNotBlocked ==
  ASSUME Described(detail), NEW q, q.mets # {},
         \A b \in TablesOf(q.mets) : TablesOf(q.dims) \subseteq reachable(build_join_graph(detail), b)
  PROVE  build_semantic_sql(detail, q, RowCap).refused # "blocked"
<1> DEFINE join == _plan_and_repair_join(detail, q)
<1>1. TablesOf(q.mets) # {}
  BY DEF TablesOf
<1>2. plan_join(detail, TablesOf(q.dims), TablesOf(q.mets)) = NoPlan
  BY <1>1 DEF plan_join, PlanOver
<1>3. join = [bridge |-> NoField, plan |-> NoPlan]
  BY <1>2 DEF _plan_and_repair_join, Bridged, Repaired, NoPlan
<1>4. join.plan.blocked = {}
  BY <1>3 DEF NoPlan
<1> HIDE DEF join
<1>5. \A r : r = build_semantic_sql(detail, q, RowCap) /\ r.refused = "blocked" => join.plan.blocked # {}
  BY BuiltIs DEF join
<1> QED BY <1>4, <1>5

(* What is refused again: a dimension that one of the metrics does not       *)
(* reach, or dimensions of several entities.                                 *)
LEMMA AgainNeeds ==
  ASSUME Described(detail), NEW r, TablesOf(r.dims) \subseteq Table, TablesOf(r.mets) \subseteq Table,
         build_semantic_sql(detail, r, RowCap).refused = "blocked"
  PROVE  /\ r.mets # {} => \E t \in TablesOf(r.mets) : Hindered(t, r) # {}
         /\ r.mets = {} => Cardinality(TablesOf(r.dims)) > 1
<1> DEFINE G == build_join_graph(detail)
           D == TablesOf(r.dims)
           join == _plan_and_repair_join(detail, r)
<1>1. ASSUME r.mets # {}, \A t \in TablesOf(r.mets) : Hindered(t, r) = {}
      PROVE  FALSE
  <2>1. ASSUME NEW t \in TablesOf(r.mets), NEW f \in r.dims
        PROVE  f[1] \in reachable(G, t)
    <3>1. Reaches(t, {f[1]})
      BY <1>1 DEF Hindered
    <3>2. t \in Table /\ {f[1]} \in SUBSET Table
      BY DEF TablesOf
    <3>3. {f[1]} \subseteq reachable(G, t)
      BY <3>1, <3>2, ReachesIs
    <3> QED BY <3>3
  <2>2. \A t \in TablesOf(r.mets) : D \subseteq reachable(G, t)
    BY <2>1 DEF TablesOf
  <2> QED BY <1>1, <2>2, ServedNotBlocked
<1>2. ASSUME r.mets = {}
      PROVE  Cardinality(D) > 1
  <2>1. Resolved(detail, r) /\ join.plan.blocked # {}
    BY BuiltIs
  <2>2. ~ Answerable(r)
    <3>1. Answerable(r) => join = [bridge |-> NoField, plan |-> NoPlan]
      BY <2>1, RepairIs
    <3>2. join = [bridge |-> NoField, plan |-> NoPlan] => join.plan.blocked = {}
      BY DEF NoPlan
    <3> QED BY <2>1, <3>1, <3>2
  <2> QED BY <1>2, <2>2, PlanIs
<1> QED BY <1>1, <1>2

(* Without metrics no entity is to blame; with them, one of theirs.          *)
LEMMA BlamedIs ==
  ASSUME Described(detail), IsSql, Blocked
  PROVE  LET q == out.q
             p == out.sql.plan
             G == build_join_graph(detail)
             D == TablesOf(q.dims) IN
         /\ q.mets = {} => p.base = NoTable
         /\ q.mets # {} => /\ p.base \in TablesOf(q.mets) /\ p.base # NoTable
                           /\ p.blocked = D \ reachable(G, p.base)
                           /\ p.blocked # {}
                           /\ p.alternatives = Alternatives(detail, G, D)
<1> DEFINE q == out.q
           G == build_join_graph(detail)
           D == TablesOf(q.dims)
           B == TablesOf(q.mets)
           p == plan_join(detail, D, B)
           join == _plan_and_repair_join(detail, q)
           failing == {b \in B : ~ D \subseteq reachable(G, b)}
           w == Worst(G, D, failing)
<1>1. Resolved(detail, q) /\ ~ Answerable(q) /\ (q.mets # {} => out.sql.plan = p)
  BY BlockedIs
<1>2. D \subseteq Table /\ B \subseteq Table
  BY <1>1, ResolvedIs
<1>3. p = PlanOver(detail, G, D, B)
  BY DEF plan_join
<1>4. ASSUME q.mets = {}
      PROVE  out.sql.plan.base = NoTable
  <2>1. B = {}
    BY <1>4 DEF TablesOf
  <2>2. p.base = NoTable
    <3>1. p = NoPlan \/ p = BridgePlan(detail, G, D)
      BY <1>3, <2>1 DEF PlanOver
    <3>2. NoPlan.base = NoTable
      BY DEF NoPlan
    <3>3. BridgePlan(detail, G, D).base = NoTable
      BY DEF BridgePlan, NoPlan
    <3> HIDE DEF p
    <3> QED BY <3>1, <3>2, <3>3
  <2>3. join = Repaired(p, Unshadowed(detail, q, p.bridge), q.dims)
    BY DEF _plan_and_repair_join, Bridged
  <2>4. join.plan \in {p, [NoPlan EXCEPT !.blocked = TablesOf(q.dims)]}
    <3> HIDE DEF p, q, join
    <3> QED BY <2>3 DEF Repaired
  <2>5. [NoPlan EXCEPT !.blocked = TablesOf(q.dims)].base = NoTable
    BY DEF NoPlan
  <2>6. join.plan.base = NoTable
    <3> HIDE DEF join, p
    <3> QED BY <2>2, <2>4, <2>5
  <2>7. out.sql = build_semantic_sql(detail, q, RowCap) /\ out.sql.refused = "blocked"
    BY DEF IsSql, Blocked
  <2>8. out.sql.plan = join.plan
    <3> DEFINE sql == out.sql
    <3>1. sql = build_semantic_sql(detail, q, RowCap) /\ sql.refused = "blocked"
      BY <2>7
    <3> HIDE DEF sql, q, p, w, failing, G, D, B
    <3>2. sql.plan = _plan_and_repair_join(detail, q).plan
      BY <3>1, BuiltIs
    <3> QED BY <3>2 DEF sql, join
  <2> QED BY <2>6, <2>8
<1>5. ASSUME q.mets # {}
      PROVE  /\ out.sql.plan.base = w /\ w \in failing
             /\ out.sql.plan.blocked = D \ reachable(G, w)
             /\ out.sql.plan.alternatives = Alternatives(detail, G, D)
  <2>1. B # {} /\ G # {}
    BY <1>1, <1>5 DEF TablesOf, Answerable
  <2>2. failing # {}
    <3> SUFFICES ASSUME \A b \in B : D \subseteq reachable(G, b) PROVE FALSE
      OBVIOUS
    <3>1. \A b \in B : Reaches(b, D)
      BY <1>2, ReachesIs
    <3> QED BY <1>1, <1>5, <3>1 DEF Answerable
  <2>3. failing \in SUBSET Table /\ D \in SUBSET Table /\ GraphOK(G)
    BY <1>2 DEF Described
  <2>4. w \in failing
    <3> HIDE DEF failing, G, D
    <3> QED BY <2>2, <2>3, WorstIn
  <2>5. p = BlockedPlan(detail, G, D, failing)
    <3>1. ~ \A b \in B : D \subseteq reachable(G, b)
      BY <2>2
    <3>2. p = PlanOver(detail, G, D, B)
      BY <1>3
    <3> HIDE DEF p, G, D, B
    <3> QED BY <2>1, <3>1, <3>2 DEF PlanOver
  <2>6. p = [NoPlan EXCEPT !.base = w, !.blocked = D \ reachable(G, w),
                           !.alternatives = Alternatives(detail, G, D)]
    BY <2>5 DEF BlockedPlan
  <2>7. out.sql.plan = p
    BY <1>1, <1>5
  <2> HIDE DEF G, D, p, w, failing
  <2> QED BY <2>4, <2>6, <2>7 DEF NoPlan
<1>6. NoTable \notin Table
  BY JoinsAssumption DEF NoTable
<1>7. ASSUME q.mets # {} PROVE D \ reachable(G, w) # {}
  BY <1>5, <1>7
<1>8. w \in failing => w \in B /\ w \in Table
  BY <1>2
<1> HIDE DEF w, failing, B, D, G, q
<1> QED BY <1>4, <1>5, <1>6, <1>7, <1>8 DEF B, D, G, q

(* What advice leaves of a request.                                          *)
Advised(d, q, p, r) ==
  \/ \E f \in blocked_fields(q, p) : r.mets = q.mets /\ r.dims = q.dims \ {f}
  \/ /\ p.base = NoTable /\ r.mets = q.mets
     /\ \E t : r.dims = {f \in q.dims : f[1] = t}
  \/ /\ p.base # NoTable /\ r.dims = q.dims
     /\ \E m \in p.alternatives : r.mets = (q.mets \ base_metrics(q, p)) \cup {m}
  \/ /\ p.base # NoTable /\ r.mets = q.mets
     /\ \E f \in blocked_fields(q, p), g \in d.dimensions :
          g[1] = p.base /\ r.dims = (q.dims \ {f}) \cup {g}

LEMMA AdvisedIs ==
  ASSUME NEW d, NEW q \in SemanticQueryRequest, NEW p, NEW r \in advice(d, q, p)
  PROVE  Advised(d, q, p, r)
<1>1. ASSUME NEW f PROVE Dropping(q, f).mets = q.mets /\ Dropping(q, f).dims = q.dims \ {f}
  BY DEF Dropping, SemanticQueryRequest
<1>2. ASSUME NEW t
      PROVE OfOneTable(q, t).mets = q.mets /\ OfOneTable(q, t).dims = {f \in q.dims : f[1] = t}
  BY DEF OfOneTable, SemanticQueryRequest
<1>3. ASSUME NEW m
      PROVE /\ Measured(q, p, m).mets = (q.mets \ base_metrics(q, p)) \cup {m}
            /\ Measured(q, p, m).dims = q.dims
  BY DEF Measured, SemanticQueryRequest
<1>4. ASSUME NEW f, NEW g
      PROVE GroupedBy(q, f, g).mets = q.mets /\ GroupedBy(q, f, g).dims = (q.dims \ {f}) \cup {g}
  BY DEF GroupedBy, SemanticQueryRequest
<1>5. \/ \E f \in blocked_fields(q, p) : r = Dropping(q, f)
      \/ p.base = NoTable /\ \E t \in p.blocked : r = OfOneTable(q, t)
      \/ p.base # NoTable /\ \E m \in p.alternatives : r = Measured(q, p, m)
      \/ p.base # NoTable /\ \E f \in blocked_fields(q, p), g \in d.dimensions :
           g[1] = p.base /\ r = GroupedBy(q, f, g)
  BY DEF advice
<1>6. CASE \E f \in blocked_fields(q, p) : r = Dropping(q, f)
  <2>1. \E f \in blocked_fields(q, p) : r.mets = q.mets /\ r.dims = q.dims \ {f}
    BY <1>1, <1>6
  <2> QED BY <2>1 DEF Advised
<1>7. CASE p.base = NoTable /\ \E t \in p.blocked : r = OfOneTable(q, t)
  <2>1. /\ p.base = NoTable /\ r.mets = q.mets
        /\ \E t : r.dims = {f \in q.dims : f[1] = t}
    BY <1>2, <1>7
  <2> QED BY <2>1, Zenon DEF Advised
<1>8. CASE p.base # NoTable /\ \E m \in p.alternatives : r = Measured(q, p, m)
  <2>1. /\ p.base # NoTable /\ r.dims = q.dims
        /\ \E m \in p.alternatives : r.mets = (q.mets \ base_metrics(q, p)) \cup {m}
    BY <1>3, <1>8
  <2> QED BY <2>1, Zenon DEF Advised
<1>9. CASE p.base # NoTable /\ \E f \in blocked_fields(q, p), g \in d.dimensions :
             g[1] = p.base /\ r = GroupedBy(q, f, g)
  <2>1. /\ r.mets = q.mets
        /\ \E f \in blocked_fields(q, p), g \in d.dimensions :
             g[1] = p.base /\ r.dims = (q.dims \ {f}) \cup {g}
    BY <1>4, <1>9
  <2> QED BY <1>9, <2>1 DEF Advised
<1> QED BY <1>5, <1>6, <1>7, <1>8, <1>9

(* Fewer of the same fields hinder no metric more.                           *)
LEMMA FewerHinder ==
  ASSUME NEW q, NEW r, NEW t, r.dims \subseteq q.dims, t \in TablesOf(q.mets)
  PROVE  Hindered(t, r) \subseteq Hindered(t, q)
BY DEF Hindered

LEMMA AdviceHolds ==
  ASSUME Described(detail), IsSql, out.q \in SemanticQueryRequest
  PROVE  AdviceWorks
<1> DEFINE q == out.q
           p == out.sql.plan
           b == p.base
           G == build_join_graph(detail)
           D == TablesOf(q.dims)
           again(r) == build_semantic_sql(detail, r, RowCap).refused = "blocked"
           more(r) == r.dims \subseteq q.dims =>
                        \A t \in TablesOf(r.mets) : Hindered(t, r) \subseteq Hindered(t, q)
<1> SUFFICES ASSUME Blocked, NEW r \in advice(detail, q, p)
             PROVE  IF q.mets = {}
                    THEN again(r) => Cardinality(TablesOf(r.dims)) > 1
                    ELSE /\ Hindered(b, r) \subseteq Hindered(b, q)
                         /\ Hindered(b, r) # Hindered(b, q)
                         /\ more(r)
                         /\ again(r) => \E t \in TablesOf(r.mets) : Hindered(t, r) # {}
  BY Zenon DEF AdviceWorks
<1>1. Resolved(detail, q)
  BY BlockedIs
<1>2. /\ q.dims \subseteq Table \X Name /\ q.mets \subseteq Table \X Name
      /\ D \subseteq Table /\ TablesOf(q.mets) \subseteq Table
  BY <1>1, ResolvedIs
<1>3. \/ \E f \in blocked_fields(q, p) : r.mets = q.mets /\ r.dims = q.dims \ {f}
      \/ /\ b = NoTable /\ r.mets = q.mets
         /\ \E t : r.dims = {f \in q.dims : f[1] = t}
      \/ /\ b # NoTable /\ r.dims = q.dims
         /\ \E m \in p.alternatives : r.mets = (q.mets \ base_metrics(q, p)) \cup {m}
      \/ /\ b # NoTable /\ r.mets = q.mets
         /\ \E f \in blocked_fields(q, p), g \in detail.dimensions :
              g[1] = b /\ r.dims = (q.dims \ {f}) \cup {g}
  <2>1. q \in SemanticQueryRequest /\ r \in advice(detail, q, p)
    OBVIOUS
  <2>2. Advised(detail, q, p, r)
    <3> HIDE DEF p, q
    <3> QED BY <2>1, AdvisedIs
  <2> QED BY <2>2, Zenon DEF Advised
<1>4. /\ q.mets = {} => b = NoTable
      /\ q.mets # {} => /\ b \in TablesOf(q.mets) /\ b # NoTable
                        /\ p.blocked = D \ reachable(G, b)
                        /\ p.blocked # {}
                        /\ p.alternatives = Alternatives(detail, G, D)
  BY BlamedIs
<1>5. CASE q.mets = {}
  <2>1. r.mets = {} /\ r.dims \subseteq q.dims
    BY <1>3, <1>4, <1>5
  <2>2. TablesOf(r.dims) \subseteq Table /\ TablesOf(r.mets) \subseteq Table
    BY <1>2, <2>1 DEF TablesOf
  <2>3. again(r) => Cardinality(TablesOf(r.dims)) > 1
    BY <2>1, <2>2, AgainNeeds
  <2> QED BY <1>5, <2>3
<1>6. CASE q.mets # {}
  <2>1. /\ b \in TablesOf(q.mets) /\ b \in Table /\ b # NoTable
        /\ p.blocked = D \ reachable(G, b) /\ p.blocked # {}
        /\ p.alternatives = Alternatives(detail, G, D)
    BY <1>2, <1>4, <1>6
  <2>2. ASSUME NEW t \in Table
        PROVE  Reaches(b, {t}) <=> t \in reachable(G, b)
    <3>1. Reaches(b, {t}) <=> {t} \subseteq reachable(G, b)
      BY <2>1, ReachesIs
    <3> QED BY <3>1
  <2>3. blocked_fields(q, p) = Hindered(b, q) /\ Hindered(b, q) # {}
    <3>1. ASSUME NEW f \in q.dims PROVE f[1] \in Table /\ (f[1] \in p.blocked <=> ~ Reaches(b, {f[1]}))
      BY <1>2, <2>1, <2>2 DEF TablesOf
    <3>2. \E f \in q.dims : f[1] \in p.blocked
      BY <2>1 DEF TablesOf
    <3> HIDE DEF b, q, p
    <3> QED BY <2>1, <3>1, <3>2 DEF blocked_fields, Hindered
  <2>4. CASE \E f \in blocked_fields(q, p) : r.mets = q.mets /\ r.dims = q.dims \ {f}
    <3>1. PICK f \in blocked_fields(q, p) : r.mets = q.mets /\ r.dims = q.dims \ {f}
      BY <2>4
    <3>2. f \in Hindered(b, q) /\ f \notin Hindered(b, r)
      BY <2>3, <3>1 DEF Hindered
    <3>3. r.dims \subseteq q.dims
      BY <3>1
    <3>4. more(r) /\ Hindered(b, r) \subseteq Hindered(b, q)
      <4> HIDE DEF q, b
      <4> QED BY <2>1, <3>1, <3>3, FewerHinder
    <3>5. TablesOf(r.dims) \subseteq Table /\ TablesOf(r.mets) \subseteq Table /\ r.mets # {}
      BY <1>2, <1>6, <3>1, <3>3 DEF TablesOf
    <3>6. again(r) => \E t \in TablesOf(r.mets) : Hindered(t, r) # {}
      BY <3>5, AgainNeeds
    <3> HIDE DEF more, again
    <3> QED BY <1>6, <3>2, <3>4, <3>6
  <2>5. CASE /\ r.dims = q.dims
             /\ \E m \in p.alternatives : r.mets = (q.mets \ base_metrics(q, p)) \cup {m}
    <3>1. PICK m \in p.alternatives : r.mets = (q.mets \ base_metrics(q, p)) \cup {m}
      BY <2>5
    <3>2. m \in detail.metrics /\ D \subseteq reachable(G, m[1])
      BY <2>1 DEF Alternatives
    <3>3. m[1] \in Table
      BY <3>2 DEF Described
    <3>4. m[1] # b
      BY <2>1, <3>2
    <3>5. b \notin TablesOf(r.mets)
      BY <3>1, <3>4 DEF TablesOf, base_metrics
    <3>6. Hindered(b, r) = {}
      BY <3>5 DEF Hindered
    <3>7. Hindered(m[1], r) = {}
      <4>1. ASSUME NEW f \in r.dims PROVE Reaches(m[1], {f[1]})
        <5>1. {f[1]} \in SUBSET Table /\ {f[1]} \subseteq reachable(G, m[1])
          BY <1>2, <2>5, <3>2 DEF TablesOf
        <5> QED BY <3>3, <5>1, ReachesIs
      <4> QED BY <4>1 DEF Hindered
    <3>8. ASSUME NEW t \in TablesOf(r.mets) PROVE Hindered(t, r) \subseteq Hindered(t, q)
      <4>1. t = m[1] \/ t \in TablesOf(q.mets)
        BY <3>1 DEF TablesOf
      <4>2. CASE t = m[1]
        BY <3>7, <4>2
      <4>3. CASE t \in TablesOf(q.mets)
        <5> HIDE DEF q
        <5> QED BY <2>5, <4>3, FewerHinder
      <4> QED BY <4>1, <4>2, <4>3
    <3>9. TablesOf(r.dims) \subseteq Table /\ TablesOf(r.mets) \subseteq Table /\ r.mets # {}
      BY <1>2, <2>5, <3>1, <3>3 DEF TablesOf
    <3>10. again(r) => \E t \in TablesOf(r.mets) : Hindered(t, r) # {}
      BY <3>9, AgainNeeds
    <3> HIDE DEF again
    <3> QED BY <1>6, <2>3, <3>6, <3>8, <3>10
  <2>6. CASE /\ r.mets = q.mets
             /\ \E f \in blocked_fields(q, p), g \in detail.dimensions :
                  g[1] = b /\ r.dims = (q.dims \ {f}) \cup {g}
    <3>1. PICK f \in blocked_fields(q, p), g \in detail.dimensions :
            g[1] = b /\ r.dims = (q.dims \ {f}) \cup {g}
      BY <2>6
    <3>2. Reaches(b, {g[1]})
      <4>1. b \in reachable(G, b)
        BY <2>1, ReachableIs DEF Described
      <4> QED BY <2>1, <2>2, <3>1, <4>1
    <3>3. Hindered(b, r) \subseteq Hindered(b, q)
      BY <2>6, <3>1, <3>2 DEF Hindered
    <3>4. f \in Hindered(b, q) /\ f \notin Hindered(b, r)
      BY <2>3, <3>1, <3>2 DEF Hindered
    <3>5. more(r)
      <4> HIDE DEF q
      <4> QED BY <2>6, FewerHinder
    <3>6. TablesOf(r.dims) \subseteq Table /\ TablesOf(r.mets) \subseteq Table /\ r.mets # {}
      BY <1>2, <1>6, <2>1, <2>6, <3>1 DEF TablesOf
    <3>7. again(r) => \E t \in TablesOf(r.mets) : Hindered(t, r) # {}
      BY <3>6, AgainNeeds
    <3> HIDE DEF more, again
    <3> QED BY <1>6, <3>3, <3>4, <3>5, <3>7
  <2> HIDE DEF p, q, b, again, more
  <2> QED BY <1>3, <2>1, <2>4, <2>5, <2>6
<1> QED BY <1>5, <1>6

(* What comes back is what was asked for, by the route or by another.        *)
LEMMA ColumnsAre ==
  ASSUME Described(detail), NEW q, NEW sql, Stated(q, sql)
  PROVE  /\ Columns(sql) = q.dims \cup q.mets \cup q.facts
         /\ sql.order = q.order[2]
<1> DEFINE asked == q.dims \cup q.mets \cup q.facts
           through == bridged_through(detail, q)
<1>1. /\ Resolved(detail, q)
      /\ ~ (q.facts # {} /\ q.dims # {} /\ Cardinality(TablesOf(q.facts \cup q.dims)) > 1)
  BY StatementIs
<1>2. PICK bridge :
        /\ sql = Selecting(q, {bridge} \ {NoField}, Where(q), RowCap)
        /\ IF Answerable(q) THEN bridge = NoField
           ELSE /\ q.mets = {}
                /\ bridge # NoField
                /\ bridge \in Unshadowed(detail, q, through)
  BY StatementIs
<1> DEFINE bridges == {bridge} \ {NoField}
<1>3. /\ sql.selected = q.dims \cup q.facts \cup q.mets \cup bridges
      /\ sql.excluded = NamesOf(bridges)
      /\ sql.order = q.order[2]
  <2> DEFINE r == Selecting(q, bridges, Where(q), RowCap)
  <2>1. /\ r.selected = q.dims \cup q.facts \cup q.mets \cup bridges
        /\ r.excluded = NamesOf(bridges)
        /\ r.order = q.order[2]
    <3> HIDE DEF bridges
    <3> QED BY SelectingIs
  <2>2. sql = r
    BY <1>2
  <2> HIDE DEF r, bridges
  <2> QED BY <2>1, <2>2
<1>4. /\ q.dims \subseteq Table \X Name /\ q.mets \subseteq Table \X Name
      /\ q.facts \subseteq Table \X Name
      /\ TablesOf(q.facts \cup q.dims) \subseteq Table
      /\ TablesOf(q.dims) \subseteq Table /\ TablesOf(q.mets) \subseteq Table
  BY <1>1, ResolvedIs
<1>5. Columns(sql) = asked
  <2>1. CASE Answerable(q)
    <3>1. bridges = {}
      BY <1>2, <2>1
    <3>2. NamesOf(bridges) = {}
      BY <3>1 DEF NamesOf
    <3> HIDE DEF bridges
    <3> QED BY <1>3, <3>1, <3>2 DEF Columns
  <2>2. CASE ~ Answerable(q)
    <3>1. q.mets = {} /\ bridges = {bridge} /\ bridge[2] \notin NamesOf(q.dims)
      BY <1>2, <2>2 DEF Unshadowed
    <3>2. q.facts = {}
      <4>1. Cardinality(TablesOf(q.dims)) > 1
        BY <1>4, <2>2, <3>1, PlanIs
      <4>2. TablesOf(q.dims) \subseteq TablesOf(q.facts \cup q.dims)
        BY DEF TablesOf
      <4>3. /\ IsFiniteSet(TablesOf(q.facts \cup q.dims))
            /\ Cardinality(TablesOf(q.dims)) <= Cardinality(TablesOf(q.facts \cup q.dims))
            /\ Cardinality(TablesOf(q.facts \cup q.dims)) \in Nat
            /\ Cardinality(TablesOf(q.dims)) \in Nat
        BY <1>4, <4>2, JoinsAssumption, FS_Subset, FS_CardinalityType
      <4>4. q.dims # {}
        BY <2>2 DEF Answerable, TablesOf
      <4> QED BY <1>1, <4>1, <4>3, <4>4
    <3>3. NamesOf(bridges) = {bridge[2]}
      BY <3>1 DEF NamesOf
    <3>4. Columns(sql) = {f \in q.dims \cup {bridge} : f[2] # bridge[2]}
      <4> HIDE DEF bridges
      <4> QED BY <1>3, <3>1, <3>2, <3>3 DEF Columns
    <3>5. \A f \in q.dims : f[2] # bridge[2]
      BY <3>1 DEF NamesOf
    <3> HIDE DEF bridges
    <3> QED BY <3>1, <3>2, <3>4, <3>5
  <2> QED BY <2>1, <2>2
<1> HIDE DEF asked, bridges
<1> QED BY <1>3, <1>5 DEF asked

LEMMA ShownHolds ==
  ASSUME Described(detail), IsSql, out.q \in SemanticQueryRequest
  PROVE  AskedIsShown
<1> DEFINE q == out.q
           asked == q.dims \cup q.mets \cup q.facts
<1> SUFFICES ASSUME Compiled
             PROVE  /\ Columns(out.sql) = asked
                    /\ q.order # NoField /\ q.order[1] = 0 =>
                         Cardinality({f \in Columns(out.sql) : f[2] = out.sql.order}) = 1
  BY DEF AskedIsShown
<1>1. /\ Resolved(detail, q)
      /\ q.order = NoField \/ Cardinality(OrderHits(q)) = 1
  BY CompiledIs, StatementIs
<1>3. out.sql.order = q.order[2]
  BY CompiledIs, ColumnsAre
<1>4. /\ q.dims \subseteq Table \X Name /\ q.mets \subseteq Table \X Name
      /\ q.facts \subseteq Table \X Name
  BY <1>1, ResolvedIs
<1>5. Columns(out.sql) = asked
  BY CompiledIs, ColumnsAre
<1>6. ASSUME q.order # NoField, q.order[1] = 0
      PROVE  Cardinality({f \in asked : f[2] = q.order[2]}) = 1
  <2>1. \A f \in asked : f[1] # 0 /\ f \in Table \X Name
    BY <1>4, JoinsAssumption
  <2>2. q.order \in Nat \X Nat
    BY DEF SemanticQueryRequest
  <2>3. ASSUME NEW f \in asked
        PROVE  q.order \in {f, <<0, f[2]>>} <=> f[2] = q.order[2]
    <3>1. q.order = <<0, q.order[2]>>
      BY <1>6, <2>2
    <3>2. q.order # f
      BY <1>6, <2>1
    <3> HIDE DEF q
    <3> QED BY <3>1, <3>2
  <2>4. OrderHits(q) = {f \in asked : f[2] = q.order[2]}
    <3> HIDE DEF q
    <3> QED BY <2>3 DEF OrderHits
  <2> QED BY <1>1, <1>6, <2>4
<1> HIDE DEF asked
<1> QED BY <1>3, <1>5, <1>6

-----------------------------------------------------------------------------
(* The order of the texts, and ValuesHonest.                                 *)

(* a comes before b at place k: they agree until then, and there a ends or   *)
(* has the smaller letter.                                                   *)
Before(a, b, k) ==
  /\ k \in 1..(Len(a) + 1) /\ k \in 1..Len(b)
  /\ \A j \in 1..(k - 1) : a[j] = b[j]
  /\ k <= Len(a) => a[k] < b[k]

LEMMA LessIs ==
  ASSUME NEW a \in Seq(Int), NEW b \in Seq(Int)
  PROVE  Less(a, b) <=> \E k \in Nat : Before(a, b, k)
<1>1. ASSUME IsStrictPrefix(a, b) PROVE Before(a, b, Len(a) + 1)
  <2>1. Len(a) <= Len(b) /\ SubSeq(a, 1, Len(a)) = SubSeq(b, 1, Len(a)) /\ a # b
    BY <1>1 DEF IsStrictPrefix, IsPrefix
  <2>2. \A j \in 1..Len(a) : a[j] = b[j]
    <3> SUFFICES ASSUME NEW j \in 1..Len(a) PROVE a[j] = b[j]
      OBVIOUS
    <3>1. SubSeq(a, 1, Len(a))[j] = a[j] /\ SubSeq(b, 1, Len(a))[j] = b[j]
      BY <2>1
    <3> QED BY <2>1, <3>1
  <2>3. Len(a) # Len(b)
    BY <2>1, <2>2, SeqEqual
  <2> QED BY <2>1, <2>2, <2>3 DEF Before
<1>2. ASSUME NEW i \in DOMAIN a \cap DOMAIN b, a[i] < b[i], \A j \in 1..(i - 1) : a[j] = b[j]
      PROVE  Before(a, b, i) /\ i \in Nat
  BY <1>2 DEF Before
<1>3. ASSUME NEW k \in Nat, Before(a, b, k) PROVE Less(a, b)
  <2>1. CASE k = Len(a) + 1
    <3>1. \A j \in 1..Len(a) : a[j] = b[j]
      BY <1>3, <2>1 DEF Before
    <3>2. Len(a) < Len(b)
      BY <1>3, <2>1 DEF Before
    <3>3. SubSeq(a, 1, Len(a)) = SubSeq(b, 1, Len(a))
      <4> DEFINE n == Len(a)
      <4>1. n \in Nat /\ \A i \in 1..n : a[i] \in Int /\ b[i] \in Int
        BY <3>2
      <4>2. /\ SubSeq(a, 1, n) \in Seq(Int) /\ SubSeq(b, 1, n) \in Seq(Int)
            /\ Len(SubSeq(a, 1, n)) = n /\ Len(SubSeq(b, 1, n)) = n
            /\ \A i \in 1..n : SubSeq(a, 1, n)[i] = a[i] /\ SubSeq(b, 1, n)[i] = b[i]
        <5> HIDE DEF n
        <5> QED BY <4>1, SubSeqProperties
      <4> HIDE DEF n
      <4> QED BY <3>1, <4>1, <4>2, SeqEqual DEF n
    <3> QED BY <3>2, <3>3 DEF Less, IsStrictPrefix, IsPrefix
  <2>2. CASE k # Len(a) + 1
    <3>1. k \in DOMAIN a \cap DOMAIN b /\ a[k] < b[k] /\ \A j \in 1..(k - 1) : a[j] = b[j]
      BY <1>3, <2>2 DEF Before
    <3> QED BY <3>1 DEF Less
  <2> QED BY <2>1, <2>2
<1> QED BY <1>1, <1>2, <1>3 DEF Less

LEMMA LessIrreflexive ==
  ASSUME NEW a \in Seq(Int)
  PROVE  ~ Less(a, a)
  BY LessIs DEF Before

LEMMA LessTransitive ==
  ASSUME NEW a \in Seq(Int), NEW b \in Seq(Int), NEW c \in Seq(Int), Less(a, b), Less(b, c)
  PROVE  Less(a, c)
<1>1. PICK k \in Nat : Before(a, b, k)
  BY LessIs
<1>2. PICK l \in Nat : Before(b, c, l)
  BY LessIs
<1>3. CASE k <= l
  <2>1. Before(a, c, k)
    <3>1. k \in 1..(Len(a) + 1) /\ k \in 1..Len(c)
      BY <1>1, <1>2, <1>3 DEF Before
    <3>2. \A j \in 1..(k - 1) : a[j] = c[j]
      BY <1>1, <1>2, <1>3 DEF Before
    <3>3. ASSUME k <= Len(a) PROVE a[k] < c[k]
      <4>1. k \in 1..Len(a) /\ k \in 1..Len(b) /\ a[k] < b[k]
        BY <1>1, <3>3 DEF Before
      <4>2. b[k] = c[k] \/ b[k] < c[k]
        BY <1>2, <1>3, <4>1 DEF Before
      <4>3. a[k] \in Int /\ b[k] \in Int /\ c[k] \in Int
        BY <3>1, <4>1
      <4> QED BY <4>1, <4>2, <4>3
    <3> QED BY <3>1, <3>2, <3>3 DEF Before
  <2> QED BY <2>1, LessIs
<1>4. CASE ~ k <= l
  <2>1. l < k /\ l \in 1..Len(a) /\ l \in 1..Len(b) /\ l \in 1..Len(c)
    BY <1>1, <1>2, <1>4 DEF Before
  <2>2. \A j \in 1..l : a[j] = b[j]
    BY <1>1, <2>1 DEF Before
  <2>3. (\A j \in 1..(l - 1) : b[j] = c[j]) /\ b[l] < c[l]
    BY <1>2, <2>1 DEF Before
  <2>4. Before(a, c, l)
    BY <2>1, <2>2, <2>3 DEF Before
  <2> QED BY <2>4, LessIs
<1> QED BY <1>3, <1>4

LEMMA LessTotal ==
  ASSUME NEW a \in Seq(Int), NEW b \in Seq(Int), a # b
  PROVE  Less(a, b) \/ Less(b, a)
<1> DEFINE K == {k \in Nat \ {0} : k > Len(a) \/ k > Len(b) \/ a[k] # b[k]}
<1>1. Len(a) + 1 \in K
  OBVIOUS
<1>2. PICK k \in K : \A l \in K : k <= l
  <2> HIDE DEF K
  <2>1. K \in SUBSET Nat
    BY DEF K
  <2> QED BY <1>1, <2>1, LeastNat
<1>3. \A j \in 1..(k - 1) : j <= Len(a) /\ j <= Len(b) /\ a[j] = b[j]
  BY <1>2
<1>4. k <= Len(a) + 1 /\ k <= Len(b) + 1
  BY <1>1, <1>3
<1>5. CASE k > Len(a)
  <2>1. Len(b) # Len(a)
    BY <1>3, <1>4, <1>5
  <2>2. Before(a, b, k)
    BY <1>3, <1>4, <1>5, <2>1 DEF Before
  <2> QED BY <2>2, LessIs
<1>6. CASE k > Len(b)
  <2>1. Len(b) # Len(a)
    BY <1>3, <1>4, <1>6
  <2>2. Before(b, a, k)
    BY <1>3, <1>4, <1>6, <2>1 DEF Before
  <2> QED BY <2>2, LessIs
<1>7. CASE ~ (k > Len(a)) /\ ~ (k > Len(b))
  <2>1. k \in 1..Len(a) /\ k \in 1..Len(b) /\ a[k] # b[k] /\ a[k] \in Int /\ b[k] \in Int
    BY <1>7
  <2>2. Before(a, b, k) \/ Before(b, a, k)
    BY <1>3, <2>1 DEF Before
  <2> QED BY <2>2, LessIs
<1> QED BY <1>5, <1>6, <1>7

(* The n smallest are at most n, and all of them if there are no more.       *)
Rank(S, x) == Cardinality({y \in S : Less(y, x)})

LEMMA RankGrows ==
  ASSUME NEW S \in SUBSET Seq(Int), IsFiniteSet(S), NEW x \in S, NEW y \in S, Less(x, y)
  PROVE  Rank(S, x) \in Nat /\ Rank(S, y) \in Nat /\ Rank(S, x) < Rank(S, y)
<1> DEFINE X == {z \in S : Less(z, x)}
           Y == {z \in S : Less(z, y)}
<1>1. X \subseteq Y
  BY LessTransitive
<1>2. x \in Y /\ x \notin X
  BY LessIrreflexive
<1>3. IsFiniteSet(X) /\ IsFiniteSet(Y)
  BY FS_Subset
<1> HIDE DEF X, Y
<1>4. /\ Cardinality(X) \in Nat /\ Cardinality(Y) \in Nat
      /\ Cardinality(X) <= Cardinality(Y) /\ Cardinality(X) # Cardinality(Y)
  BY <1>1, <1>2, <1>3, FS_Subset, FS_CardinalityType
<1> QED BY <1>4 DEF Rank, X, Y

LEMMA SmallestIs ==
  ASSUME NEW S \in SUBSET Seq(Int), IsFiniteSet(S), NEW n \in Nat
  PROVE  /\ Smallest(n, S) \subseteq S
         /\ IsFiniteSet(Smallest(n, S))
         /\ Cardinality(Smallest(n, S)) <= n
         /\ Cardinality(S) <= n => Smallest(n, S) = S
<1> DEFINE few == Smallest(n, S)
<1>1. few = {x \in S : Rank(S, x) < n}
  BY DEF Smallest, Rank
<1>2. few \subseteq S /\ IsFiniteSet(few)
  BY <1>1, FS_Subset
<1>3. \A x \in S : Rank(S, x) \in Nat
  BY FS_Subset, FS_CardinalityType DEF Rank
<1>4. Cardinality(few) <= n
  <2> DEFINE f == [x \in few |-> Rank(S, x)]
  <2>1. f \in Injection(few, 0..(n - 1))
    <3>1. \A x \in few : f[x] \in 0..(n - 1)
      BY <1>1, <1>3
    <3>2. ASSUME NEW x \in few, NEW y \in few, f[x] = f[y] PROVE x = y
      <4> SUFFICES ASSUME x # y PROVE FALSE
        OBVIOUS
      <4>1. Less(x, y) \/ Less(y, x)
        BY <1>2, LessTotal
      <4>2. Rank(S, x) = Rank(S, y)
        BY <3>2
      <4> HIDE DEF few, f
      <4> QED BY <1>2, <4>1, <4>2, RankGrows
    <3> HIDE DEF few
    <3> QED BY <3>1, <3>2 DEF Injection, IsInjective
  <2>2. IsFiniteSet(0..(n - 1)) /\ Cardinality(0..(n - 1)) = n
    BY FS_Interval
  <2> HIDE DEF few, f
  <2> QED BY <2>1, <2>2, FS_Injection
<1>5. ASSUME Cardinality(S) <= n, NEW x \in S PROVE Rank(S, x) < n
  <2> DEFINE X == {y \in S : Less(y, x)}
  <2>1. X \subseteq S /\ X # S
    BY LessIrreflexive
  <2> HIDE DEF X
  <2>2. Cardinality(X) <= Cardinality(S) /\ Cardinality(X) # Cardinality(S)
    BY <2>1, FS_Subset
  <2>3. Cardinality(X) \in Nat /\ Cardinality(S) \in Nat
    BY <2>1, FS_Subset, FS_CardinalityType
  <2> QED BY <1>5, <2>2, <2>3 DEF Rank, X
<1> HIDE DEF few
<1> QED BY <1>1, <1>2, <1>4, <1>5 DEF few

IsValues ==
  \E page \in 1..VALUES_CAP, c \in Column : \E matching \in SUBSET c, searched \in BOOLEAN :
    \E rows \in kSubset(Min({page + 1, Cardinality(matching)}), matching) :
      out = [kind |-> "values", page |-> page, matching |-> matching, searched |-> searched,
             answer |-> ValuesAnswer(page, rows)]

LEMMA MinOfTwo ==
  ASSUME NEW a \in Int, NEW b \in Int
  PROVE  Min({a, b}) = IF a <= b THEN a ELSE b
  BY DEF Min

LEMMA MaxOfTwo ==
  ASSUME NEW a \in Int, NEW b \in Int
  PROVE  Max({a, b}) = IF a >= b THEN a ELSE b
  BY DEF Max

LEMMA ClampIs ==
  ASSUME NEW limit \in Int
  PROVE  Clamp(limit) \in 1..VALUES_CAP
<1>1. VALUES_CAP \in Nat \ {0}
  BY QueryAssumption
<1>2. Min({limit, VALUES_CAP}) = IF limit <= VALUES_CAP THEN limit ELSE VALUES_CAP
  BY <1>1, MinOfTwo
<1>3. Min({limit, VALUES_CAP}) \in Int
  BY <1>1, <1>2
<1> DEFINE m == Min({limit, VALUES_CAP})
<1>4. Clamp(limit) = Max({1, m})
  BY DEF Clamp
<1> HIDE DEF m
<1>5. m \in Int /\ m <= VALUES_CAP
  BY <1>1, <1>2, <1>3 DEF m
<1>6. Max({1, m}) = IF 1 >= m THEN 1 ELSE m
  BY <1>5, MaxOfTwo
<1> QED BY <1>1, <1>4, <1>5, <1>6

LEMMA HonestHolds ==
  ASSUME IsValues
  PROVE  ValuesHonest
<1>1. PICK page \in 1..VALUES_CAP, c \in Column : \E matching \in SUBSET c, searched \in BOOLEAN :
        \E rows \in kSubset(Min({page + 1, Cardinality(matching)}), matching) :
          out = [kind |-> "values", page |-> page, matching |-> matching, searched |-> searched,
                 answer |-> ValuesAnswer(page, rows)]
  BY DEF IsValues
<1>2. PICK matching \in SUBSET c, searched \in BOOLEAN :
        \E rows \in kSubset(Min({page + 1, Cardinality(matching)}), matching) :
          out = [kind |-> "values", page |-> page, matching |-> matching, searched |-> searched,
                 answer |-> ValuesAnswer(page, rows)]
  BY <1>1
<1>3. PICK rows \in kSubset(Min({page + 1, Cardinality(matching)}), matching) :
        out = [kind |-> "values", page |-> page, matching |-> matching, searched |-> searched,
               answer |-> ValuesAnswer(page, rows)]
  BY <1>2
<1> DEFINE real == matching \ {Null}
           kept == rows \ {Null}
           values == Smallest(page, kept)
<1>4. /\ out.page = page /\ out.matching = matching
      /\ out.answer.values = values /\ out.answer.truncated = (Cardinality(kept) > page)
  BY <1>3 DEF ValuesAnswer
<1>5. page \in Nat \ {0}
  BY QueryAssumption
<1>6. IsFiniteSet(matching) /\ matching \subseteq Value \cup {Null}
  BY InputAssumption, FS_Subset
<1>7. Cardinality(matching) \in Nat
  BY <1>6, FS_CardinalityType
<1>8. /\ rows \subseteq matching
      /\ Cardinality(rows) = IF page + 1 <= Cardinality(matching) THEN page + 1 ELSE Cardinality(matching)
  BY <1>5, <1>7, MinOfTwo DEF kSubset
<1>9. IsFiniteSet(rows) /\ IsFiniteSet(kept) /\ kept \in SUBSET Seq(Int)
  <2>1. IsFiniteSet(rows)
    BY <1>6, <1>8, FS_Subset
  <2>2. kept \subseteq rows /\ kept \subseteq Value
    BY <1>6, <1>8
  <2> QED BY <2>1, <2>2, FS_Subset, QueryAssumption
<1>10. /\ values \subseteq kept /\ IsFiniteSet(values)
       /\ Cardinality(values) <= page
       /\ Cardinality(kept) <= page => values = kept
  <2> HIDE DEF kept
  <2> QED BY <1>5, <1>9, SmallestIs DEF values
<1>11. Cardinality(kept) \in Nat /\ Cardinality(values) \in Nat
  BY <1>9, <1>10, FS_CardinalityType
<1>12. kept \subseteq real
  BY <1>8
<1>13. ASSUME Cardinality(kept) > page PROVE ~ (real \subseteq values)
  <2>1. values # kept
    BY <1>5, <1>10, <1>11, <1>13
  <2> QED BY <1>10, <1>12, <2>1
<1>14. ASSUME ~ (Cardinality(kept) > page), Null \notin matching PROVE real \subseteq values
  <2>1. kept = rows /\ real = matching
    BY <1>8, <1>14
  <2>2. Cardinality(rows) = Cardinality(matching)
    <3> HIDE DEF kept, real
    <3> QED BY <1>5, <1>7, <1>8, <1>11, <1>14, <2>1
  <2>3. rows = matching
    BY <1>6, <1>8, <2>2, FS_Subset
  <2>4. values = kept
    <3> HIDE DEF values, kept
    <3> QED BY <1>5, <1>10, <1>11, <1>14
  <2> QED BY <2>1, <2>3, <2>4
<1> HIDE DEF real, kept, values
<1> QED BY <1>4, <1>10, <1>12, <1>13, <1>14 DEF ValuesHonest, real

-----------------------------------------------------------------------------
(**** Semantic queries: filters and what is bound to them.             ****)

(* A function on s..n that is given at s and step by step after it.          *)

IsStep(F, s, n, D) == F \in [(s..n) \X D -> D]

Follows(g, F, a, s, n, D) ==
  g \in [s..n -> D] /\ g[s] = a /\ \A k \in s..n : k # s => g[k] = F[<<k, g[k - 1]>>]

LEMMA Recursion ==
  ASSUME NEW D, NEW a \in D, NEW s \in Nat, NEW n \in Nat, s <= n, NEW F, IsStep(F, s, n, D)
  PROVE  \E g : Follows(g, F, a, s, n, D)
<1>0. F \in [(s..n) \X D -> D]
  BY DEF IsStep
<1> DEFINE Good(m, g) == g \in [s..m -> D] /\ g[s] = a /\ \A k \in s..m : k # s => g[k] = F[<<k, g[k - 1]>>]
           T == {m \in Nat : s + m <= n => \E g : Good(s + m, g)}
<1>1. 0 \in T
  <2>1. Good(s + 0, [k \in s..(s + 0) |-> a])
    OBVIOUS
  <2> QED BY <2>1
<1>2. ASSUME NEW m \in Nat, m \in T PROVE m + 1 \in T
  <2> SUFFICES ASSUME s + (m + 1) <= n PROVE \E g : Good(s + (m + 1), g)
    OBVIOUS
  <2>1. PICK g : Good(s + m, g)
    BY <1>2
  <2> DEFINE t == s + (m + 1)
             last == F[<<t, g[t - 1]>>]
             more == [k \in s..t |-> IF k = t THEN last ELSE g[k]]
  <2>2. t - 1 = s + m /\ t \in s..n /\ s + m \in s..(s + m) /\ t # s /\ t - 1 \in s..t /\ t - 1 # t
    OBVIOUS
  <2>3. last \in D
    BY <1>0, <2>1, <2>2
  <2>4. more \in [s..t -> D]
    <3> SUFFICES ASSUME NEW k \in s..t, k # t PROVE g[k] \in D
      BY <2>3
    <3> QED BY <2>1, <2>2
  <2>5. more[s] = a
    BY <2>1, <2>2
  <2>6. ASSUME NEW k \in s..t, k # s PROVE more[k] = F[<<k, more[k - 1]>>]
    <3>1. CASE k = t
      <4>1. more[t] = last /\ more[t - 1] = g[t - 1]
        <5> HIDE DEF last
        <5> QED BY <2>2
      <4> HIDE DEF more, t
      <4> QED BY <3>1, <4>1
    <3>2. CASE k # t
      <4>1. k \in s..(s + m) /\ k \in s..t /\ k - 1 \in s..t /\ k - 1 # t
        BY <2>6, <3>2
      <4>2. g[k] = F[<<k, g[k - 1]>>]
        BY <2>1, <2>6, <4>1
      <4>3. more[k] = g[k] /\ more[k - 1] = g[k - 1]
        <5> HIDE DEF last
        <5> QED BY <3>2, <4>1
      <4> HIDE DEF more, t
      <4> QED BY <4>2, <4>3
    <3> QED BY <3>1, <3>2
  <2> HIDE DEF more
  <2>7. Good(t, more)
    BY <2>4, <2>5, <2>6
  <2> QED BY <2>7
<1> HIDE DEF T
<1>3. Nat \subseteq T
  BY <1>1, <1>2, Induction
<1>4. PICK m \in Nat : s + m = n
  <2>1. n - s \in Nat /\ s + (n - s) = n
    OBVIOUS
  <2> QED BY <2>1
<1> HIDE DEF Good
<1>5. \E g : Good(s + m, g)
  BY <1>3, <1>4 DEF T
<1>6. \E g : Good(n, g)
  BY <1>4, <1>5
<1> QED BY <1>6 DEF Good, Follows

-----------------------------------------------------------------------------
(* Placeholders and what is bound to them.                                   *)

IsBefore(fragments, g) ==
  g = [k \in 0..Len(fragments) |-> IF k = 0 THEN 0 ELSE g[k - 1] + fragments[k].holes]

LEMMA PlaceholdersAre ==
  ASSUME NEW S, NEW fragments \in Seq(S), \A k \in 1..Len(fragments) : fragments[k].holes \in Nat
  PROVE  LET before == Placeholders(fragments) IN
         /\ before \in [0..Len(fragments) -> Nat]
         /\ before[0] = 0
         /\ \A k \in 1..Len(fragments) : before[k] = before[k - 1] + fragments[k].holes
<1> DEFINE n == Len(fragments)
           F == [p \in (0..n) \X Nat |-> p[2] + (IF p[1] = 0 THEN 0 ELSE fragments[p[1]].holes)]
           before == Placeholders(fragments)
<1>1. n \in Nat
  OBVIOUS
<1>2. IsStep(F, 0, n, Nat)
  BY DEF IsStep
<1>3. PICK g : Follows(g, F, 0, 0, n, Nat)
  <2>1. 0 \in Nat /\ 0 <= n
    BY <1>1
  <2> HIDE DEF F, n
  <2> QED BY <1>1, <1>2, <2>1, Recursion, Zenon
<1>12. g \in [0..n -> Nat] /\ g[0] = 0 /\ \A k \in 0..n : k # 0 => g[k] = F[<<k, g[k - 1]>>]
  BY <1>3 DEF Follows
<1>4. \A k \in 1..n : g[k] = g[k - 1] + fragments[k].holes
  <2> SUFFICES ASSUME NEW k \in 1..n PROVE g[k] = g[k - 1] + fragments[k].holes
    OBVIOUS
  <2>1. k \in 0..n /\ k # 0 /\ k - 1 \in 0..n
    OBVIOUS
  <2>2. g[k - 1] \in Nat
    BY <1>12, <2>1
  <2>3. g[k] = F[<<k, g[k - 1]>>]
    BY <1>12, <2>1
  <2> HIDE DEF n
  <2> QED BY <2>1, <2>2, <2>3
<1>5. IsBefore(fragments, g)
  <2>1. g = [k \in 0..n |-> g[k]]
    BY <1>12
  <2>2. \A k \in 0..n : g[k] = IF k = 0 THEN 0 ELSE g[k - 1] + fragments[k].holes
    BY <1>12, <1>4
  <2> QED BY <2>1, <2>2 DEF IsBefore
<1>6. before = CHOOSE h : IsBefore(fragments, h)
  BY DEF Placeholders, IsBefore
<1>7. before = [k \in 0..n |-> IF k = 0 THEN 0 ELSE before[k - 1] + fragments[k].holes]
  <2>1. IsBefore(fragments, before)
    BY <1>5, <1>6
  <2> QED BY <2>1 DEF IsBefore
<1> HIDE DEF before
<1>8. before[0] = 0
  BY <1>1, <1>7
<1>9. ASSUME NEW k \in 1..n PROVE before[k] = before[k - 1] + fragments[k].holes
  <2>1. \A j \in 0..n : j # 0 => before[j] = before[j - 1] + fragments[j].holes
    BY <1>7, Zenon
  <2>2. k \in 0..n /\ k # 0
    OBVIOUS
  <2> QED BY <2>1, <2>2
<1>10. \A k \in 0..n : before[k] \in Nat
  <2> DEFINE T == {k \in Nat : k <= n => before[k] \in Nat}
  <2>1. 0 \in T
    BY <1>8
  <2>2. ASSUME NEW k \in Nat, k \in T PROVE k + 1 \in T
    <3> SUFFICES ASSUME k + 1 <= n PROVE before[k + 1] \in Nat
      OBVIOUS
    <3>1. before[k + 1] = before[k] + fragments[k + 1].holes
      BY <1>1, <1>9
    <3>2. before[k] \in Nat
      BY <1>1, <2>2
    <3> QED BY <1>1, <3>1, <3>2
  <2> HIDE DEF T
  <2>3. Nat \subseteq T
    BY <2>1, <2>2, Induction
  <2> QED BY <1>1, <2>3 DEF T
<1>11. before \in [0..n -> Nat]
  BY <1>7, <1>10
<1> QED BY <1>8, <1>9, <1>11 DEF before

LEMMA PlaceholdersGrow ==
  ASSUME NEW S, NEW fragments \in Seq(S), \A k \in 1..Len(fragments) : fragments[k].holes \in Nat,
         NEW k \in 0..Len(fragments)
  PROVE  Placeholders(fragments)[k] <= Placeholders(fragments)[Len(fragments)]
<1> DEFINE n == Len(fragments)
           before == Placeholders(fragments)
           T == {m \in Nat : m <= n => before[n - m] <= before[n]}
<1>1. n \in Nat /\ before \in [0..n -> Nat]
  BY PlaceholdersAre
<1>2. \A j \in 1..n : before[j] = before[j - 1] + fragments[j].holes
  BY PlaceholdersAre
<1> HIDE DEF before, n
<1>3. 0 \in T
  BY <1>1
<1>4. ASSUME NEW m \in Nat, m \in T PROVE m + 1 \in T
  <2> SUFFICES ASSUME m + 1 <= n PROVE before[n - (m + 1)] <= before[n]
    OBVIOUS
  <2>1. n - m \in 1..n /\ (n - m) - 1 = n - (m + 1) /\ n - (m + 1) \in 0..n /\ n - m \in 0..n
    BY <1>1
  <2>2. before[n - m] = before[n - (m + 1)] + fragments[n - m].holes
    BY <1>2, <2>1
  <2>3. fragments[n - m].holes \in Nat
    BY <2>1 DEF n
  <2>4. before[n - m] <= before[n]
    BY <1>1, <1>4
  <2>5. before[n - m] \in Nat /\ before[n - (m + 1)] \in Nat /\ before[n] \in Nat
    BY <1>1, <2>1
  <2> QED BY <2>2, <2>3, <2>4, <2>5
<1> HIDE DEF T
<1>5. Nat \subseteq T
  BY <1>3, <1>4, Induction
<1>6. k \in 0..n
  BY DEF n
<1>7. n - k \in Nat /\ n - k <= n /\ n - (n - k) = k
  BY <1>1, <1>6
<1>8. n - k \in T
  BY <1>5, <1>7
<1>9. before[n - (n - k)] <= before[n]
  BY <1>7, <1>8 DEF T
<1> QED BY <1>7, <1>9 DEF before, n

LEMMA SliceLeft ==
  ASSUME NEW S, NEW p \in Seq(S), NEW r \in Seq(S), NEW a \in Nat, NEW b \in Nat, b <= Len(p)
  PROVE  SubSeq(p \o r, a + 1, b) = SubSeq(p, a + 1, b)
<1> DEFINE long == p \o r
           m == a + 1
<1>1. long \in Seq(S) /\ Len(long) = Len(p) + Len(r) /\ \A i \in 1..Len(p) : long[i] = p[i]
  BY ConcatProperties
<1>2. m \in Int /\ b \in Int /\ m >= 1
  OBVIOUS
<1>3. \A i \in m..b : i \in 1..Len(p)
  OBVIOUS
<1> HIDE DEF long, m
<1>4. \A i \in m..b : long[i] \in S /\ p[i] \in S /\ long[i] = p[i]
  BY <1>1, <1>3
<1>5. /\ SubSeq(long, m, b) \in Seq(S)
      /\ Len(SubSeq(long, m, b)) = IF m <= b THEN b - m + 1 ELSE 0
      /\ \A i \in 1..(b - m + 1) : SubSeq(long, m, b)[i] = long[m + i - 1]
  BY <1>2, <1>4, SubSeqProperties
<1>6. /\ SubSeq(p, m, b) \in Seq(S)
      /\ Len(SubSeq(p, m, b)) = IF m <= b THEN b - m + 1 ELSE 0
      /\ \A i \in 1..(b - m + 1) : SubSeq(p, m, b)[i] = p[m + i - 1]
  BY <1>2, <1>4, SubSeqProperties
<1>7. \A i \in 1..Len(SubSeq(p, m, b)) : SubSeq(long, m, b)[i] = SubSeq(p, m, b)[i]
  <2> SUFFICES ASSUME NEW i \in 1..Len(SubSeq(p, m, b)) PROVE SubSeq(long, m, b)[i] = SubSeq(p, m, b)[i]
    OBVIOUS
  <2>1. i \in 1..(b - m + 1) /\ m + i - 1 \in m..b
    BY <1>2, <1>6
  <2> QED BY <1>4, <1>5, <1>6, <2>1
<1>8. SubSeq(long, m, b) = SubSeq(p, m, b)
  BY <1>5, <1>6, <1>7, SeqEqual
<1> QED BY <1>8 DEF long, m

LEMMA SliceRight ==
  ASSUME NEW S, NEW p \in Seq(S), NEW r \in Seq(S)
  PROVE  SubSeq(p \o r, Len(p) + 1, Len(p) + Len(r)) = r
<1> DEFINE long == p \o r
           m == Len(p) + 1
           b == Len(p) + Len(r)
<1>1. long \in Seq(S) /\ Len(long) = b /\ \A i \in 1..b : long[i] = IF i <= Len(p) THEN p[i] ELSE r[i - Len(p)]
  BY ConcatProperties
<1>2. /\ m \in Int /\ b \in Int /\ m >= 1 /\ Len(p) \in Nat /\ Len(r) \in Nat
      /\ b - m + 1 = Len(r) /\ (m <= b <=> Len(r) # 0)
  OBVIOUS
<1>3. \A i \in m..b : long[i] \in S
  BY <1>1, <1>2
<1>4. \A i \in 1..Len(r) : long[m + i - 1] = r[i]
  <2> SUFFICES ASSUME NEW i \in 1..Len(r) PROVE long[m + i - 1] = r[i]
    OBVIOUS
  <2>1. m + i - 1 = Len(p) + i /\ Len(p) + i \in 1..b /\ ~ (Len(p) + i <= Len(p)) /\ (Len(p) + i) - Len(p) = i
    BY <1>2
  <2> HIDE DEF long, m, b
  <2> QED BY <1>1, <2>1
<1> HIDE DEF long, m, b
<1>5. /\ SubSeq(long, m, b) \in Seq(S)
      /\ Len(SubSeq(long, m, b)) = IF m <= b THEN b - m + 1 ELSE 0
      /\ \A i \in 1..(b - m + 1) : SubSeq(long, m, b)[i] = long[m + i - 1]
  BY <1>2, <1>3, SubSeqProperties
<1>6. Len(SubSeq(long, m, b)) = Len(r)
  BY <1>2, <1>5
<1>7. \A i \in 1..Len(r) : SubSeq(long, m, b)[i] = r[i]
  BY <1>2, <1>4, <1>5
<1>8. SubSeq(long, m, b) = r
  BY <1>5, <1>6, <1>7, SeqEqual
<1> QED BY <1>8 DEF long, m, b

-----------------------------------------------------------------------------
(* A WHERE, as it is put together: fragments and the values of each.         *)

Fragments ==
  [op : In \cup Text \cup Presence \cup Compare \cup Between, field : Nat \X Nat, holes : Nat]
    \cup [op : {"combo"}, field : Seq(Nat \X Nat), tuples : Nat, holes : Nat]

Texts == Seq(Int)

Wheres == [fragments : Seq(Fragments), params : Seq(Texts)]

Fits(w) ==
  /\ w \in Wheres
  /\ Placeholders(w.fragments)[Len(w.fragments)] = Len(w.params)

LEMMA HolesNat ==
  ASSUME NEW fragments \in Seq(Fragments)
  PROVE  \A k \in 1..Len(fragments) : fragments[k].holes \in Nat
<1> SUFFICES ASSUME NEW k \in 1..Len(fragments) PROVE fragments[k].holes \in Nat
  OBVIOUS
<1>1. fragments[k] \in Fragments
  BY ElementOfSeq
<1> QED BY <1>1 DEF Fragments

LEMMA FittedAre ==
  ASSUME NEW w, Fits(w)
  PROVE  LET n == Len(w.fragments)
             before == Placeholders(w.fragments) IN
         /\ n \in Nat /\ w.fragments \in Seq(Fragments) /\ w.params \in Seq(Texts)
         /\ before \in [0..n -> Nat]
         /\ before[0] = 0
         /\ before[n] = Len(w.params)
         /\ \A k \in 1..n : before[k] = before[k - 1] + w.fragments[k].holes
         /\ \A k \in 0..n : before[k] <= Len(w.params)
<1>1. w.fragments \in Seq(Fragments) /\ w.params \in Seq(Texts)
  BY DEF Fits, Wheres
<1>2. \A k \in 1..Len(w.fragments) : w.fragments[k].holes \in Nat
  BY <1>1, HolesNat
<1> DEFINE fr == w.fragments
<1>3. /\ Placeholders(fr) \in [0..Len(fr) -> Nat]
      /\ Placeholders(fr)[0] = 0
      /\ \A k \in 1..Len(fr) : Placeholders(fr)[k] = Placeholders(fr)[k - 1] + fr[k].holes
  BY <1>1, <1>2, PlaceholdersAre
<1>4. \A k \in 0..Len(fr) : Placeholders(fr)[k] <= Placeholders(fr)[Len(fr)]
  BY <1>1, <1>2, PlaceholdersGrow
<1> QED BY <1>1, <1>3, <1>4 DEF Fits

(* One more fragment, with its values, disturbs none of those before it.     *)
LEMMA ExtendedFits ==
  ASSUME NEW w, Fits(w), NEW f \in Fragments, NEW vs \in Seq(Texts), f.holes = Len(vs)
  PROVE  LET v == Extended(w, f, vs)
             n == Len(w.fragments) IN
         /\ Fits(v)
         /\ Len(v.fragments) = n + 1
         /\ \A i \in 1..n : v.fragments[i] = w.fragments[i] /\ Bound(v, i) = Bound(w, i)
         /\ v.fragments[n + 1] = f /\ Bound(v, n + 1) = vs
<1> DEFINE v == Extended(w, f, vs)
           n == Len(w.fragments)
           before == Placeholders(w.fragments)
           after == Placeholders(v.fragments)
<1>1. /\ n \in Nat /\ w.fragments \in Seq(Fragments) /\ w.params \in Seq(Texts)
      /\ before \in [0..n -> Nat]
      /\ before[0] = 0
      /\ before[n] = Len(w.params)
      /\ \A k \in 1..n : before[k] = before[k - 1] + w.fragments[k].holes
      /\ \A k \in 0..n : before[k] <= Len(w.params)
  BY FittedAre
<1>2. v.fragments = Append(w.fragments, f) /\ v.params = w.params \o vs
  BY DEF Extended
<1>3. /\ v.fragments \in Seq(Fragments) /\ Len(v.fragments) = n + 1
      /\ \A k \in 1..n : v.fragments[k] = w.fragments[k]
      /\ v.fragments[n + 1] = f
  BY <1>1, <1>2, AppendProperties
<1>4. v.params \in Seq(Texts) /\ Len(v.params) = Len(w.params) + Len(vs)
  BY <1>1, <1>2, ConcatProperties
<1>5. /\ after \in [0..(n + 1) -> Nat]
      /\ after[0] = 0
      /\ \A k \in 1..(n + 1) : after[k] = after[k - 1] + v.fragments[k].holes
  <2> DEFINE fr == v.fragments
  <2>1. \A k \in 1..Len(fr) : fr[k].holes \in Nat
    BY <1>3, HolesNat
  <2>2. /\ Placeholders(fr) \in [0..Len(fr) -> Nat]
        /\ Placeholders(fr)[0] = 0
        /\ \A k \in 1..Len(fr) : Placeholders(fr)[k] = Placeholders(fr)[k - 1] + fr[k].holes
    BY <1>3, <2>1, PlaceholdersAre
  <2> QED BY <1>3, <2>2
<1> HIDE DEF v, n, before, after
<1>6. \A k \in 0..n : after[k] = before[k]
  <2> DEFINE T == {k \in Nat : k <= n => after[k] = before[k]}
  <2>1. 0 \in T
    BY <1>1, <1>5
  <2>2. ASSUME NEW k \in Nat, k \in T PROVE k + 1 \in T
    <3> SUFFICES ASSUME k + 1 <= n PROVE after[k + 1] = before[k + 1]
      OBVIOUS
    <3>1. k + 1 \in 1..n /\ k + 1 \in 1..(n + 1) /\ (k + 1) - 1 = k /\ k <= n
      BY <1>1
    <3>2. after[k] = before[k]
      BY <2>2, <3>1
    <3>3. v.fragments[k + 1] = w.fragments[k + 1]
      BY <1>3, <3>1
    <3>4. after[k + 1] = after[k] + v.fragments[k + 1].holes
      BY <1>5, <3>1
    <3>5. before[k + 1] = before[k] + w.fragments[k + 1].holes
      BY <1>1, <3>1
    <3> QED BY <3>2, <3>3, <3>4, <3>5
  <2> HIDE DEF T
  <2>3. Nat \subseteq T
    BY <2>1, <2>2, Induction
  <2> QED BY <1>1, <2>3 DEF T
<1>7. after[n + 1] = Len(w.params) + Len(vs)
  <2>1. n + 1 \in 1..(n + 1) /\ (n + 1) - 1 = n /\ n \in 0..n
    BY <1>1
  <2>2. after[n + 1] = after[n] + f.holes
    BY <1>3, <1>5, <2>1
  <2> QED BY <1>1, <1>6, <2>1, <2>2
<1>8. Fits(v)
  <2>1. Placeholders(v.fragments)[Len(v.fragments)] = Len(v.params)
    BY <1>3, <1>4, <1>7 DEF after
  <2>2. v \in Wheres
    BY <1>3, <1>4 DEF Wheres, Extended, v
  <2> QED BY <2>1, <2>2 DEF Fits
<1>9. ASSUME NEW i \in 1..n PROVE Bound(v, i) = Bound(w, i)
  <2>1. i \in 0..n /\ i - 1 \in 0..n
    BY <1>1
  <2>2. after[i] = before[i] /\ after[i - 1] = before[i - 1]
    BY <1>6, <2>1
  <2>3. before[i] \in Nat /\ before[i - 1] \in Nat /\ before[i] <= Len(w.params)
    BY <1>1, <2>1
  <2>4. SubSeq(w.params \o vs, before[i - 1] + 1, before[i]) = SubSeq(w.params, before[i - 1] + 1, before[i])
    <3> DEFINE a == before[i - 1]
               b == before[i]
               p == w.params
    <3>1. a \in Nat /\ b \in Nat /\ b <= Len(p) /\ p \in Seq(Texts)
      BY <1>1, <2>3
    <3> HIDE DEF a, b, p
    <3>2. SubSeq(p \o vs, a + 1, b) = SubSeq(p, a + 1, b)
      BY <3>1, SliceLeft
    <3> QED BY <3>2 DEF a, b, p
  <2>5. Bound(v, i) = SubSeq(v.params, after[i - 1] + 1, after[i])
    BY DEF Bound, after
  <2>6. Bound(w, i) = SubSeq(w.params, before[i - 1] + 1, before[i])
    BY DEF Bound, before
  <2> QED BY <1>2, <2>2, <2>4, <2>5, <2>6
<1>10. Bound(v, n + 1) = vs
  <2>1. (n + 1) - 1 = n /\ n \in 0..n
    BY <1>1
  <2>2. Bound(v, n + 1) = SubSeq(v.params, after[n] + 1, after[n + 1])
    BY <2>1 DEF Bound, after
  <2>3. after[n] = Len(w.params)
    BY <1>1, <1>6, <2>1
  <2>4. SubSeq(w.params \o vs, Len(w.params) + 1, Len(w.params) + Len(vs)) = vs
    BY <1>1, SliceRight
  <2> QED BY <1>2, <1>7, <2>2, <2>3, <2>4
<1> QED BY <1>3, <1>8, <1>9, <1>10 DEF v, n

LEMMA ExtendedKeeps ==
  ASSUME NEW w, Fits(w), NEW f \in Fragments, NEW vs \in Seq(Texts), f.holes = Len(vs), NEW row
  PROVE  /\ Fits(Extended(w, f, vs))
         /\ Keeps(Extended(w, f, vs), row) <=> Keeps(w, row) /\ Truth(f, vs, row) = {TRUE}
<1> DEFINE v == Extended(w, f, vs)
           n == Len(w.fragments)
<1>1. /\ Fits(v)
      /\ Len(v.fragments) = n + 1
      /\ \A i \in 1..n : v.fragments[i] = w.fragments[i] /\ Bound(v, i) = Bound(w, i)
      /\ v.fragments[n + 1] = f /\ Bound(v, n + 1) = vs
  BY ExtendedFits
<1>2. n \in Nat /\ DOMAIN w.fragments = 1..n /\ DOMAIN v.fragments = 1..(n + 1)
  BY <1>1 DEF Fits, Wheres
<1> HIDE DEF v, n
<1>3. Keeps(w, row) <=> \A i \in 1..n : Truth(w.fragments[i], Bound(w, i), row) = {TRUE}
  BY <1>2 DEF Keeps
<1>4. Keeps(v, row) <=> \A i \in 1..(n + 1) : Truth(v.fragments[i], Bound(v, i), row) = {TRUE}
  BY <1>2 DEF Keeps
<1>5. \A i \in 1..(n + 1) : i \in 1..n \/ i = n + 1
  BY <1>2
<1>6. \A i \in 1..n : i \in 1..(n + 1)
  BY <1>2
<1>7. n + 1 \in 1..(n + 1)
  BY <1>2
<1>8. Keeps(v, row) <=> Keeps(w, row) /\ Truth(f, vs, row) = {TRUE}
  BY <1>1, <1>3, <1>4, <1>5, <1>6, <1>7, Zenon
<1> QED BY <1>1, <1>8 DEF v

-----------------------------------------------------------------------------
(* The loop over the filters.                                                *)

LEMMA TupleIsSeq ==
  ASSUME NEW S, NEW n \in Nat, NEW s, s \in [1..n -> S]
  PROVE  s \in Seq(S) /\ Len(s) = n
<1>1. s \in UNION {[1..m -> S] : m \in Nat}
  <2>1. \E T \in {[1..m -> S] : m \in Nat} : s \in T
    OBVIOUS
  <2> QED BY <2>1
<1>2. s \in Seq(S)
  BY <1>1, SeqDef, Zenon
<1>3. DOMAIN s = 1..n
  OBVIOUS
<1> QED BY <1>2, <1>3, LenProperties

FilterOps == In \cup Text \cup Presence \cup Compare \cup Between

LEMMA FilterIs ==
  ASSUME NEW f \in Filter
  PROVE  /\ f.op \in FilterOps /\ f.field \in Nat \X Nat /\ f.values \in Seq(Texts)
         /\ f.op \in Text => Len(f.values) = 1
<1>1. Seq(Texts) = Seq(Seq(Int))
  BY DEF Texts
<1>2. CASE f \in [op : In, field : Nat \X Nat, values : Seq(Seq(Int))]
  BY <1>2 DEF FilterOps, Texts, In, Text
<1>3. CASE f \in [op : Presence, field : Nat \X Nat, values : {<<>>}]
  BY <1>3, EmptySeq DEF FilterOps, Presence, Text
<1>4. CASE f \in [op : Between, field : Nat \X Nat, values : [1..2 -> Seq(Int)]]
  <2>1. f.values \in [1..2 -> Seq(Int)] /\ 2 \in Nat
    BY <1>4
  <2>2. f.values \in Seq(Seq(Int))
    BY <2>1, TupleIsSeq
  <2> QED BY <1>4, <2>2 DEF FilterOps, Texts, Between, Text
<1>5. CASE f \in [op : Text \cup Compare, field : Nat \X Nat, values : [1..1 -> Seq(Int)]]
  <2>1. f.values \in [1..1 -> Seq(Int)] /\ 1 \in Nat
    BY <1>5
  <2>2. f.values \in Seq(Seq(Int))
    BY <2>1, TupleIsSeq
  <2>3. Len(f.values) = 1
    BY <2>1, TupleIsSeq
  <2> QED BY <1>5, <2>2, <2>3 DEF FilterOps, Texts
<1> QED BY <1>2, <1>3, <1>4, <1>5 DEF Filter

LEMMA PieceFits ==
  ASSUME NEW f \in Filter
  PROVE  Fragment(f) \in Fragments /\ Params(f) \in Seq(Texts) /\ Fragment(f).holes = Len(Params(f))
<1>1. /\ f.op \in FilterOps /\ f.field \in Nat \X Nat /\ f.values \in Seq(Texts)
      /\ f.op \in Text => Len(f.values) = 1
  BY FilterIs
<1>2. Len(f.values) \in Nat
  BY <1>1
<1>3. Fragment(f) \in Fragments /\ Fragment(f).holes = Len(f.values)
  BY <1>1, <1>2 DEF Fragment, Fragments, FilterOps
<1>4. CASE f.op \in Text
  <2>1. f.values[1] \in Seq(Int)
    BY <1>1, <1>4 DEF Texts
  <2>2. Upper(f.values[1]) \in Seq(Int)
    BY <2>1 DEF Upper
  <2>3. Params(f) = <<Upper(f.values[1])>>
    BY <1>4 DEF Params
  <2> QED BY <1>1, <1>3, <1>4, <2>2, <2>3 DEF Texts
<1>5. CASE f.op \notin Text
  BY <1>1, <1>3, <1>5 DEF Params
<1> QED BY <1>3, <1>4, <1>5

IsLoop(filters, g) ==
  g = [n \in 0..Len(filters) |->
         IF n = 0 THEN NoPredicate
         ELSE IF is_active(filters[n])
              THEN Extended(g[n - 1], Fragment(filters[n]), Params(filters[n]))
              ELSE g[n - 1]]

LEMMA NothingFits == Fits(NoPredicate) /\ \A row : Keeps(NoPredicate, row)
<1>1. NoPredicate.fragments = <<>> /\ NoPredicate.params = <<>>
  BY DEF NoPredicate
<1>2. <<>> \in Seq(Fragments) /\ <<>> \in Seq(Texts) /\ Len(<<>>) = 0
  BY EmptySeq
<1>3. \A k \in 1..Len(<<>>) : <<>>[k].holes \in Nat
  BY <1>2
<1>4. Placeholders(<<>>)[0] = 0
  BY <1>2, <1>3, PlaceholdersAre
<1>5. DOMAIN <<>> = {}
  OBVIOUS
<1>6. NoPredicate \in Wheres
  BY <1>2 DEF NoPredicate, Wheres
<1> QED BY <1>1, <1>2, <1>4, <1>5, <1>6 DEF Fits, Keeps

-----------------------------------------------------------------------------
(* A loop that puts one more piece to a WHERE wherever there is one.         *)

Pieces(n, A, frag, vals) ==
  \A k \in 1..n : k \in A => frag[k] \in Fragments /\ vals[k] \in Seq(Texts) /\ frag[k].holes = Len(vals[k])

Grown(w, k, A, frag, vals) == IF k \in A THEN Extended(w, frag[k], vals[k]) ELSE w

Run(g, start, n, A, frag, vals) ==
  g[0] = start /\ \A k \in 0..n : k # 0 => g[k] = Grown(g[k - 1], k, A, frag, vals)

LEMMA RunExists ==
  ASSUME NEW n \in Nat, NEW A, NEW frag, NEW vals, Pieces(n, A, frag, vals), NEW start \in Wheres
  PROVE  \E g \in [0..n -> Wheres] : Run(g, start, n, A, frag, vals)
<1> DEFINE F == [p \in (0..n) \X Wheres |-> IF p[1] = 0 THEN p[2] ELSE Grown(p[2], p[1], A, frag, vals)]
<1>1. IsStep(F, 0, n, Wheres)
  <2> SUFFICES ASSUME NEW k \in 0..n, NEW w \in Wheres, k # 0 PROVE Grown(w, k, A, frag, vals) \in Wheres
    BY DEF IsStep
  <2>1. CASE k \in A
    <3>1. k \in 1..n
      OBVIOUS
    <3>2. frag[k] \in Fragments /\ vals[k] \in Seq(Texts)
      BY <2>1, <3>1 DEF Pieces
    <3>3. w.fragments \in Seq(Fragments) /\ w.params \in Seq(Texts)
      BY DEF Wheres
    <3>4. Append(w.fragments, frag[k]) \in Seq(Fragments)
      BY <3>2, <3>3, AppendProperties
    <3>5. w.params \o vals[k] \in Seq(Texts)
      BY <3>2, <3>3, ConcatProperties
    <3> QED BY <2>1, <3>4, <3>5 DEF Grown, Extended, Wheres
  <2>2. CASE k \notin A
    BY <2>2 DEF Grown
  <2> QED BY <2>1, <2>2
<1>2. \A k \in 0..n : \A w \in Wheres : k # 0 => F[<<k, w>>] = Grown(w, k, A, frag, vals)
  OBVIOUS
<1>3. 0 \in Nat /\ 0 <= n
  OBVIOUS
<1> HIDE DEF F
<1>4. PICK g : Follows(g, F, start, 0, n, Wheres)
  BY <1>1, <1>3, Recursion, Zenon
<1>5. g \in [0..n -> Wheres] /\ g[0] = start /\ \A k \in 0..n : k # 0 => g[k] = F[<<k, g[k - 1]>>]
  BY <1>4 DEF Follows
<1>6. ASSUME NEW k \in 0..n, k # 0 PROVE g[k] = Grown(g[k - 1], k, A, frag, vals)
  <2>1. k - 1 \in 0..n
    BY <1>6
  <2>2. g[k - 1] \in Wheres
    BY <1>5, <2>1
  <2> QED BY <1>2, <1>5, <1>6, <2>2
<1> QED BY <1>5, <1>6 DEF Run

Kept(w, start, n, A, frag, vals, row) ==
  /\ Fits(w)
  /\ Keeps(w, row) <=>
       Keeps(start, row) /\ \A k \in 1..n : k \in A => Truth(frag[k], vals[k], row) = {TRUE}

LEMMA RunKeeps ==
  ASSUME NEW n \in Nat, NEW A, NEW frag, NEW vals, Pieces(n, A, frag, vals), NEW start, Fits(start),
         NEW g, Run(g, start, n, A, frag, vals), NEW row
  PROVE  Kept(g[n], start, n, A, frag, vals, row)
<1> DEFINE So(m) == /\ Fits(g[m])
                    /\ Keeps(g[m], row) <=>
                         Keeps(start, row) /\ \A k \in 1..m : k \in A => Truth(frag[k], vals[k], row) = {TRUE}
           T == {m \in Nat : m <= n => So(m)}
<1>1. 0 \in T
  <2>1. g[0] = start
    BY DEF Run
  <2>2. \A k : k \notin 1..0
    OBVIOUS
  <2>3. So(0)
    BY <2>1, <2>2, Zenon
  <2> HIDE DEF So
  <2> QED BY <2>3
<1> HIDE DEF So
<1>2. ASSUME NEW m \in Nat, m \in T PROVE m + 1 \in T
  <2> SUFFICES ASSUME m + 1 <= n PROVE So(m + 1)
    OBVIOUS
  <2>1. m <= n /\ m + 1 \in 0..n /\ m + 1 # 0 /\ (m + 1) - 1 = m /\ m + 1 \in 1..n
    OBVIOUS
  <2>2. So(m)
    BY <1>2, <2>1
  <2>3. g[m + 1] = Grown(g[m], m + 1, A, frag, vals)
    BY <2>1 DEF Run
  <2>4. (\A k \in 1..(m + 1) : k \in 1..m \/ k = m + 1) /\ (\A k \in 1..m : k \in 1..(m + 1))
        /\ m + 1 \in 1..(m + 1)
    OBVIOUS
  <2>5. CASE m + 1 \in A
    <3>1. frag[m + 1] \in Fragments /\ vals[m + 1] \in Seq(Texts) /\ frag[m + 1].holes = Len(vals[m + 1])
      BY <2>1, <2>5 DEF Pieces
    <3>2. g[m + 1] = Extended(g[m], frag[m + 1], vals[m + 1])
      BY <2>3, <2>5 DEF Grown
    <3>3. Fits(g[m])
      BY <2>2 DEF So
    <3> DEFINE w == g[m]
               f == frag[m + 1]
               vs == vals[m + 1]
    <3>4. /\ Fits(Extended(w, f, vs))
          /\ Keeps(Extended(w, f, vs), row) <=> Keeps(w, row) /\ Truth(f, vs, row) = {TRUE}
      <4>1. Fits(w) /\ f \in Fragments /\ vs \in Seq(Texts) /\ f.holes = Len(vs)
        BY <3>1, <3>3
      <4> HIDE DEF w, f, vs
      <4> QED BY <4>1, ExtendedKeeps
    <3> HIDE DEF w, f, vs
    <3>5. Keeps(w, row) <=>
             Keeps(start, row) /\ \A k \in 1..m : k \in A => Truth(frag[k], vals[k], row) = {TRUE}
      BY <2>2 DEF w, So
    <3>6. (\A k \in 1..(m + 1) : k \in A => Truth(frag[k], vals[k], row) = {TRUE})
            <=> /\ \A k \in 1..m : k \in A => Truth(frag[k], vals[k], row) = {TRUE}
                /\ Truth(f, vs, row) = {TRUE}
      BY <2>4, <2>5, Zenon DEF f, vs
    <3>7. Keeps(Extended(w, f, vs), row) <=>
             Keeps(start, row) /\ \A k \in 1..(m + 1) : k \in A => Truth(frag[k], vals[k], row) = {TRUE}
      BY <3>4, <3>5, <3>6, Zenon
    <3>8. g[m + 1] = Extended(w, f, vs)
      BY <3>2 DEF w, f, vs
    <3> QED BY <3>4, <3>7, <3>8, Zenon DEF So
  <2>6. CASE m + 1 \notin A
    <3>1. g[m + 1] = g[m]
      BY <2>3, <2>6 DEF Grown
    <3>2. (\A k \in 1..(m + 1) : k \in A => Truth(frag[k], vals[k], row) = {TRUE})
            <=> \A k \in 1..m : k \in A => Truth(frag[k], vals[k], row) = {TRUE}
      BY <2>4, <2>6, Zenon
    <3> QED BY <2>2, <3>1, <3>2, Zenon DEF So
  <2> QED BY <2>5, <2>6
<1> HIDE DEF T
<1>3. Nat \subseteq T
  BY <1>1, <1>2, Induction
<1>4. n \in T
  BY <1>3
<1>5. n <= n
  OBVIOUS
<1>6. So(n)
  BY <1>4, <1>5 DEF T
<1> QED BY <1>6 DEF So, Kept

(* What the filters' loop makes.                                             *)
LEMMA FiltersLoop ==
  ASSUME NEW filters \in Seq(Filter), NEW row
  PROVE  LET w == build_filter_predicates(filters) IN
         /\ Fits(w)
         /\ Keeps(w, row) <=>
              \A i \in 1..Len(filters) :
                is_active(filters[i]) => Truth(Fragment(filters[i]), Params(filters[i]), row) = {TRUE}
<1> DEFINE n == Len(filters)
           A == {i \in 1..n : is_active(filters[i])}
           frag == [i \in 1..n |-> Fragment(filters[i])]
           vals == [i \in 1..n |-> Params(filters[i])]
           w == build_filter_predicates(filters)
<1>1. n \in Nat
  OBVIOUS
<1>2. Pieces(n, A, frag, vals)
  <2> SUFFICES ASSUME NEW k \in 1..n
               PROVE  /\ Fragment(filters[k]) \in Fragments /\ Params(filters[k]) \in Seq(Texts)
                      /\ Fragment(filters[k]).holes = Len(Params(filters[k]))
    BY DEF Pieces
  <2>1. filters[k] \in Filter
    BY ElementOfSeq
  <2> QED BY <2>1, PieceFits
<1>3. NoPredicate \in Wheres
  BY EmptySeq DEF NoPredicate, Wheres
<1> DEFINE Next1(g, k) == IF is_active(filters[k])
                          THEN Extended(g[k - 1], Fragment(filters[k]), Params(filters[k])) ELSE g[k - 1]
<1>4. ASSUME NEW g, NEW k \in 0..n, k # 0 PROVE Grown(g[k - 1], k, A, frag, vals) = Next1(g, k)
  <2>1. k \in 1..n
    BY <1>4
  <2>2. frag[k] = Fragment(filters[k]) /\ vals[k] = Params(filters[k]) /\ (k \in A <=> is_active(filters[k]))
    BY <2>1
  <2> HIDE DEF frag, vals, A, n
  <2> QED BY <2>2 DEF Grown
<1>5. PICK g \in [0..n -> Wheres] : Run(g, NoPredicate, n, A, frag, vals)
  <2> HIDE DEF n, A, frag, vals
  <2> QED BY <1>1, <1>2, <1>3, RunExists
<1>6. \A k \in 0..n : g[k] = IF k = 0 THEN NoPredicate ELSE Next1(g, k)
  <2> HIDE DEF Next1, n, A, frag, vals
  <2> QED BY <1>4, <1>5 DEF Run
<1>7. IsLoop(filters, g)
  <2>1. g = [k \in 0..n |-> g[k]]
    BY <1>5
  <2>2. g = [k \in 0..n |-> IF k = 0 THEN NoPredicate ELSE Next1(g, k)]
    <3> HIDE DEF Next1, n
    <3> QED BY <1>6, <2>1
  <2> QED BY <2>2 DEF IsLoop
<1> DEFINE h == CHOOSE x : IsLoop(filters, x)
<1>8. w = h[n]
  BY DEF build_filter_predicates, IsLoop
<1>9. IsLoop(filters, h)
  BY <1>7
<1> HIDE DEF h
<1>10. \A k \in 0..n : h[k] = IF k = 0 THEN NoPredicate ELSE Next1(h, k)
  BY <1>9, Zenon DEF IsLoop
<1>11. Run(h, NoPredicate, n, A, frag, vals)
  <2>1. 0 \in 0..n
    BY <1>1
  <2> HIDE DEF Next1, n, A, frag, vals
  <2> QED BY <1>4, <1>10, <2>1 DEF Run
<1>12. /\ Fits(h[n])
       /\ Keeps(h[n], row) <=>
            Keeps(NoPredicate, row) /\ \A k \in 1..n : k \in A => Truth(frag[k], vals[k], row) = {TRUE}
  <2>1. Fits(NoPredicate)
    BY NothingFits
  <2>2. Kept(h[n], NoPredicate, n, A, frag, vals, row)
    <3> HIDE DEF n, A, frag, vals, w
    <3> QED BY <1>1, <1>2, <1>11, <2>1, RunKeeps
  <2> QED BY <2>2, Zenon DEF Kept
<1>13. Keeps(NoPredicate, row)
  BY NothingFits
<1>14. ASSUME NEW k \in 1..n
       PROVE (k \in A => Truth(frag[k], vals[k], row) = {TRUE})
               <=> (is_active(filters[k]) => Truth(Fragment(filters[k]), Params(filters[k]), row) = {TRUE})
  OBVIOUS
<1>15. Keeps(h[n], row) <=>
         \A k \in 1..n : is_active(filters[k]) => Truth(Fragment(filters[k]), Params(filters[k]), row) = {TRUE}
  <2> HIDE DEF n, A, frag, vals
  <2> QED BY <1>12, <1>13, <1>14, Zenon
<1> QED BY <1>8, <1>12, <1>15

-----------------------------------------------------------------------------
(* Rows of one length, laid end to end.                                      *)

LEMMA Times ==
  ASSUME NEW k \in Nat, NEW n \in Nat
  PROVE  k * n \in Nat /\ (k + 1) * n = k * n + n /\ 0 * n = 0 /\ 1 * n = n
OBVIOUS

LEMMA TimesGrow ==
  ASSUME NEW k \in Nat, NEW m \in Nat, NEW n \in Nat, k <= m
  PROVE  k * n <= m * n
<1>1. PICK d \in Nat : m = k + d
  <2>1. m - k \in Nat /\ m = k + (m - k)
    OBVIOUS
  <2> QED BY <2>1
<1>2. (k + d) * n = k * n + d * n /\ d * n \in Nat /\ k * n \in Nat
  OBVIOUS
<1> QED BY <1>1, <1>2

IsFlat(rows, g) == g = [i \in 1..Len(rows) |-> IF i = 1 THEN rows[i] ELSE g[i - 1] \o rows[i]]

LEMMA FlatExists ==
  ASSUME NEW S, NEW rows \in Seq(Seq(S)), Len(rows) # 0
  PROVE  \E g : IsFlat(rows, g)
<1> DEFINE n == Len(rows)
           D == Seq(S)
           F == [p \in (1..n) \X D |-> p[2] \o rows[p[1]]]
<1>1. n \in Nat /\ 1 \in Nat /\ 1 <= n
  OBVIOUS
<1>2. rows[1] \in D
  BY <1>1
<1>3. IsStep(F, 1, n, D)
  <2> SUFFICES ASSUME NEW k \in 1..n, NEW w \in D PROVE w \o rows[k] \in D
    BY DEF IsStep
  <2>1. rows[k] \in Seq(S)
    BY ElementOfSeq
  <2> QED BY <2>1, ConcatProperties
<1>4. \A k \in 1..n : \A w \in D : F[<<k, w>>] = w \o rows[k]
  OBVIOUS
<1> DEFINE a == rows[1]
<1> HIDE DEF F, n, D, a
<1>5. a \in D
  BY <1>2 DEF a
<1>6. PICK g : Follows(g, F, a, 1, n, D)
  BY <1>1, <1>3, <1>5, Recursion, Zenon
<1>7. g \in [1..n -> D] /\ g[1] = a /\ \A k \in 1..n : k # 1 => g[k] = F[<<k, g[k - 1]>>]
  BY <1>6 DEF Follows
<1>8. ASSUME NEW k \in 1..n PROVE g[k] = IF k = 1 THEN rows[k] ELSE g[k - 1] \o rows[k]
  <2>1. CASE k = 1
    BY <1>7, <2>1 DEF a
  <2>2. CASE k # 1
    <3>1. k - 1 \in 1..n
      BY <1>1, <2>2
    <3>2. g[k - 1] \in D
      BY <1>7, <3>1
    <3> QED BY <1>4, <1>7, <2>2, <3>2
  <2> QED BY <2>1, <2>2
<1>9. g = [k \in 1..n |-> g[k]]
  BY <1>7
<1>10. g = [k \in 1..n |-> IF k = 1 THEN rows[k] ELSE g[k - 1] \o rows[k]]
  BY <1>8, <1>9
<1> QED BY <1>10 DEF IsFlat, n

LEMMA FlatSlices ==
  ASSUME NEW S, NEW rows \in Seq(Seq(S)), Len(rows) # 0, NEW n \in Nat,
         \A k \in 1..Len(rows) : Len(rows[k]) = n
  PROVE  /\ FlattenSeq(rows) \in Seq(S)
         /\ Len(FlattenSeq(rows)) = Len(rows) * n
         /\ \A k \in 1..Len(rows) : SubSeq(FlattenSeq(rows), (k - 1) * n + 1, k * n) = rows[k]
<1> DEFINE m == Len(rows)
           g == CHOOSE h : IsFlat(rows, h)
<1>1. FlattenSeq(rows) = g[m]
  BY DEF FlattenSeq, IsFlat
<1>2. IsFlat(rows, g)
  BY FlatExists
<1> HIDE DEF g
<1>3. m \in Nat /\ m # 0
  OBVIOUS
<1>4. \A k \in 1..m : g[k] = IF k = 1 THEN rows[k] ELSE g[k - 1] \o rows[k]
  BY <1>2, Zenon DEF IsFlat
<1> DEFINE So(j) == /\ g[j] \in Seq(S)
                    /\ Len(g[j]) = j * n
                    /\ \A k \in 1..j : SubSeq(g[j], (k - 1) * n + 1, k * n) = rows[k]
           T == {j \in Nat : j + 1 <= m => So(j + 1)}
<1>5. \A k \in 1..m : rows[k] \in Seq(S) /\ Len(rows[k]) = n
  BY ElementOfSeq
<1> HIDE DEF m
<1>6. So(1)
  <2>1. 1 \in 1..m
    BY <1>3
  <2>2. g[1] = rows[1]
    BY <1>4, <2>1
  <2>3. rows[1] \in Seq(S) /\ Len(rows[1]) = n
    BY <1>5, <2>1
  <2>4. 1 * n = n /\ (1 - 1) * n + 1 = 0 + 1 /\ 0 + n = n
    OBVIOUS
  <2>5. SubSeq(<<>> \o rows[1], Len(<<>>) + 1, Len(<<>>) + Len(rows[1])) = rows[1]
    <3> DEFINE p == <<>>
               r == rows[1]
    <3>1. p \in Seq(S) /\ r \in Seq(S)
      BY <2>3
    <3> HIDE DEF p, r
    <3>2. SubSeq(p \o r, Len(p) + 1, Len(p) + Len(r)) = r
      BY <3>1, SliceRight
    <3> QED BY <3>2 DEF p, r
  <2>6. <<>> \o rows[1] = rows[1] /\ Len(<<>>) = 0
    BY <2>3, ConcatEmptySeq
  <2>7. SubSeq(g[1], (1 - 1) * n + 1, 1 * n) = rows[1]
    BY <2>2, <2>3, <2>4, <2>5, <2>6
  <2>8. \A k \in 1..1 : k = 1
    OBVIOUS
  <2> QED BY <2>2, <2>3, <2>4, <2>7, <2>8
<1>7. ASSUME NEW j \in Nat, j + 1 <= m, j # 0, So(j) PROVE So(j + 1)
  <2> DEFINE p == g[j]
             r == rows[j + 1]
  <2>1. j + 1 \in 1..m /\ j + 1 # 1 /\ (j + 1) - 1 = j
    BY <1>3, <1>7
  <2>2. g[j + 1] = p \o r
    BY <1>4, <2>1
  <2>3. r \in Seq(S) /\ Len(r) = n
    BY <1>5, <2>1
  <2>4. p \in Seq(S) /\ Len(p) = j * n
    BY <1>7
  <2>5. p \o r \in Seq(S) /\ Len(p \o r) = Len(p) + Len(r)
    BY <2>3, <2>4, ConcatProperties
  <2>6. (j + 1) * n = j * n + n
    BY Times
  <2>7. ASSUME NEW k \in 1..j PROVE SubSeq(p \o r, (k - 1) * n + 1, k * n) = rows[k]
    <3> DEFINE a == (k - 1) * n
               b == k * n
    <3>1. k - 1 \in Nat /\ k \in Nat /\ k <= j
      OBVIOUS
    <3>2. a \in Nat /\ b \in Nat
      BY <3>1, Times
    <3>3. b <= Len(p)
      BY <2>4, <3>1, TimesGrow
    <3>4. SubSeq(p, a + 1, b) = rows[k]
      BY <1>7
    <3> HIDE DEF a, b, p, r
    <3>5. SubSeq(p \o r, a + 1, b) = SubSeq(p, a + 1, b)
      BY <2>3, <2>4, <3>2, <3>3, SliceLeft
    <3>6. SubSeq(p \o r, a + 1, b) = rows[k]
      BY <3>4, <3>5
    <3> QED BY <3>6 DEF a, b
  <2>8. SubSeq(p \o r, ((j + 1) - 1) * n + 1, (j + 1) * n) = rows[j + 1]
    <3>1. SubSeq(p \o r, Len(p) + 1, Len(p) + Len(r)) = r
      <4> HIDE DEF p, r
      <4> QED BY <2>3, <2>4, SliceRight
    <3> QED BY <2>1, <2>3, <2>4, <2>6, <3>1
  <2>9. \A k \in 1..(j + 1) : k \in 1..j \/ k = j + 1
    OBVIOUS
  <2> HIDE DEF p
  <2>10. \A k \in 1..(j + 1) : SubSeq(p \o r, (k - 1) * n + 1, k * n) = rows[k]
    BY <2>7, <2>8, <2>9
  <2>11. Len(p \o r) = (j + 1) * n
    BY <2>3, <2>4, <2>5, <2>6
  <2> QED BY <2>2, <2>5, <2>10, <2>11
<1> HIDE DEF So
<1>8. 0 \in T
  BY <1>6
<1>9. ASSUME NEW j \in Nat, j \in T PROVE j + 1 \in T
  <2> SUFFICES ASSUME (j + 1) + 1 <= m PROVE So((j + 1) + 1)
    OBVIOUS
  <2>1. j + 1 <= m /\ j + 1 # 0 /\ j + 1 \in Nat
    BY <1>3
  <2>2. So(j + 1)
    BY <1>9, <2>1
  <2> QED BY <1>7, <2>1, <2>2
<1> HIDE DEF T
<1>10. Nat \subseteq T
  BY <1>8, <1>9, Induction
<1>11. So(m)
  <2>1. m - 1 \in Nat /\ (m - 1) + 1 = m /\ m <= m
    BY <1>3
  <2>2. m - 1 \in T
    BY <1>10, <2>1
  <2>3. (m - 1) + 1 <= m => So((m - 1) + 1)
    BY <2>2 DEF T
  <2> QED BY <2>1, <2>3
<1> QED BY <1>1, <1>11 DEF So, m

-----------------------------------------------------------------------------
(* Combinations.                                                             *)

Combo == [fields : Seq(Nat \X Nat), rows : Seq(Seq(Texts))]

Fine(c) == Constrains(c) => \A k \in DOMAIN c.rows : Len(c.rows[k]) = Len(c.fields)

LEMMA ComboIs ==
  ASSUME NEW c \in Combo, Fine(c), Constrains(c)
  PROVE  LET n == Len(c.fields)
             flat == FlattenSeq(c.rows) IN
         /\ n \in Nat /\ n # 0 /\ Len(c.rows) \in Nat
         /\ flat \in Seq(Texts)
         /\ Len(flat) = Len(c.rows) * n
         /\ \A k \in 1..Len(c.rows) : SubSeq(flat, (k - 1) * n + 1, k * n) = c.rows[k]
<1> DEFINE n == Len(c.fields)
           rows == c.rows
<1>1. rows \in Seq(Seq(Texts)) /\ c.fields \in Seq(Nat \X Nat)
  BY DEF Combo
<1>2. rows # <<>> /\ c.fields # <<>>
  BY DEF Constrains
<1>3. Len(rows) # 0 /\ n # 0 /\ n \in Nat /\ Len(rows) \in Nat
  BY <1>1, <1>2, EmptySeq
<1>4. \A k \in 1..Len(rows) : Len(rows[k]) = n
  <2>1. DOMAIN rows = 1..Len(rows)
    BY <1>1
  <2> QED BY <2>1 DEF Fine
<1> HIDE DEF n, rows
<1>5. /\ FlattenSeq(rows) \in Seq(Texts)
      /\ Len(FlattenSeq(rows)) = Len(rows) * n
      /\ \A k \in 1..Len(rows) : SubSeq(FlattenSeq(rows), (k - 1) * n + 1, k * n) = rows[k]
  BY <1>1, <1>3, <1>4, FlatSlices
<1> QED BY <1>3, <1>5 DEF n, rows

LEMMA ComboFits ==
  ASSUME NEW c \in Combo, Fine(c), Constrains(c)
  PROVE  /\ ComboFragment(c) \in Fragments /\ FlattenSeq(c.rows) \in Seq(Texts)
         /\ ComboFragment(c).holes = Len(FlattenSeq(c.rows))
<1> DEFINE n == Len(c.fields)
           flat == FlattenSeq(c.rows)
<1>1. /\ n \in Nat /\ Len(c.rows) \in Nat
      /\ flat \in Seq(Texts)
      /\ Len(flat) = Len(c.rows) * n
  BY ComboIs
<1>2. Len(flat) \in Nat
  <2> HIDE DEF flat
  <2> QED BY <1>1, LenProperties
<1>3. c.fields \in Seq(Nat \X Nat)
  BY DEF Combo
<1>4. ComboFragment(c) = [op |-> "combo", field |-> c.fields, tuples |-> Len(c.rows), holes |-> Len(flat)]
  BY <1>1 DEF ComboFragment
<1> HIDE DEF n, flat
<1> QED BY <1>1, <1>2, <1>3, <1>4 DEF Fragments, flat

IsComboLoop(q, g) ==
  g = [n \in 0..Len(q.combos) |->
         IF n = 0 THEN build_filter_predicates(q.filters)
         ELSE IF Constrains(q.combos[n])
              THEN Extended(g[n - 1], ComboFragment(q.combos[n]), FlattenSeq(q.combos[n].rows))
              ELSE g[n - 1]]

LEMMA WhereKeeps ==
  ASSUME NEW q, q.filters \in Seq(Filter), q.combos \in Seq(Combo),
         \A i \in 1..Len(q.combos) : Fine(q.combos[i]), NEW row
  PROVE  Keeps(Where(q), row) <=>
           /\ \A i \in 1..Len(q.filters) : is_active(q.filters[i]) =>
                Truth(Fragment(q.filters[i]), Params(q.filters[i]), row) = {TRUE}
           /\ \A i \in 1..Len(q.combos) : Constrains(q.combos[i]) =>
                Truth(ComboFragment(q.combos[i]), FlattenSeq(q.combos[i].rows), row) = {TRUE}
<1> DEFINE combos == q.combos
           n == Len(combos)
           start == build_filter_predicates(q.filters)
           A == {i \in 1..n : Constrains(combos[i])}
           frag == [i \in 1..n |-> ComboFragment(combos[i])]
           vals == [i \in 1..n |-> FlattenSeq(combos[i].rows)]
<1>1. n \in Nat
  OBVIOUS
<1>2. Pieces(n, A, frag, vals)
  <2> SUFFICES ASSUME NEW k \in 1..n, Constrains(combos[k])
               PROVE  /\ ComboFragment(combos[k]) \in Fragments /\ FlattenSeq(combos[k].rows) \in Seq(Texts)
                      /\ ComboFragment(combos[k]).holes = Len(FlattenSeq(combos[k].rows))
    BY DEF Pieces
  <2>1. combos[k] \in Combo /\ Fine(combos[k])
    BY ElementOfSeq
  <2> QED BY <2>1, ComboFits
<1>3. /\ Fits(start)
      /\ Keeps(start, row) <=>
           \A i \in 1..Len(q.filters) : is_active(q.filters[i]) =>
             Truth(Fragment(q.filters[i]), Params(q.filters[i]), row) = {TRUE}
  BY FiltersLoop
<1>4. start \in Wheres
  BY <1>3 DEF Fits
<1> DEFINE Next1(g, k) == IF Constrains(combos[k])
                          THEN Extended(g[k - 1], ComboFragment(combos[k]), FlattenSeq(combos[k].rows))
                          ELSE g[k - 1]
<1>5. ASSUME NEW g, NEW k \in 0..n, k # 0 PROVE Grown(g[k - 1], k, A, frag, vals) = Next1(g, k)
  <2>1. k \in 1..n
    BY <1>5
  <2>2. /\ frag[k] = ComboFragment(combos[k]) /\ vals[k] = FlattenSeq(combos[k].rows)
        /\ k \in A <=> Constrains(combos[k])
    BY <2>1
  <2> HIDE DEF frag, vals, A, n
  <2> QED BY <2>2 DEF Grown
<1>6. PICK g \in [0..n -> Wheres] : Run(g, start, n, A, frag, vals)
  <2> HIDE DEF n, A, frag, vals, start
  <2> QED BY <1>1, <1>2, <1>4, RunExists
<1>7. \A k \in 0..n : g[k] = IF k = 0 THEN start ELSE Next1(g, k)
  <2> HIDE DEF Next1, n, A, frag, vals, start
  <2> QED BY <1>5, <1>6 DEF Run
<1>8. IsComboLoop(q, g)
  <2>1. g = [k \in 0..n |-> g[k]]
    BY <1>6
  <2>2. g = [k \in 0..n |-> IF k = 0 THEN start ELSE Next1(g, k)]
    <3> HIDE DEF Next1, n, start
    <3> QED BY <1>7, <2>1
  <2> QED BY <2>2 DEF IsComboLoop
<1> DEFINE h == CHOOSE x : IsComboLoop(q, x)
<1>9. Where(q) = h[n]
  BY DEF Where, IsComboLoop
<1>10. IsComboLoop(q, h)
  BY <1>8
<1> HIDE DEF h
<1>11. \A k \in 0..n : h[k] = IF k = 0 THEN start ELSE Next1(h, k)
  BY <1>10, Zenon DEF IsComboLoop
<1>12. Run(h, start, n, A, frag, vals)
  <2>1. 0 \in 0..n
    BY <1>1
  <2> HIDE DEF Next1, n, A, frag, vals, start
  <2> QED BY <1>5, <1>11, <2>1 DEF Run
<1>13. Kept(h[n], start, n, A, frag, vals, row)
  <2> HIDE DEF n, A, frag, vals, start
  <2> QED BY <1>1, <1>2, <1>3, <1>12, RunKeeps
<1>14. ASSUME NEW k \in 1..n
       PROVE (k \in A => Truth(frag[k], vals[k], row) = {TRUE})
               <=> (Constrains(combos[k]) =>
                      Truth(ComboFragment(combos[k]), FlattenSeq(combos[k].rows), row) = {TRUE})
  OBVIOUS
<1>15. Keeps(h[n], row) <=>
         Keeps(start, row) /\ \A k \in 1..n : Constrains(combos[k]) =>
           Truth(ComboFragment(combos[k]), FlattenSeq(combos[k].rows), row) = {TRUE}
  <2> HIDE DEF n, A, frag, vals, start, combos
  <2> QED BY <1>13, <1>14, Zenon DEF Kept
<1> HIDE DEF h
<1> QED BY <1>3, <1>9, <1>15, Zenon
-----------------------------------------------------------------------------
(* What a piece means of a row.                                              *)

LEMMA ComboTruth ==
  ASSUME NEW c \in Combo, Fine(c), Constrains(c), NEW row
  PROVE  Truth(ComboFragment(c), FlattenSeq(c.rows), row) = {TRUE} <=>
           LET fs == c.fields
               tuple == [k \in DOMAIN fs |-> row[fs[k]]] IN
           Null \notin ToSet(tuple) /\ tuple \in ToSet(c.rows)
<1> DEFINE f == ComboFragment(c)
           n == Len(c.fields)
           flat == FlattenSeq(c.rows)
           tuple == [k \in DOMAIN c.fields |-> row[c.fields[k]]]
           among == \E k \in 1..Len(c.rows) : SubSeq(flat, (k - 1) * n + 1, k * n) = tuple
<1>1. DOMAIN c.fields = 1..n /\ DOMAIN c.rows = 1..Len(c.rows)
  BY DEF Combo
<1>2. f.op = "combo" /\ f.field = c.fields /\ f.tuples = Len(c.rows)
  BY DEF ComboFragment
<1>3. Truth(f, flat, row) = IF Null \in ToSet(tuple) THEN {} ELSE {among}
  <2> HIDE DEF f, flat
  <2> QED BY <1>1, <1>2 DEF Truth
<1>4. among <=> tuple \in ToSet(c.rows)
  <2>1. \A k \in 1..Len(c.rows) : SubSeq(flat, (k - 1) * n + 1, k * n) = c.rows[k]
    BY ComboIs
  <2> HIDE DEF flat, n, tuple
  <2> QED BY <1>1, <2>1 DEF ToSet
<1>5. among \in BOOLEAN
  OBVIOUS
<1> HIDE DEF among, tuple, f, flat
<1>6. Truth(f, flat, row) = {TRUE} <=> Null \notin ToSet(tuple) /\ among
  BY <1>3, <1>5
<1> QED BY <1>4, <1>6, Zenon DEF f, flat, tuple

LEMMA HoldsIsTruth ==
  ASSUME NEW op \in FilterOps \ Presence, NEW x, NEW vs
  PROVE  Holds(op, x, vs) \in BOOLEAN
<1>1. CASE op = "is"
  BY <1>1 DEF Holds
<1>2. CASE op = "isNot"
  BY <1>2 DEF Holds
<1>3. CASE op = "contains"
  BY <1>3 DEF Holds, Occurs
<1>4. CASE op = "notContains"
  BY <1>4 DEF Holds, Occurs
<1>5. CASE op = "startsWith"
  BY <1>5 DEF Holds, IsPrefix
<1>6. CASE op = "endsWith"
  BY <1>6 DEF Holds, IsSuffix, IsPrefix
<1>7. CASE op = "gt"
  BY <1>7 DEF Holds, Less
<1>8. CASE op = "gte"
  BY <1>8 DEF Holds, Less
<1>9. CASE op = "lt"
  BY <1>9 DEF Holds, Less
<1>10. CASE op = "lte"
  BY <1>10 DEF Holds, Less
<1>11. CASE op = "between"
  BY <1>11 DEF Holds, Less
<1>12. CASE op = "notBetween"
  BY <1>12 DEF Holds, Less
<1> QED BY <1>1, <1>2, <1>3, <1>4, <1>5, <1>6, <1>7, <1>8, <1>9, <1>10, <1>11, <1>12
        DEF FilterOps, In, Text, Compare, Between

LEMMA FilterTruth ==
  ASSUME NEW f \in Filter, NEW row
  PROVE  Truth(Fragment(f), Params(f), row) = {TRUE} <=> Means(f, row[f.field])
<1> DEFINE g == Fragment(f)
           x == row[f.field]
           vs == Params(f)
<1>1. f.op \in FilterOps
  BY FilterIs
<1>2. g.op = f.op /\ g.field = f.field
  BY DEF Fragment
<1> HIDE DEF g, vs
<1>3. CASE f.op = "isBlank"
  <2> DEFINE blank == x \in {Null, Blank}
  <2>1. f.op # "isNotBlank" /\ f.op # "combo" /\ f.op \notin Text
    BY <1>3 DEF Text
  <2>2. Truth(g, vs, row) = {blank}
    BY <1>2, <1>3, <2>1, Zenon DEF Truth
  <2>3. Means(f, x) <=> blank
    BY <1>3, <2>1, Zenon DEF Means
  <2>4. blank \in BOOLEAN
    OBVIOUS
  <2> HIDE DEF blank
  <2>5. Truth(g, vs, row) = {TRUE} <=> blank
    BY <2>2, <2>4
  <2> QED BY <2>3, <2>5, Zenon DEF g, vs
<1>4. CASE f.op = "isNotBlank"
  <2> DEFINE full == x \notin {Null, Blank}
  <2>1. f.op # "isBlank" /\ f.op # "combo" /\ f.op \notin Text
    BY <1>4 DEF Text
  <2>2. Truth(g, vs, row) = {full}
    BY <1>2, <1>4, <2>1, Zenon DEF Truth
  <2>3. Means(f, x) <=> full
    BY <1>4, <2>1, Zenon DEF Means
  <2>4. full \in BOOLEAN
    OBVIOUS
  <2> HIDE DEF full
  <2>5. Truth(g, vs, row) = {TRUE} <=> full
    BY <2>2, <2>4
  <2> QED BY <2>3, <2>5, Zenon DEF g, vs
<1>5. CASE f.op \in FilterOps \ Presence
  <2>1. f.op # "isBlank" /\ f.op # "isNotBlank" /\ f.op # "combo"
    BY <1>5 DEF FilterOps, Presence, In, Text, Compare, Between
  <2>2. Truth(g, vs, row) = IF x = Null THEN {} ELSE {Holds(f.op, x, vs)}
    BY <1>2, <2>1 DEF Truth
  <2>3. Holds(f.op, x, vs) \in BOOLEAN
    BY <1>5, HoldsIsTruth
  <2>4. Truth(g, vs, row) = {TRUE} <=> x # Null /\ Holds(f.op, x, vs)
    BY <2>2, <2>3
  <2>5. Means(f, x) <=> x # Null /\ Holds(f.op, x, vs)
    <3>1. CASE f.op \in Text
      <4>1. vs = <<Upper(f.values[1])>>
        BY <3>1 DEF Params, vs
      <4>2. Means(f, x) <=> x # Null /\ Holds(f.op, x, <<Upper(f.values[1])>>)
        BY <2>1, <3>1, Zenon DEF Means
      <4> QED BY <4>1, <4>2, Zenon
    <3>2. CASE f.op \notin Text
      <4>1. vs = f.values
        BY <3>2 DEF Params, vs
      <4>2. Means(f, x) <=> x # Null /\ Holds(f.op, x, f.values)
        BY <2>1, <3>2, Zenon DEF Means
      <4> QED BY <4>1, <4>2, Zenon
    <3> QED BY <3>1, <3>2
  <2> QED BY <2>4, <2>5, Zenon DEF g, vs
<1> QED BY <1>1, <1>3, <1>4, <1>5 DEF Presence

LEMMA ActiveIs ==
  ASSUME NEW f \in Filter
  PROVE  is_active(f) <=> Finished(f)
<1>1. CASE f.op \in In
  BY <1>1 DEF is_active, Finished
<1>2. CASE f.op \in Presence /\ f.op \notin In
  BY <1>2 DEF is_active, Finished
<1>3. CASE f.op \notin In /\ f.op \notin Presence
  BY <1>3 DEF is_active, Finished, ToSet
<1> QED BY <1>1, <1>2, <1>3

LEMMA FiltersHold ==
  ASSUME Described(detail), IsSql, out.q \in SemanticQueryRequest
  PROVE  FiltersMean
<1> SUFFICES ASSUME Compiled
             PROVE  LET q == out.q IN
                    \A row :
                      Keeps(out.sql, row) <=>
                        /\ \A i \in DOMAIN q.filters :
                             Finished(q.filters[i]) => Means(q.filters[i], row[q.filters[i].field])
                        /\ \A i \in DOMAIN q.combos : q.combos[i].fields # <<>> /\ q.combos[i].rows # <<>> =>
                             LET fs == q.combos[i].fields
                                 tuple == [k \in DOMAIN fs |-> row[fs[k]]] IN
                             Null \notin ToSet(tuple) /\ tuple \in ToSet(q.combos[i].rows)
  BY Zenon DEF FiltersMean
<1> DEFINE q == out.q
<1>1. q.filters \in Seq(Filter) /\ q.combos \in Seq(Combo)
  BY DEF SemanticQueryRequest, Combo, Texts
<1>2. ~ BadFilter(detail, q) /\ \E bridge : out.sql = Selecting(q, {bridge} \ {NoField}, Where(q), RowCap)
  <2> DEFINE sql == out.sql
  <2>1. Stated(q, sql)
    BY CompiledIs
  <2> HIDE DEF q, sql
  <2>2. ~ BadFilter(detail, q) /\ \E bridge : sql = Selecting(q, {bridge} \ {NoField}, Where(q), RowCap)
    BY <2>1, StatementIs
  <2> QED BY <2>2 DEF sql
<1>3. DOMAIN q.filters = 1..Len(q.filters) /\ DOMAIN q.combos = 1..Len(q.combos)
  BY <1>1
<1>4. \A i \in 1..Len(q.combos) : Fine(q.combos[i])
  BY <1>2, <1>3 DEF BadFilter, Fine
<1> HIDE DEF q
<1>5. out.sql.fragments = Where(q).fragments /\ out.sql.params = Where(q).params
  <2>1. PICK bridge : out.sql = Selecting(q, {bridge} \ {NoField}, Where(q), RowCap)
    BY <1>2
  <2> DEFINE sql == Selecting(q, {bridge} \ {NoField}, Where(q), RowCap)
  <2>2. sql.fragments = Where(q).fragments /\ sql.params = Where(q).params
    BY DEF Selecting
  <2> HIDE DEF sql
  <2>3. out.sql = sql
    BY <2>1 DEF sql
  <2> QED BY <2>2, <2>3, Zenon
<1> SUFFICES ASSUME NEW row
             PROVE  Keeps(out.sql, row) <=>
                      /\ \A i \in DOMAIN q.filters :
                           Finished(q.filters[i]) => Means(q.filters[i], row[q.filters[i].field])
                      /\ \A i \in DOMAIN q.combos : q.combos[i].fields # <<>> /\ q.combos[i].rows # <<>> =>
                           LET fs == q.combos[i].fields
                               tuple == [k \in DOMAIN fs |-> row[fs[k]]] IN
                           Null \notin ToSet(tuple) /\ tuple \in ToSet(q.combos[i].rows)
  BY DEF q
<1>6. Keeps(out.sql, row) <=> Keeps(Where(q), row)
  BY <1>5 DEF Keeps, Bound
<1>7. Keeps(Where(q), row) <=>
        /\ \A i \in 1..Len(q.filters) : is_active(q.filters[i]) =>
             Truth(Fragment(q.filters[i]), Params(q.filters[i]), row) = {TRUE}
        /\ \A i \in 1..Len(q.combos) : Constrains(q.combos[i]) =>
             Truth(ComboFragment(q.combos[i]), FlattenSeq(q.combos[i].rows), row) = {TRUE}
  BY <1>1, <1>4, WhereKeeps
<1>8. ASSUME NEW i \in 1..Len(q.filters)
      PROVE  (is_active(q.filters[i]) => Truth(Fragment(q.filters[i]), Params(q.filters[i]), row) = {TRUE})
               <=> (Finished(q.filters[i]) => Means(q.filters[i], row[q.filters[i].field]))
  <2> DEFINE f == q.filters[i]
  <2>1. f \in Filter
    BY <1>1, ElementOfSeq
  <2> HIDE DEF f
  <2>2. is_active(f) <=> Finished(f)
    BY <2>1, ActiveIs
  <2>3. Truth(Fragment(f), Params(f), row) = {TRUE} <=> Means(f, row[f.field])
    BY <2>1, FilterTruth
  <2> QED BY <2>2, <2>3, Zenon DEF f
<1>9. ASSUME NEW i \in 1..Len(q.combos)
      PROVE  (Constrains(q.combos[i]) =>
                Truth(ComboFragment(q.combos[i]), FlattenSeq(q.combos[i].rows), row) = {TRUE})
               <=> (q.combos[i].fields # <<>> /\ q.combos[i].rows # <<>> =>
                      LET fs == q.combos[i].fields
                          tuple == [k \in DOMAIN fs |-> row[fs[k]]] IN
                      Null \notin ToSet(tuple) /\ tuple \in ToSet(q.combos[i].rows))
  <2> DEFINE c == q.combos[i]
  <2>1. c \in Combo /\ Fine(c)
    BY <1>1, <1>4, ElementOfSeq
  <2> HIDE DEF c
  <2>2. CASE Constrains(c)
    <3>1. Truth(ComboFragment(c), FlattenSeq(c.rows), row) = {TRUE} <=>
            LET fs == c.fields
                tuple == [k \in DOMAIN fs |-> row[fs[k]]] IN
            Null \notin ToSet(tuple) /\ tuple \in ToSet(c.rows)
      BY <2>1, <2>2, ComboTruth
    <3>2. c.fields # <<>> /\ c.rows # <<>>
      BY <2>2 DEF Constrains
    <3> QED BY <2>2, <3>1, <3>2, Zenon DEF c
  <2>3. CASE ~ Constrains(c)
    <3>1. ~ (c.fields # <<>> /\ c.rows # <<>>)
      BY <2>3 DEF Constrains
    <3> QED BY <2>3, <3>1, Zenon DEF c
  <2> QED BY <2>2, <2>3
<1> QED BY <1>3, <1>6, <1>7, <1>8, <1>9, Zenon

-----------------------------------------------------------------------------
(**** Semantic queries: the machine and its theorems.                  ****)

(* The invariant of the machine.                                             *)

QueryInv ==
  /\ detail = NoView \/ \E v \in View : detail = describe_semantic_view(v)
  /\ doc # NoDoc => out = Nothing
  /\ \/ out = Nothing
     \/ /\ \E v \in View : detail = describe_semantic_view(v)
        /\ IsSql /\ out.q \in SemanticQueryRequest
     \/ out.kind = "values" /\ (VALUES_CAP < RowCap => IsValues)

LEMMA PageFits ==
  ASSUME VALUES_CAP < RowCap, NEW page \in 1..VALUES_CAP, NEW field, NEW search,
         NEW bridges, NEW where
  PROVE  Selecting(ValuesRequest(field, search, page), bridges, where, RowCap).limit = page + 1
<1>1. page + 1 # 0 /\ ~ (page + 1 > RowCap)
  BY QueryAssumption
<1>2. ValuesRequest(field, search, page).limit = page + 1
  BY DEF ValuesRequest, Plain
<1> QED BY <1>1, <1>2 DEF Selecting

LEMMA ValuesLimit ==
  ASSUME VALUES_CAP < RowCap, NEW d, NEW field, NEW search, NEW page \in 1..VALUES_CAP,
         NEW sql, sql = build_semantic_sql(d, ValuesRequest(field, search, page), RowCap),
         sql.refused = ""
  PROVE  sql.limit = page + 1
<1> DEFINE q == ValuesRequest(field, search, page)
<1>1. \E B : sql = Selecting(q, B, Where(q), RowCap)
  <2> HIDE DEF q
  <2> QED BY BuiltIs DEF q
<1>2. PICK B, W : sql = Selecting(q, B, W, RowCap)
  BY <1>1
<1> QED BY <1>2, PageFits, Zenon

DescribedView == \E v \in View : detail = describe_semantic_view(v)

LEMMA ViewIs ==
  ASSUME DescribedView
  PROVE  Described(detail) /\ Question(detail) \subseteq SemanticQueryRequest
<1>1. PICK v \in View : detail = describe_semantic_view(v)
  BY DEF DescribedView
<1> QED BY <1>1, DescribedIs, InputAssumption

allVars == <<queryVars, doc, ui>>

LEMMA QueryStarts == VisualsInit => QueryInv
  BY DEF VisualsInit, QueryInit, QueryInv, NoDoc

LEMMA DescribeKeeps ==
  ASSUME QueryInv, Idle, NEW v \in View, Describe(v), UNCHANGED <<doc, ui>>
  PROVE  QueryInv'
  BY DEF QueryInv, Idle, Describe

LEMMA AskKeeps ==
  ASSUME QueryInv, doc = NoDoc, detail # NoView, NEW q \in Question(detail), query_semantic(q),
         UNCHANGED <<doc, ui>>
  PROVE  QueryInv'
<1>1. DescribedView
  BY DEF QueryInv, DescribedView
<1>2. q \in SemanticQueryRequest
  BY <1>1, ViewIs
<1>3. /\ out' = [kind |-> "sql", q |-> q, sql |-> build_semantic_sql(detail, q, RowCap),
                 through |-> bridged_through(detail, q)]
      /\ detail' = detail
  BY DEF query_semantic
<1>4. out'.q = q
  BY <1>3
<1>5. IsSql'
  BY <1>3, <1>4, Zenon DEF IsSql
<1> QED BY <1>1, <1>2, <1>3, <1>4, <1>5 DEF QueryInv, DescribedView

LEMMA ListKeeps ==
  ASSUME QueryInv, doc = NoDoc, detail # NoView,
         NEW f \in Picker(detail), NEW s \in Search, NEW n \in Limit, NEW c \in Column,
         field_values(f, s, n, c), UNCHANGED <<doc, ui>>
  PROVE  QueryInv'
<1>1. PICK page \in {Clamp(n)} :
        \E sql \in {build_semantic_sql(detail, ValuesRequest(f, s, page), RowCap)} :
          /\ sql.refused = ""
          /\ AnyRows(page, sql.limit, {x \in c : Keeps(sql, f :> x)}, s # Blank)
  BY DEF field_values
<1>2. PICK sql \in {build_semantic_sql(detail, ValuesRequest(f, s, page), RowCap)} :
        /\ sql.refused = ""
        /\ AnyRows(page, sql.limit, {x \in c : Keeps(sql, f :> x)}, s # Blank)
  BY <1>1
<1>3. page \in 1..VALUES_CAP
  BY QueryAssumption, ClampIs
<1> DEFINE matching == {x \in c : Keeps(sql, f :> x)}
           searched == s # Blank
<1>4. matching \in SUBSET c /\ searched \in BOOLEAN
  OBVIOUS
<1> HIDE DEF matching, searched
<1>5. AnyRows(page, sql.limit, matching, searched)
  BY <1>2 DEF matching, searched
<1>6. PICK rows \in kSubset(Min({sql.limit, Cardinality(matching)}), matching) :
        out' = [kind |-> "values", page |-> page, matching |-> matching, searched |-> searched,
                answer |-> ValuesAnswer(page, rows)]
  BY <1>5 DEF AnyRows
<1>7. out'.kind = "values" /\ detail' = detail
  BY <1>5, <1>6 DEF AnyRows
<1>8. ASSUME VALUES_CAP < RowCap PROVE IsValues'
  <2>1. sql.limit = page + 1
    BY ZenonT(60), <1>2, <1>3, <1>8, ValuesLimit
  <2>2. rows \in kSubset(Min({page + 1, Cardinality(matching)}), matching)
    BY <1>6, <2>1
  <2> QED BY <1>3, <1>4, <1>6, <2>2 DEF IsValues
<1> QED BY <1>7, <1>8 DEF QueryInv

LEMMA QuerySteps == QueryInv /\ [VisualsNext]_allVars => QueryInv'
<1> SUFFICES ASSUME QueryInv, [VisualsNext]_allVars PROVE QueryInv'
  OBVIOUS
<1>1. CASE UNCHANGED allVars
  BY <1>1 DEF allVars, queryVars, QueryInv, IsSql, IsValues
<1>2. CASE doc = NoDoc /\ QueryNext /\ UNCHANGED <<doc, ui>>
  <2>1. ASSUME NEW v \in View, Idle, Describe(v) PROVE QueryInv'
    BY <1>2, <2>1, DescribeKeeps
  <2>2. ASSUME detail # NoView, NEW q \in Question(detail), query_semantic(q) PROVE QueryInv'
    BY <1>2, <2>2, AskKeeps
  <2>3. ASSUME detail # NoView, NEW f \in Picker(detail), NEW s \in Search, NEW n \in Limit,
               NEW c \in Column, field_values(f, s, n, c)
        PROVE  QueryInv'
    BY <1>2, <2>3, ListKeeps
  <2>4. CASE Close
    BY <1>2, <2>4 DEF Close, QueryInv
  <2> QED BY <1>2, <2>1, <2>2, <2>3, <2>4 DEF QueryNext
<1>3. ASSUME NEW d \in Document(detail), Idle, OpenReport(d) PROVE QueryInv'
  BY <1>3 DEF Idle, OpenReport, QueryInv
<1>4. CASE Click
  BY <1>4 DEF Click, QueryInv
<1>5. CASE doc # NoDoc /\ CloseReport
  BY <1>5 DEF CloseReport, QueryInv
<1> QED BY <1>1, <1>2, <1>3, <1>4, <1>5 DEF VisualsNext

LEMMA QueryInvHolds == VisualsSpec => []QueryInv
  BY QueryStarts, QuerySteps, PTL DEF VisualsSpec, allVars

LEMMA InvImplies ==
  ASSUME QueryInv
  PROVE  JoinVerdictRight /\ AdviceWorks /\ AskedIsShown /\ (VALUES_CAP < RowCap => ValuesHonest)
<1>1. CASE out = Nothing
  BY <1>1 DEF Nothing, Compiled, Blocked, JoinVerdictRight, AdviceWorks, AskedIsShown, ValuesHonest
<1>2. CASE DescribedView /\ IsSql /\ out.q \in SemanticQueryRequest
  <2>1. JoinVerdictRight /\ AdviceWorks /\ AskedIsShown
    BY <1>2, ViewIs, VerdictHolds, AdviceHolds, ShownHolds
  <2>2. out.kind = "sql"
    BY <1>2 DEF IsSql
  <2>3. ValuesHonest
    BY <2>2 DEF ValuesHonest
  <2> QED BY <2>1, <2>3
<1>3. CASE out.kind = "values" /\ (VALUES_CAP < RowCap => IsValues)
  BY <1>3, HonestHolds DEF Compiled, Blocked, JoinVerdictRight, AdviceWorks, AskedIsShown
<1> QED BY <1>1, <1>2, <1>3 DEF QueryInv, DescribedView

(* A request for a view's fields is compiled as it stands exactly if every   *)
(* base reaches every dimension, else through an entity that does, and is    *)
(* refused only if there is none of use (joins.plan_join and query.py's      *)
(* repair of it), whatever the view, its relationships and the question.     *)
THEOREM VerdictCorrect == VisualsSpec => []JoinVerdictRight
<1>1. QueryInv => JoinVerdictRight
  BY InvImplies
<1> QED BY <1>1, QueryInvHolds, PTL

(* Each piece of advice that comes with a refused join, followed alone, takes*)
(* away some of what hinders the entity the message names, and hinders no    *)
(* other by more than a field taken in exchange; the request is refused again*)
(* only for what is left (query.py's message: one blocked field or the       *)
(* metrics that are to make way, and fields of one table if there are none). *)
THEOREM AdviceCorrect == VisualsSpec => []AdviceWorks
<1>1. QueryInv => AdviceWorks
  BY InvImplies
<1> QED BY <1>1, QueryInvHolds, PTL

(* The columns of a compiled statement are those that were asked for, the    *)
(* bridge is not among them, and an ORDER BY by a bare name means one of     *)
(* them (query.build_semantic_sql and its EXCLUDE).                          *)
THEOREM ShownCorrect == VisualsSpec => []AskedIsShown
<1>1. QueryInv => AskedIsShown
  BY InvImplies
<1> QED BY <1>1, QueryInvHolds, PTL

(* Whatever filters and combinations are put together, finished or not, each *)
(* placeholder meets its own values: the statement keeps a row exactly if    *)
(* each of them does (predicates.build_filter_predicates and query.py's loop *)
(* over the combinations).                                                   *)
THEOREM FiltersCorrect == VisualsSpec => []FiltersMean
<1>1. QueryInv => FiltersMean
  <2> SUFFICES ASSUME QueryInv PROVE FiltersMean
    OBVIOUS
  <2>1. CASE DescribedView /\ IsSql /\ out.q \in SemanticQueryRequest
    BY <2>1, ViewIs, FiltersHold
  <2>2. CASE out = Nothing \/ out.kind = "values"
    <3>1. out.kind # "sql"
      BY <2>2 DEF Nothing
    <3> QED BY <3>1, Zenon DEF Compiled, FiltersMean
  <2> QED BY <2>1, <2>2 DEF QueryInv, DescribedView
<1> QED BY <1>1, QueryInvHolds, PTL

(* The values that are listed for a field are real, none is missing without  *)
(* the answer saying so, and it says so only if some are (routes.py, values), *)
(* as long as the page's cap is below the cap of rows.                       *)
THEOREM ValuesCorrect == VALUES_CAP < RowCap => (VisualsSpec => []ValuesHonest)
<1> SUFFICES ASSUME VALUES_CAP < RowCap PROVE VisualsSpec => []ValuesHonest
  OBVIOUS
<1>1. QueryInv => ValuesHonest
  BY InvImplies
<1> QED BY <1>1, QueryInvHolds, PTL

-----------------------------------------------------------------------------
(**** Reports: the workbook.                                           ****)

(* The pages' visuals, one after another.                                    *)

(* Whatever the rows' lengths: each of them is found in the flat sequence,   *)
(* and those of two rows at two places of it.                                *)
Placed(rows, flat, j) ==
  /\ \A r \in 1..j : \A a \in 1..Len(rows[r]) : \E i \in 1..Len(flat) : flat[i] = rows[r][a]
  /\ \A r, t \in 1..j : \A a \in 1..Len(rows[r]), b \in 1..Len(rows[t]) : r < t =>
       \E i, k \in 1..Len(flat) : i # k /\ flat[i] = rows[r][a] /\ flat[k] = rows[t][b]

LEMMA FlatPlaces ==
  ASSUME NEW S, NEW rows \in Seq(Seq(S)), Len(rows) # 0
  PROVE  FlattenSeq(rows) \in Seq(S) /\ Placed(rows, FlattenSeq(rows), Len(rows))
<1> DEFINE m == Len(rows)
           g == CHOOSE h : IsFlat(rows, h)
<1>1. FlattenSeq(rows) = g[m]
  BY DEF FlattenSeq, IsFlat
<1>2. IsFlat(rows, g)
  BY FlatExists
<1> HIDE DEF g
<1>3. m \in Nat /\ m # 0
  OBVIOUS
<1>4. \A k \in 1..m : g[k] = IF k = 1 THEN rows[k] ELSE g[k - 1] \o rows[k]
  BY <1>2, Zenon DEF IsFlat
<1>5. \A k \in 1..m : rows[k] \in Seq(S)
  BY ElementOfSeq
<1> DEFINE So(j) == g[j] \in Seq(S) /\ Placed(rows, g[j], j)
           T == {j \in Nat : j + 1 <= m => So(j + 1)}
<1> HIDE DEF m
<1>6. So(1)
  <2>1. 1 \in 1..m
    BY <1>3
  <2>2. g[1] = rows[1]
    BY <1>4, <2>1
  <2>3. rows[1] \in Seq(S)
    BY <1>5, <2>1
  <2>4. \A r \in 1..1 : r = 1
    OBVIOUS
  <2>5. \A r, t \in 1..1 : ~ (r < t)
    OBVIOUS
  <2> QED BY <2>2, <2>3, <2>4, <2>5 DEF Placed
<1>7. ASSUME NEW j \in Nat, j + 1 <= m, j # 0, So(j) PROVE So(j + 1)
  <2> DEFINE p == g[j]
             row == rows[j + 1]
             n == Len(p)
  <2>1. j + 1 \in 1..m /\ j + 1 # 1 /\ (j + 1) - 1 = j
    BY <1>3, <1>7
  <2>2. g[j + 1] = p \o row
    BY <1>4, <2>1
  <2>3. row \in Seq(S) /\ p \in Seq(S) /\ Placed(rows, p, j)
    BY <1>5, <1>7, <2>1
  <2> HIDE DEF p
  <2> DEFINE long == p \o row
  <2>4. /\ long \in Seq(S) /\ Len(long) = n + Len(row) /\ n \in Nat /\ Len(row) \in Nat
        /\ \A i \in 1..Len(long) : long[i] = IF i <= n THEN p[i] ELSE row[i - n]
    BY <2>3, ConcatProperties
  <2>5. \A i \in 1..n : i \in 1..Len(long) /\ long[i] = p[i]
    <3> HIDE DEF long, row, n
    <3> QED BY <2>4
  <2>6. \A b \in 1..Len(row) : n + b \in 1..Len(long) /\ long[n + b] = row[b]
    <3> HIDE DEF long, row, n
    <3> SUFFICES ASSUME NEW b \in 1..Len(row) PROVE n + b \in 1..Len(long) /\ long[n + b] = row[b]
      OBVIOUS
    <3>1. n + b \in 1..Len(long) /\ ~ (n + b <= n) /\ (n + b) - n = b
      BY <2>4
    <3> QED BY <2>4, <3>1
  <2>7. \A r \in 1..(j + 1) : r \in 1..j \/ r = j + 1
    OBVIOUS
  <2> HIDE DEF long, n
  <2>8. ASSUME NEW r \in 1..(j + 1), NEW a \in 1..Len(rows[r])
        PROVE  \E i \in 1..Len(long) : long[i] = rows[r][a]
    <3>1. CASE r \in 1..j
      <4>1. PICK i \in 1..n : p[i] = rows[r][a]
        BY <2>3, <2>8, <3>1 DEF Placed, n
      <4> QED BY <2>5, <4>1
    <3>2. CASE r = j + 1
      BY <2>6, <2>8, <3>2
    <3> QED BY <2>7, <3>1, <3>2
  <2>9. ASSUME NEW r \in 1..(j + 1), NEW t \in 1..(j + 1), r < t,
               NEW a \in 1..Len(rows[r]), NEW b \in 1..Len(rows[t])
        PROVE  \E i, k \in 1..Len(long) : i # k /\ long[i] = rows[r][a] /\ long[k] = rows[t][b]
    <3>1. r \in 1..j
      BY <2>9
    <3>2. CASE t \in 1..j
      <4>1. PICK i \in 1..n, k \in 1..n : i # k /\ p[i] = rows[r][a] /\ p[k] = rows[t][b]
        BY <2>3, <2>9, <3>1, <3>2 DEF Placed, n
      <4> QED BY <2>5, <4>1
    <3>3. CASE t = j + 1
      <4>1. PICK i \in 1..n : p[i] = rows[r][a]
        BY <2>3, <2>9, <3>1 DEF Placed, n
      <4>2. b \in 1..Len(row)
        BY <2>9, <3>3
      <4>3. n + b # i /\ n + b \in 1..Len(long) /\ long[n + b] = row[b]
        BY <2>4, <2>6, <4>1, <4>2
      <4>4. i \in 1..Len(long) /\ long[i] = rows[r][a]
        BY <2>5, <4>1
      <4> QED BY <3>3, <4>3, <4>4
    <3> QED BY <2>7, <3>2, <3>3
  <2>10. Placed(rows, long, j + 1)
    BY <2>8, <2>9 DEF Placed
  <2> QED BY <2>2, <2>4, <2>10 DEF long
<1> HIDE DEF So
<1>8. 0 \in T
  BY <1>6
<1>9. ASSUME NEW j \in Nat, j \in T PROVE j + 1 \in T
  <2> SUFFICES ASSUME (j + 1) + 1 <= m PROVE So((j + 1) + 1)
    OBVIOUS
  <2>1. j + 1 <= m /\ j + 1 # 0 /\ j + 1 \in Nat
    BY <1>3
  <2>2. So(j + 1)
    BY <1>9, <2>1
  <2> QED BY <1>7, <2>1, <2>2
<1> HIDE DEF T
<1>10. Nat \subseteq T
  BY <1>8, <1>9, Induction
<1>11. So(m)
  <2>1. m - 1 \in Nat /\ (m - 1) + 1 = m /\ m <= m
    BY <1>3
  <2>2. m - 1 \in T
    BY <1>10, <2>1
  <2>3. (m - 1) + 1 <= m => So((m - 1) + 1)
    BY <2>2 DEF T
  <2> QED BY <2>1, <2>3
<1> QED BY <1>1, <1>11 DEF So, m

LEMMA VisualsPlaced ==
  ASSUME NEW d, DocumentTyped(d), d.pages # <<>>
  PROVE  /\ \A p \in DOMAIN d.pages : \A v \in ToSet(d.pages[p].visuals) : v \in ToSet(Visuals(d))
         /\ \A p, q \in DOMAIN d.pages : p # q =>
              \A v \in ToSet(d.pages[p].visuals), w \in ToSet(d.pages[q].visuals) :
                \E i, k \in DOMAIN Visuals(d) : i # k /\ Visuals(d)[i] = v /\ Visuals(d)[k] = w
<1> DEFINE n == Len(d.pages)
           S == UNION {ToSet(d.pages[p].visuals) : p \in DOMAIN d.pages}
           rows == [p \in DOMAIN d.pages |-> d.pages[p].visuals]
           flat == FlattenSeq(rows)
<1>1. d.pages \in Seq(ToSet(d.pages))
  BY DEF DocumentTyped, Listed
<1>2. n \in Nat /\ DOMAIN d.pages = 1..n
  BY <1>1, LenProperties
<1>3. n # 0
  BY <1>1, EmptySeq
<1>4. ASSUME NEW p \in DOMAIN d.pages
      PROVE  /\ d.pages[p].visuals \in Seq(ToSet(d.pages[p].visuals))
             /\ d.pages[p].visuals \in Seq(S)
  <2>1. d.pages[p] \in ToSet(d.pages)
    BY DEF ToSet
  <2>2. d.pages[p].visuals \in Seq(ToSet(d.pages[p].visuals))
    BY <2>1 DEF DocumentTyped, Listed
  <2>3. ToSet(d.pages[p].visuals) \subseteq S
    OBVIOUS
  <2> HIDE DEF S
  <2> QED BY <2>2, <2>3, SeqMonotonic
<1>5. rows \in [1..n -> Seq(S)]
  <2> HIDE DEF S
  <2> QED BY <1>2, <1>4
<1>6. rows \in Seq(Seq(S)) /\ Len(rows) = n
  <2> HIDE DEF rows, S, n
  <2> QED BY <1>2, <1>5, TupleIsSeq
<1>7. flat \in Seq(S) /\ Placed(rows, flat, n)
  <2> HIDE DEF rows, S, n
  <2> QED BY <1>3, <1>6, FlatPlaces
<1>8. DOMAIN flat = 1..Len(flat)
  <2> HIDE DEF flat, S
  <2> QED BY <1>7, LenProperties
<1>9. Visuals(d) = flat
  BY DEF Visuals
<1>10. ASSUME NEW p \in DOMAIN d.pages, NEW v \in ToSet(d.pages[p].visuals)
       PROVE  p \in 1..n /\ \E a \in 1..Len(rows[p]) : v = rows[p][a]
  <2>1. DOMAIN d.pages[p].visuals = 1..Len(d.pages[p].visuals)
    BY <1>4, LenProperties
  <2>2. rows[p] = d.pages[p].visuals
    OBVIOUS
  <2> HIDE DEF rows
  <2> QED BY <1>2, <2>1, <2>2 DEF ToSet
<1> HIDE DEF rows, flat, n
<1>11. ASSUME NEW p \in DOMAIN d.pages, NEW v \in ToSet(d.pages[p].visuals)
       PROVE  v \in ToSet(flat)
  <2>1. PICK a \in 1..Len(rows[p]) : v = rows[p][a]
    BY <1>10
  <2>2. p \in 1..n
    BY <1>10
  <2> QED BY <1>7, <1>8, <2>1, <2>2 DEF Placed, ToSet
<1>12. ASSUME NEW p \in DOMAIN d.pages, NEW q \in DOMAIN d.pages, p # q,
              NEW v \in ToSet(d.pages[p].visuals), NEW w \in ToSet(d.pages[q].visuals)
       PROVE  \E i, k \in DOMAIN flat : i # k /\ flat[i] = v /\ flat[k] = w
  <2>1. PICK a \in 1..Len(rows[p]) : v = rows[p][a]
    BY <1>10
  <2>2. PICK b \in 1..Len(rows[q]) : w = rows[q][b]
    BY <1>10
  <2>3. p \in 1..n /\ q \in 1..n
    BY <1>10
  <2>4. CASE p < q
    <3>1. PICK i \in 1..Len(flat), k \in 1..Len(flat) : i # k /\ flat[i] = v /\ flat[k] = w
      BY <1>7, <2>1, <2>2, <2>3, <2>4 DEF Placed
    <3> QED BY <1>8, <3>1
  <2>5. CASE q < p
    <3>1. PICK i \in 1..Len(flat), k \in 1..Len(flat) : i # k /\ flat[i] = w /\ flat[k] = v
      BY <1>7, <2>1, <2>2, <2>3, <2>5 DEF Placed
    <3> QED BY <1>8, <3>1
  <2>6. p < q \/ q < p
    BY <1>2, <1>12, <2>3
  <2> QED BY <2>4, <2>5, <2>6
<1> QED BY <1>9, <1>11, <1>12

(* No two pages have a visual of the same id.                                *)
LEMMA IdsApart ==
  ASSUME NEW d, DocumentTyped(d), parse_definition(d), NEW p \in DOMAIN d.pages, NEW q \in DOMAIN d.pages,
         NEW v \in ToSet(d.pages[p].visuals), NEW w \in ToSet(d.pages[q].visuals), v.id = w.id
  PROVE  p = q
<1> SUFFICES ASSUME p # q PROVE FALSE
  OBVIOUS
<1>1. d.pages # <<>> /\ IsInjective([i \in DOMAIN Visuals(d) |-> Visuals(d)[i].id])
  BY DEF parse_definition
<1>2. \A r, t \in DOMAIN d.pages : r # t =>
        \A x \in ToSet(d.pages[r].visuals), y \in ToSet(d.pages[t].visuals) :
          \E i, k \in DOMAIN Visuals(d) : i # k /\ Visuals(d)[i] = x /\ Visuals(d)[k] = y
  BY <1>1, VisualsPlaced
<1>3. PICK i \in DOMAIN Visuals(d), k \in DOMAIN Visuals(d) : i # k /\ Visuals(d)[i] = v /\ Visuals(d)[k] = w
  <2> DEFINE flat == Visuals(d)
             P == ToSet(d.pages[p].visuals)
             Q == ToSet(d.pages[q].visuals)
  <2>1. \A x \in P, y \in Q : \E i, k \in DOMAIN flat : i # k /\ flat[i] = x /\ flat[k] = y
    BY <1>2
  <2>2. v \in P /\ w \in Q
    OBVIOUS
  <2> HIDE DEF flat, P, Q
  <2>3. \E i, k \in DOMAIN flat : i # k /\ flat[i] = v /\ flat[k] = w
    BY <2>1, <2>2
  <2> QED BY <2>3 DEF flat
<1> QED BY <1>1, <1>3 DEF IsInjective
-----------------------------------------------------------------------------
(* The open report and what has been clicked.                                *)

UiWhole ==
  /\ ui = [page |-> ui.page, drill |-> ui.drill, cross |-> ui.cross, slicers |-> ui.slicers]
  /\ ui.cross = [source |-> ui.cross.source, field |-> ui.cross.field, value |-> ui.cross.value]

(* The selected mark is one of a visual on the page that is shown.           *)
MarkOnPage == ui.cross # NoMark => \E x \in Shown(ui.page) : x.id = ui.cross.source

ReportInv ==
  doc # NoDoc =>
    /\ DescribedView /\ DocumentTyped(doc) /\ parse_definition(doc)
    /\ UiWhole /\ ui.page \in DOMAIN doc.pages /\ MarkOnPage

LEMMA MarkIs ==
  ASSUME NEW v, NEW value, onMark(v, value)
  PROVE  \/ \E D : ui' = [ui EXCEPT !.drill = D]
         \/ \E m : /\ ui' = [ui EXCEPT !.cross = m]
                   /\ m = NoMark \/ m = [source |-> v.id, field |-> m.field, value |-> m.value]
<1> DEFINE drill == ui.drill[v.id]
           axis == Refs(v.wells, "axis")
           ref == IF axis = <<>> THEN NoField ELSE axis[1]
           h == hierarchyById(doc, ref[2])
           depth == depthOf(drill, ref[2])
           wells == resolveWells(v.wells, doc, drill)
           first == Refs(wells, "axis") \o Refs(wells, "legend")
           mark == [source |-> v.id, field |-> first[1], value |-> value]
           path == [hierarchy |-> ref[2],
                    path |-> (IF drill.hierarchy = ref[2] THEN drill.path ELSE <<>>)
                               \o <<[field |-> currentLevel(h, depth), value |-> value]>>]
<1>1. \/ ui' = [ui EXCEPT !.drill = [ui.drill EXCEPT ![v.id] = path]]
      \/ ui' = [ui EXCEPT !.cross = IF ui.cross = mark THEN NoMark ELSE mark]
  BY DEF onMark
<1>2. mark = [source |-> v.id, field |-> mark.field, value |-> mark.value]
  OBVIOUS
<1> HIDE DEF mark, path
<1> QED BY <1>1, <1>2

LEMMA OpenKeeps ==
  ASSUME QueryInv, detail # NoView, NEW d \in Document(detail), OpenReport(d)
  PROVE  ReportInv'
<1> DEFINE m == migrate_definition(d)
<1>1. doc' = m /\ ui' = FreshUi(m) /\ detail' = detail /\ parse_definition(m)
  BY DEF OpenReport
<1>2. PICK v \in View : detail = describe_semantic_view(v)
  BY DEF QueryInv
<1>3. DocumentTyped(m)
  BY <1>1, <1>2, UpgradedAssumption
<1> HIDE DEF m
<1>4. m.pages # <<>> /\ m.pages \in Seq(ToSet(m.pages))
  BY <1>1, <1>3 DEF parse_definition, DocumentTyped, Listed
<1>5. 1 \in DOMAIN m.pages
  <2> DEFINE S == ToSet(m.pages)
  <2>1. m.pages \in Seq(S)
    BY <1>4
  <2> HIDE DEF S
  <2>2. Len(m.pages) \in Nat /\ Len(m.pages) # 0 /\ DOMAIN m.pages = 1..Len(m.pages)
    BY <1>4, <2>1, EmptySeq, LenProperties
  <2> QED BY <2>2
<1>6. /\ ui'.page = 1 /\ ui'.cross = NoMark
      /\ ui' = [page |-> ui'.page, drill |-> ui'.drill, cross |-> ui'.cross, slicers |-> ui'.slicers]
  BY <1>1 DEF FreshUi
<1>7. UiWhole'
  BY <1>6 DEF UiWhole, NoMark
<1>8. DescribedView'
  BY <1>1, <1>2 DEF DescribedView
<1> QED BY <1>1, <1>3, <1>5, <1>6, <1>7, <1>8 DEF ReportInv, MarkOnPage

LEMMA ClickKeeps ==
  ASSUME ReportInv, Click
  PROVE  ReportInv'
<1>1. /\ DescribedView /\ DocumentTyped(doc) /\ parse_definition(doc)
      /\ UiWhole /\ ui.page \in DOMAIN doc.pages /\ MarkOnPage
  BY DEF ReportInv, Click
<1>2. doc' = doc /\ detail' = detail
  BY DEF Click
<1>3. DescribedView' /\ DocumentTyped(doc') /\ parse_definition(doc')
  BY <1>1, <1>2 DEF DescribedView
<1> SUFFICES UiWhole' /\ ui'.page \in DOMAIN doc.pages /\ MarkOnPage'
  BY <1>2, <1>3 DEF ReportInv
<1> DEFINE Rest(u) == u = [page |-> u.page, drill |-> u.drill, cross |-> u.cross, slicers |-> u.slicers]
<1>4. Rest(ui)
  BY <1>1 DEF UiWhole
<1>5. ASSUME NEW D, ui' = [ui EXCEPT !.drill = D] PROVE UiWhole' /\ ui'.page \in DOMAIN doc.pages /\ MarkOnPage'
  <2>1. Rest(ui') /\ ui'.page = ui.page /\ ui'.cross = ui.cross
    BY <1>4, <1>5
  <2> QED BY <1>1, <1>2, <2>1 DEF UiWhole, MarkOnPage, Shown
<1>6. ASSUME NEW S, ui' = [ui EXCEPT !.slicers = S]
      PROVE  UiWhole' /\ ui'.page \in DOMAIN doc.pages /\ MarkOnPage'
  <2>1. Rest(ui') /\ ui'.page = ui.page /\ ui'.cross = ui.cross
    BY <1>4, <1>6
  <2> QED BY <1>1, <1>2, <2>1 DEF UiWhole, MarkOnPage, Shown
<1>7. ASSUME NEW v \in Shown(ui.page), NEW m, ui' = [ui EXCEPT !.cross = m],
             m = NoMark \/ m = [source |-> v.id, field |-> m.field, value |-> m.value]
      PROVE  UiWhole' /\ ui'.page \in DOMAIN doc.pages /\ MarkOnPage'
  <2>1. Rest(ui') /\ ui'.page = ui.page /\ ui'.cross = m
    BY <1>4, <1>7
  <2>2. m = [source |-> m.source, field |-> m.field, value |-> m.value] /\ (m = NoMark \/ m.source = v.id)
    BY <1>7 DEF NoMark
  <2> QED BY <1>1, <1>2, <2>1, <2>2 DEF UiWhole, MarkOnPage, Shown
<1>8. ASSUME NEW p \in DOMAIN doc.pages, ui' = Focused(p)
      PROVE  UiWhole' /\ ui'.page \in DOMAIN doc.pages /\ MarkOnPage'
  <2>1. Rest(ui') /\ ui'.page = p /\ ui'.cross = NoMark
    BY <1>4, <1>8 DEF Focused
  <2> QED BY <2>1 DEF UiWhole, MarkOnPage, NoMark
<1>9. ASSUME NEW v \in Shown(ui.page), NEW x \in Clicked, onMark(v, x)
      PROVE  UiWhole' /\ ui'.page \in DOMAIN doc.pages /\ MarkOnPage'
  <2>1. \/ \E D : ui' = [ui EXCEPT !.drill = D]
        \/ \E m : /\ ui' = [ui EXCEPT !.cross = m]
                  /\ m = NoMark \/ m = [source |-> v.id, field |-> m.field, value |-> m.value]
    BY <1>9, MarkIs
  <2> QED BY <1>5, <1>7, <2>1
<1>10. ASSUME NEW v \in Shown(ui.page), drillUp(v)
       PROVE  UiWhole' /\ ui'.page \in DOMAIN doc.pages /\ MarkOnPage'
  <2>1. \E D : ui' = [ui EXCEPT !.drill = D]
    BY <1>10 DEF drillUp
  <2> QED BY <1>5, <2>1
<1>11. ASSUME NEW v \in Shown(ui.page), NEW xs, onSlicerChange(v, xs)
       PROVE  UiWhole' /\ ui'.page \in DOMAIN doc.pages /\ MarkOnPage'
  <2>1. \E S : ui' = [ui EXCEPT !.slicers = S]
    BY <1>11 DEF onSlicerChange
  <2> QED BY <1>6, <2>1
<1>12. ASSUME NEW p \in DOMAIN doc.pages, focusPage(p)
       PROVE  UiWhole' /\ ui'.page \in DOMAIN doc.pages /\ MarkOnPage'
  BY <1>8, <1>12 DEF focusPage
<1> QED BY <1>9, <1>10, <1>11, <1>12 DEF Click

LEMMA ReportSteps == QueryInv /\ ReportInv /\ [VisualsNext]_allVars => ReportInv'
<1> SUFFICES ASSUME QueryInv, ReportInv, [VisualsNext]_allVars PROVE ReportInv'
  OBVIOUS
<1>1. CASE UNCHANGED allVars
  BY <1>1 DEF allVars, queryVars, ReportInv, DescribedView, UiWhole, MarkOnPage, Shown
<1>2. CASE doc = NoDoc /\ doc' = doc
  BY <1>2 DEF ReportInv
<1>3. ASSUME NEW d \in Document(detail), detail # NoView, OpenReport(d) PROVE ReportInv'
  BY <1>3, OpenKeeps
<1>4. CASE Click
  BY <1>4, ClickKeeps
<1>5. CASE doc # NoDoc /\ CloseReport
  BY <1>5 DEF CloseReport, ReportInv
<1> QED BY <1>1, <1>2, <1>3, <1>4, <1>5 DEF VisualsNext

LEMMA ReportInvHolds == VisualsSpec => []ReportInv
<1>1. VisualsInit => ReportInv
  BY DEF VisualsInit, ReportInv
<1> QED BY <1>1, ReportSteps, QueryInvHolds, PTL DEF VisualsSpec, allVars

-----------------------------------------------------------------------------
(* The workbook and the screen.                                              *)

IsRequest(r, dims, mets, fns, filters, order, direction, limit) ==
  /\ r.q.dims = dims /\ r.q.mets = mets /\ r.q.facts = DOMAIN fns /\ r.q.filters = filters
  /\ r.q.combos = <<>> /\ r.q.order = order /\ r.q.limit = limit
  /\ r.fns = fns /\ r.direction = IF order = NoField THEN "" ELSE direction

LEMMA AskedIs ==
  ASSUME NEW dims, NEW mets, NEW fns, NEW filters, NEW order, NEW direction, NEW limit
  PROVE  IsRequest(Asked(dims, mets, fns, filters, order, direction, limit),
                   dims, mets, fns, filters, order, direction, limit)
<1> DEFINE r == Asked(dims, mets, fns, filters, order, direction, limit)
           q == [dims |-> dims, mets |-> mets, facts |-> DOMAIN fns, filters |-> filters,
                 combos |-> <<>>, order |-> order, limit |-> limit]
<1>1. /\ r.q = q /\ r.fns = fns
      /\ r.direction = IF order = NoField THEN "" ELSE direction
  BY DEF Asked, Plain
<1> HIDE DEF r
<1>2. /\ r.q.dims = dims /\ r.q.mets = mets /\ r.q.facts = DOMAIN fns /\ r.q.filters = filters
      /\ r.q.combos = <<>> /\ r.q.order = order /\ r.q.limit = limit
  <2>1. /\ q.dims = dims /\ q.mets = mets /\ q.facts = DOMAIN fns /\ q.filters = filters
        /\ q.combos = <<>> /\ q.order = order /\ q.limit = limit
    OBVIOUS
  <2> HIDE DEF q
  <2> QED BY <1>1, <2>1
<1> QED BY <1>1, <1>2 DEF IsRequest, r

LEMMA WhereSame ==
  ASSUME NEW q, NEW r, q.filters = r.filters, q.combos = r.combos
  PROVE  Where(q) = Where(r)
  BY Zenon DEF Where

(* The request of a tile in full.                                            *)
TileOf(tile, p, v, u) ==
  LET wells == resolveWells(v.wells, doc, u.drill[v.id])
      D == DimensionsOf(v, wells)
      M == MeasuresOf(v, wells)
      sorted == v.sort.field \in D \cup M IN
  IsRequest(tile, D, M \ detail.facts, splitMeasures(M, v.aggregations),
            effectiveFilters(doc, doc.pages[p], v, slicerFiltersFrom(u.slicers), u.drill[v.id], u.cross),
            IF sorted THEN v.sort.field ELSE NoField,
            IF v.sort.direction = "desc" THEN "desc" ELSE "asc",
            IF sorted THEN v.topN ELSE 0)

LEMMA TileIs ==
  ASSUME NEW p, NEW v, NEW u
  PROVE  TileOf(useVisualQuery(p, v, u), p, v, u)
<1> DEFINE wells == resolveWells(v.wells, doc, u.drill[v.id])
           D == DimensionsOf(v, wells)
           M == MeasuresOf(v, wells)
           filters == effectiveFilters(doc, doc.pages[p], v, slicerFiltersFrom(u.slicers),
                                       u.drill[v.id], u.cross)
           shape == rowShapingFor(v, D \cup M)
           order == shape.order
           direction == shape.direction
           limit == shape.limit
           fns == splitMeasures(M, v.aggregations)
           tile == useVisualQuery(p, v, u)
           sorted == v.sort.field \in D \cup M
           rest == M \ detail.facts
<1>1. tile = Asked(D, rest, fns, filters, order, direction, limit)
  <2>1. tile = QueryOf(v, wells, filters)
    BY DEF useVisualQuery
  <2> HIDE DEF tile, wells, filters
  <2> QED BY <2>1 DEF QueryOf, RequestOf
<1>2. /\ order = IF sorted THEN v.sort.field ELSE NoField
      /\ direction = IF v.sort.direction = "desc" THEN "desc" ELSE "asc"
      /\ limit = IF sorted THEN v.topN ELSE 0
  <2> HIDE DEF D, M
  <2> QED BY DEF rowShapingFor
<1> HIDE DEF D, filters, rest, fns, tile, order, direction, limit
<1>3. IsRequest(tile, D, rest, fns, filters, order, direction, limit)
  BY <1>1, AskedIs
<1> HIDE DEF M, sorted
<1> QED BY <1>2, <1>3 DEF TileOf, D, M, rest, filters, fns, tile, sorted

SheetOf(sheet, p, v) ==
  LET wells == resolveWells(v.wells, doc, ui.drill[v.id])
      mark == IF \E x \in Shown(p) : x.id = ui.cross.source THEN ui.cross ELSE NoMark IN
  IsRequest(sheet, DimensionsOf(v, wells), MeasuresOf(v, wells), <<>>,
            effectiveFilters(doc, doc.pages[p], v, <<>>, ui.drill[v.id], mark), NoField, "", 0)

LEMMA SheetIs ==
  ASSUME NEW p, NEW v
  PROVE  SheetOf(sheetRequestsFor(p, v), p, v)
<1> DEFINE wells == resolveWells(v.wells, doc, ui.drill[v.id])
           D == DimensionsOf(v, wells)
           M == MeasuresOf(v, wells)
           mark == IF \E x \in Shown(p) : x.id = ui.cross.source THEN ui.cross ELSE NoMark
           filters == effectiveFilters(doc, doc.pages[p], v, <<>>, ui.drill[v.id], mark)
           sheet == sheetRequestsFor(p, v)
           none == <<>>
           unsaid == ""
           first == 0
<1>1. sheet = Asked(D, M, none, filters, NoField, unsaid, first)
  BY DEF sheetRequestsFor, DimensionsOf, MeasuresOf
<1> HIDE DEF D, M, filters, sheet, none, unsaid, first
<1>2. IsRequest(sheet, D, M, none, filters, NoField, unsaid, first)
  BY <1>1, AskedIs
<1> QED BY <1>2 DEF SheetOf, D, M, filters, sheet, none, unsaid, first

(* The mark that constrains a sheet is the one that constrains its tile.     *)
LEMMA SameMark ==
  ASSUME ReportInv, doc # NoDoc, NEW p \in DOMAIN doc.pages, NEW v \in Shown(p)
  PROVE  LET u == IF p = ui.page THEN ui ELSE Focused(p) IN
         /\ u.drill = ui.drill
         /\ u.cross = IF \E x \in Shown(p) : x.id = ui.cross.source THEN ui.cross ELSE NoMark
<1> DEFINE u == IF p = ui.page THEN ui ELSE Focused(p)
<1>1. DocumentTyped(doc) /\ parse_definition(doc) /\ UiWhole /\ ui.page \in DOMAIN doc.pages /\ MarkOnPage
  BY DEF ReportInv
<1>2. CASE p = ui.page
  <2>1. u = ui
    BY <1>2
  <2> HIDE DEF u
  <2> QED BY <1>1, <1>2, <2>1 DEF MarkOnPage, u
<1>3. CASE p # ui.page
  <2>1. u = Focused(p)
    BY <1>3
  <2>2. u.drill = ui.drill /\ u.cross = NoMark
    <3> HIDE DEF u
    <3> QED BY <1>1, <2>1 DEF Focused, UiWhole
  <2>3. ASSUME ui.cross # NoMark, NEW x \in Shown(p), x.id = ui.cross.source PROVE FALSE
    <3>1. PICK y \in Shown(ui.page) : y.id = ui.cross.source
      BY <1>1, <2>3 DEF MarkOnPage
    <3> QED BY <1>1, <1>3, <2>3, <3>1, IdsApart DEF Shown
  <2> HIDE DEF u
  <2> QED BY <2>2, <2>3 DEF u
<1> QED BY <1>2, <1>3

LEMMA NothingIn == DOMAIN <<>> = {}
OBVIOUS

LEMMA NoSlicers ==
  ASSUME NEW slicers, slicers = <<>>
  PROVE  slicerFiltersFrom(slicers) = <<>>
<1>1. DOMAIN <<>> = {}
  BY NothingIn
<1>2. slicerFiltersFrom(slicers) = [i \in {} |-> Equals(slicers[i].field, slicers[i].values)]
  BY <1>1 DEF slicerFiltersFrom
<1> DEFINE f == slicerFiltersFrom(slicers)
<1> HIDE DEF f
<1>3. f \in [1..0 -> {}]
  <2>1. 1..0 = {}
    OBVIOUS
  <2>2. f \in [{} -> {}]
    BY <1>2 DEF f
  <2> QED BY <2>1, <2>2
<1>4. f \in Seq({}) /\ Len(f) = 0
  BY <1>3
<1> QED BY <1>4, EmptySeq DEF f

LEMMA ExportHolds ==
  ASSUME ReportInv
  PROVE  ExportShowsScreen
<1> SUFFICES ASSUME doc # NoDoc, NEW s \in DOMAIN export_workbook
             PROVE  LET u == IF s[1] = ui.page THEN ui ELSE Focused(s[1]) IN
                    u.slicers = <<>> =>
                      SameTable(export_workbook[s], Statement(useVisualQuery(s[1], s[2], u)))
  BY DEF ExportShowsScreen
<1> DEFINE p == s[1]
           v == s[2]
           u == IF p = ui.page THEN ui ELSE Focused(p)
           sheet == sheetRequestsFor(p, v)
           tile == useVisualQuery(p, v, u)
           made == [x \in Sheets |-> Statement(sheetRequestsFor(x[1], x[2]))]
<1>1. s \in Sheets /\ export_workbook[s] = Statement(sheet) /\ Statement(sheet).refused = ""
  <2>1. export_workbook = IF \E x \in Sheets : made[x].refused # "" THEN <<>> ELSE made
    BY DEF export_workbook
  <2> HIDE DEF made, sheet
  <2>2. ~ \E x \in Sheets : made[x].refused # ""
    <3>1. DOMAIN <<>> = {}
      OBVIOUS
    <3> QED BY <2>1, <3>1
  <2>3. export_workbook = made /\ DOMAIN made = Sheets
    BY <2>1, <2>2 DEF made
  <2>4. s \in Sheets /\ made[s].refused = ""
    BY <2>2, <2>3
  <2>5. made[s] = Statement(sheet)
    BY <2>4 DEF made, sheet
  <2> QED BY <2>3, <2>4, <2>5
<1>2. p \in DOMAIN doc.pages /\ v \in Shown(p)
  BY <1>1 DEF Sheets
<1>3. /\ u.drill = ui.drill
      /\ u.cross = IF \E x \in Shown(p) : x.id = ui.cross.source THEN ui.cross ELSE NoMark
  BY <1>2, SameMark
<1> SUFFICES ASSUME u.slicers = <<>>, Statement(tile).refused = ""
             PROVE  /\ Columns(Statement(sheet)) = Columns(Statement(tile))
                    /\ Statement(sheet).fragments = Statement(tile).fragments
                    /\ Statement(sheet).params = Statement(tile).params
  BY <1>1 DEF SameTable
<1>4. slicerFiltersFrom(u.slicers) = <<>>
  BY NoSlicers
<1> DEFINE wells == resolveWells(v.wells, doc, ui.drill[v.id])
           D == DimensionsOf(v, wells)
           M == MeasuresOf(v, wells)
           filters == effectiveFilters(doc, doc.pages[p], v, <<>>, ui.drill[v.id], u.cross)
<1> HIDE DEF p, v, u
<1>5. sheet.q.dims = D /\ sheet.q.mets = M /\ sheet.q.facts = {} /\ sheet.q.combos = <<>>
      /\ sheet.q.filters = filters
  <2>1. SheetOf(sheet, p, v)
    BY SheetIs
  <2>2. DOMAIN <<>> = {}
    BY NothingIn
  <2> HIDE DEF sheet
  <2> QED BY <1>3, <2>1, <2>2 DEF SheetOf, IsRequest
<1>6. /\ tile.q.dims = D /\ tile.q.mets = M \ detail.facts /\ tile.q.facts = M \cap detail.facts
      /\ tile.q.combos = <<>> /\ tile.q.filters = filters
  <2>1. TileOf(tile, p, v, u)
    BY TileIs
  <2>2. DOMAIN splitMeasures(M, v.aggregations) = M \cap detail.facts
    <3> HIDE DEF M
    <3> QED BY DEF splitMeasures
  <2> HIDE DEF tile
  <2> QED BY <1>3, <1>4, <2>1, <2>2 DEF TileOf, IsRequest
<1> HIDE DEF D, M, filters, sheet, tile
<1>7. Described(detail)
  BY ViewIs DEF ReportInv
<1> DEFINE one == Statement(sheet)
           two == Statement(tile)
<1>8. Stated(sheet.q, one) /\ Stated(tile.q, two)
  BY <1>1 DEF Stated, Statement
<1> HIDE DEF one, two
<1>9. Columns(one) = D \cup M /\ Columns(two) = D \cup M
  <2>1. Columns(one) = sheet.q.dims \cup sheet.q.mets \cup sheet.q.facts
    BY <1>7, <1>8, ColumnsAre
  <2>2. Columns(two) = tile.q.dims \cup tile.q.mets \cup tile.q.facts
    BY <1>7, <1>8, ColumnsAre
  <2> QED BY <1>5, <1>6, <2>1, <2>2
<1>10. Where(sheet.q) = Where(tile.q)
  BY <1>5, <1>6, WhereSame
<1>11. ASSUME NEW q, NEW sql, Stated(q, sql)
       PROVE  sql.fragments = Where(q).fragments /\ sql.params = Where(q).params
  <2>1. PICK bridge : sql = Selecting(q, {bridge} \ {NoField}, Where(q), RowCap)
    BY <1>7, <1>11, StatementIs
  <2> QED BY <2>1 DEF Selecting
<1>12. one.fragments = two.fragments /\ one.params = two.params
  <2>1. one.fragments = Where(sheet.q).fragments /\ one.params = Where(sheet.q).params
    BY <1>8, <1>11
  <2>2. two.fragments = Where(tile.q).fragments /\ two.params = Where(tile.q).params
    BY <1>8, <1>11
  <2> QED BY <1>10, <2>1, <2>2
<1> QED BY <1>9, <1>12 DEF one, two

(* A sheet of a workbook has the columns and the filters of its tile, however *)
(* the report is drilled, marked and paged (export/service.py, filters.ts    *)
(* sheetRequestsFor).                                                        *)
THEOREM ExportCorrect == VisualsSpec => []ExportShowsScreen
<1> QED BY ReportInvHolds, ExportHolds, PTL

-----------------------------------------------------------------------------
(**** Reports: the feed.                                               ****)

(* The loops over filters: `how` says which.                                 *)

Start(how) == IF how = "where" THEN NoPredicate ELSE <<>>

Put(how, w, f) ==
  IF how = "where" THEN IF is_active(f) THEN Extended(w, Fragment(f), Params(f)) ELSE w
  ELSE w \o IF is_active(f) THEN <<f>> ELSE <<>>

Made(how, s, g) ==
  g = [n \in 0..Len(s) |-> IF n = 0 THEN Start(how) ELSE Put(how, g[n - 1], s[n])]

LEMMA MadeIs ==
  ASSUME NEW how, NEW s, Len(s) \in Nat, NEW g, Made(how, s, g)
  PROVE  g[0] = Start(how) /\ \A k \in 1..Len(s) : g[k] = Put(how, g[k - 1], s[k])
<1> DEFINE n == Len(s)
<1>1. g = [k \in 0..n |-> IF k = 0 THEN Start(how) ELSE Put(how, g[k - 1], s[k])]
  BY DEF Made
<1> HIDE DEF n
<1>2. \A k \in 0..n : g[k] = IF k = 0 THEN Start(how) ELSE Put(how, g[k - 1], s[k])
  BY <1>1, Zenon
<1>3. 0 \in 0..n /\ \A k \in 1..n : k \in 0..n /\ k # 0
  BY DEF n
<1> QED BY <1>2, <1>3 DEF n

LEMMA MadeExists ==
  ASSUME NEW how, NEW s, Len(s) \in Nat
  PROVE  \E g : Made(how, s, g)
<1> DEFINE n == Len(s)
           Good(m, g) == g = [k \in 0..m |-> IF k = 0 THEN Start(how) ELSE Put(how, g[k - 1], s[k])]
           T == {m \in Nat : \E g : Good(m, g)}
<1>1. 0 \in T
  <2>1. Good(0, [k \in 0..0 |-> Start(how)])
    OBVIOUS
  <2> QED BY <2>1
<1>2. ASSUME NEW m \in Nat, m \in T PROVE m + 1 \in T
  <2>1. PICK g : Good(m, g)
    BY <1>2
  <2> DEFINE last == Put(how, g[m], s[m + 1])
             more == [k \in 0..(m + 1) |-> IF k = m + 1 THEN last ELSE g[k]]
             then == [k \in 0..(m + 1) |-> IF k = 0 THEN Start(how) ELSE Put(how, more[k - 1], s[k])]
  <2>2. \A k \in 0..m : g[k] = IF k = 0 THEN Start(how) ELSE Put(how, g[k - 1], s[k])
    BY <2>1, Zenon
  <2>3. ASSUME NEW k \in 0..(m + 1)
        PROVE  more[k] = IF k = 0 THEN Start(how) ELSE Put(how, more[k - 1], s[k])
    <3>1. CASE k = m + 1
      <4>1. k # 0 /\ k - 1 = m /\ m \in 0..(m + 1) /\ m # m + 1
        BY <3>1
      <4>2. more[k] = last /\ more[k - 1] = g[m]
        <5> HIDE DEF last
        <5> QED BY <3>1, <4>1
      <4> HIDE DEF more
      <4> QED BY <3>1, <4>1, <4>2
    <3>2. CASE k # m + 1
      <4>1. k \in 0..m /\ (k # 0 => k - 1 \in 0..(m + 1) /\ k - 1 # m + 1)
        BY <3>2
      <4>2. more[k] = g[k] /\ (k # 0 => more[k - 1] = g[k - 1])
        <5> HIDE DEF last
        <5> QED BY <3>2, <4>1
      <4> HIDE DEF more
      <4> QED BY <2>2, <4>1, <4>2
    <3> QED BY <3>1, <3>2
  <2>4. more = then
    <3>1. more = [k \in 0..(m + 1) |-> more[k]]
      OBVIOUS
    <3> HIDE DEF more
    <3> QED BY <2>3, <3>1, Zenon
  <2>5. Good(m + 1, more)
    <3> HIDE DEF more
    <3> QED BY <2>4
  <2> HIDE DEF more, Good
  <2> QED BY <2>5
<1> HIDE DEF T
<1>3. Nat \subseteq T
  BY <1>1, <1>2, Induction
<1>4. \E g : Good(n, g)
  BY <1>3 DEF T
<1> QED BY <1>4 DEF Made

LEMMA MadeAppend ==
  ASSUME NEW how, NEW S, NEW s \in Seq(S), NEW f \in S,
         NEW g, Made(how, s, g), NEW h, Made(how, Append(s, f), h)
  PROVE  h[Len(s) + 1] = Put(how, g[Len(s)], f)
<1> DEFINE n == Len(s)
           t == Append(s, f)
           T == {m \in Nat : m <= n => h[m] = g[m]}
<1>1. n \in Nat /\ Len(t) = n + 1 /\ t[n + 1] = f /\ \A k \in 1..n : t[k] = s[k]
  BY AppendProperties
<1>2. g[0] = Start(how) /\ \A k \in 1..n : g[k] = Put(how, g[k - 1], s[k])
  BY <1>1, MadeIs
<1> HIDE DEF t
<1>3. h[0] = Start(how) /\ \A k \in 1..(n + 1) : h[k] = Put(how, h[k - 1], t[k])
  <2>1. Made(how, t, h) /\ Len(t) \in Nat
    BY <1>1 DEF t
  <2>2. h[0] = Start(how) /\ \A k \in 1..Len(t) : h[k] = Put(how, h[k - 1], t[k])
    BY <2>1, MadeIs
  <2> QED BY <1>1, <2>2
<1> HIDE DEF n
<1>4. 0 \in T
  BY <1>2, <1>3
<1>5. ASSUME NEW m \in Nat, m \in T PROVE m + 1 \in T
  <2> SUFFICES ASSUME m + 1 <= n PROVE h[m + 1] = g[m + 1]
    OBVIOUS
  <2>1. m <= n /\ m + 1 \in 1..n /\ m + 1 \in 1..(n + 1) /\ (m + 1) - 1 = m
    BY <1>1
  <2>2. h[m] = g[m] /\ t[m + 1] = s[m + 1]
    BY <1>1, <1>5, <2>1
  <2>3. h[m + 1] = Put(how, h[m], t[m + 1])
    BY <1>3, <2>1
  <2>4. g[m + 1] = Put(how, g[m], s[m + 1])
    BY <1>2, <2>1
  <2> QED BY <2>2, <2>3, <2>4
<1> HIDE DEF T
<1>6. Nat \subseteq T
  BY <1>4, <1>5, Induction
<1>7. h[n] = g[n]
  BY <1>1, <1>6 DEF T
<1>8. n + 1 \in 1..(n + 1) /\ (n + 1) - 1 = n
  BY <1>1
<1>9. h[n + 1] = Put(how, h[n], f)
  BY <1>1, <1>3, <1>8
<1> QED BY <1>7, <1>9 DEF n

(* The predicates of one more filter, and those that are active of one more. *)
LEMMA BuildOne ==
  ASSUME NEW S, NEW s \in Seq(S), NEW f \in S
  PROVE  /\ build_filter_predicates(Append(s, f)) = Put("where", build_filter_predicates(s), f)
         /\ Active(Append(s, f)) = Put("active", Active(s), f)
<1> DEFINE t == Append(s, f)
<1>1. t \in Seq(S) /\ Len(t) = Len(s) + 1 /\ Len(s) \in Nat
  BY AppendProperties
<1> HIDE DEF t
<1>2. ASSUME NEW r, Len(r) \in Nat
      PROVE  /\ \E g : Made("where", r, g) /\ build_filter_predicates(r) = g[Len(r)]
             /\ \E g : Made("active", r, g) /\ Active(r) = g[Len(r)]
  <2>1. build_filter_predicates(r) = (CHOOSE g : Made("where", r, g))[Len(r)]
    BY DEF build_filter_predicates, Made, Put, Start
  <2>2. Active(r) = (CHOOSE g : Made("active", r, g))[Len(r)]
    BY DEF Active, Made, Put, Start
  <2>3. (\E g : Made("where", r, g)) /\ \E g : Made("active", r, g)
    BY <1>2, MadeExists
  <2>4. Made("where", r, CHOOSE g : Made("where", r, g)) /\ Made("active", r, CHOOSE g : Made("active", r, g))
    BY <2>3, Zenon
  <2> QED BY <2>1, <2>2, <2>4, Zenon
<1>3. build_filter_predicates(Append(s, f)) = Put("where", build_filter_predicates(s), f)
  <2>1. PICK g : Made("where", s, g) /\ build_filter_predicates(s) = g[Len(s)]
    BY <1>1, <1>2
  <2>2. PICK h : Made("where", t, h) /\ build_filter_predicates(t) = h[Len(t)]
    BY <1>1, <1>2
  <2>3. h[Len(s) + 1] = Put("where", g[Len(s)], f)
    BY <2>1, <2>2, MadeAppend DEF t
  <2> QED BY <1>1, <2>1, <2>2, <2>3 DEF t
<1>4. Active(Append(s, f)) = Put("active", Active(s), f)
  <2>1. PICK g : Made("active", s, g) /\ Active(s) = g[Len(s)]
    BY <1>1, <1>2
  <2>2. PICK h : Made("active", t, h) /\ Active(t) = h[Len(t)]
    BY <1>1, <1>2
  <2>3. h[Len(s) + 1] = Put("active", g[Len(s)], f)
    BY <2>1, <2>2, MadeAppend DEF t
  <2> QED BY <1>1, <2>1, <2>2, <2>3 DEF t
<1> QED BY <1>3, <1>4

LEMMA BuildNone == build_filter_predicates(<<>>) = NoPredicate /\ Active(<<>>) = <<>>
<1> DEFINE none == <<>>
<1>1. Len(none) = 0
  OBVIOUS
<1> HIDE DEF none
<1>2. PICK g : Made("where", none, g) /\ g = CHOOSE h : Made("where", none, h)
  <2>1. \E h : Made("where", none, h)
    BY <1>1, MadeExists
  <2> QED BY <2>1, Zenon
<1>3. PICK k : Made("active", none, k) /\ k = CHOOSE h : Made("active", none, h)
  <2>1. \E h : Made("active", none, h)
    BY <1>1, MadeExists
  <2> QED BY <2>1, Zenon
<1>4. build_filter_predicates(none) = g[0]
  BY <1>1, <1>2 DEF build_filter_predicates, Made, Put, Start
<1>5. Active(none) = k[0]
  BY <1>1, <1>3 DEF Active, Made, Put, Start
<1>6. g[0] = Start("where") /\ k[0] = Start("active")
  BY <1>1, <1>2, <1>3, MadeIs
<1> QED BY <1>4, <1>5, <1>6 DEF none, Start

(* Those left out would not have added anything.                             *)
Builds(S, s) ==
  /\ Active(s) \in Seq(S) /\ build_filter_predicates(Active(s)) = build_filter_predicates(s)
  /\ \A f \in ToSet(s) : is_active(f) => f \in ToSet(Active(s))

LEMMA ActiveBuilds ==
  ASSUME NEW S, NEW s \in Seq(S)
  PROVE  Builds(S, s)
<1> DEFINE n == Len(s)
           T == {m \in Nat : m <= n => Builds(S, SubSeq(s, 1, m))}
<1>1. n \in Nat /\ \A k \in 1..n : s[k] \in S
  BY ElementOfSeq
<1>2. 0 \in T
  <2>1. SubSeq(s, 1, 0) = <<>>
    BY SubSeqEmpty
  <2>2. ToSet(<<>>) = {} /\ <<>> \in Seq(S)
    BY NothingIn DEF ToSet
  <2>3. Builds(S, <<>>)
    BY <2>2, BuildNone DEF Builds
  <2> QED BY <2>1, <2>3
<1>3. ASSUME NEW m \in Nat, m \in T PROVE m + 1 \in T
  <2> SUFFICES ASSUME m + 1 <= n PROVE Builds(S, SubSeq(s, 1, m + 1))
    OBVIOUS
  <2> DEFINE r == SubSeq(s, 1, m)
             f == s[m + 1]
             t == SubSeq(s, 1, m + 1)
  <2>1. r \in Seq(S) /\ Len(r) = m /\ \A i \in 1..m : r[i] = s[i]
    BY <1>1, SubSeqProperties
  <2>2. t \in Seq(S) /\ Len(t) = m + 1 /\ \A i \in 1..(m + 1) : t[i] = s[i]
    BY <1>1, SubSeqProperties
  <2>3. f \in S
    BY <1>1
  <2>4. Builds(S, r)
    BY <1>3
  <2> HIDE DEF r, t, f
  <2>5. t = Append(r, f)
    <3>1. Append(r, f) \in Seq(S) /\ Len(Append(r, f)) = m + 1
          /\ (\A i \in 1..m : Append(r, f)[i] = r[i]) /\ Append(r, f)[m + 1] = f
      BY <2>1, <2>3, AppendProperties
    <3>2. \A i \in 1..(m + 1) : t[i] = Append(r, f)[i]
      BY <2>1, <2>2, <3>1 DEF f
    <3> QED BY <2>2, <3>1, <3>2, SeqEqual
  <2>6. build_filter_predicates(t) = Put("where", build_filter_predicates(r), f)
        /\ Active(t) = Put("active", Active(r), f)
    BY <2>1, <2>3, <2>5, BuildOne
  <2>7. Active(r) \in Seq(S) /\ build_filter_predicates(Active(r)) = build_filter_predicates(r)
        /\ \A x \in ToSet(r) : is_active(x) => x \in ToSet(Active(r))
    BY <2>4 DEF Builds
  <2>8. \A x \in ToSet(t) : x \in ToSet(r) \/ x = f
    <3>1. DOMAIN t = 1..(m + 1) /\ DOMAIN r = 1..m
      BY <2>1, <2>2, LenProperties
    <3>2. \A i \in 1..(m + 1) : i \in 1..m \/ i = m + 1
      OBVIOUS
    <3> QED BY <2>1, <2>2, <3>1, <3>2 DEF ToSet, f
  <2>9. CASE is_active(f)
    <3>1. Active(t) = Append(Active(r), f)
      <4>1. Active(t) = Active(r) \o <<f>>
        BY <2>6, <2>9 DEF Put
      <4> QED BY <2>3, <2>7, <4>1, AppendIsConcat
    <3> DEFINE a == Active(r)
    <3>2. build_filter_predicates(Append(a, f)) = Put("where", build_filter_predicates(a), f)
          /\ Append(a, f) \in Seq(S)
      BY <2>3, <2>7, BuildOne, AppendProperties
    <3>3. \A x \in ToSet(a) \cup {f} : x \in ToSet(Append(a, f))
      <4>1. a \in Seq(S)
        BY <2>7
      <4> HIDE DEF a
      <4>2. Append(a, f) \in Seq(S) /\ Len(Append(a, f)) = Len(a) + 1 /\ Len(a) \in Nat
            /\ (\A i \in 1..Len(a) : Append(a, f)[i] = a[i]) /\ Append(a, f)[Len(a) + 1] = f
        BY <2>3, <4>1, AppendProperties
      <4>3. DOMAIN a = 1..Len(a) /\ DOMAIN Append(a, f) = 1..(Len(a) + 1)
        BY <4>1, <4>2, LenProperties
      <4> QED BY <4>2, <4>3 DEF ToSet
    <3> HIDE DEF a
    <3>4. Active(t) = Append(a, f) /\ build_filter_predicates(a) = build_filter_predicates(r)
          /\ \A x \in ToSet(r) : is_active(x) => x \in ToSet(a)
      BY <2>7, <3>1 DEF a
    <3> QED BY <2>6, <2>8, <3>2, <3>3, <3>4 DEF Builds, t
  <2>10. CASE ~ is_active(f)
    <3>1. Active(t) = Active(r)
      <4>1. Active(t) = Active(r) \o <<>>
        BY <2>6, <2>10 DEF Put
      <4> QED BY <2>7, <4>1, ConcatEmptySeq
    <3>2. build_filter_predicates(t) = build_filter_predicates(r)
      BY <2>6, <2>10 DEF Put
    <3> QED BY <2>7, <2>8, <2>10, <3>1, <3>2 DEF Builds, t
  <2> QED BY <2>9, <2>10
<1> HIDE DEF T
<1>4. Nat \subseteq T
  BY <1>2, <1>3, Induction
<1>5. Builds(S, SubSeq(s, 1, n))
  BY <1>1, <1>4 DEF T
<1> QED BY <1>5, SubSeqFull

(* Without what is not active, and with one more that is.                    *)
LEMMA ActiveThenOne ==
  ASSUME NEW S, NEW s \in Seq(S), NEW f \in S, is_active(f)
  PROVE  Active(s \o <<f>>) = Active(s) \o <<f>>
<1>1. s \o <<f>> = Append(s, f)
  BY AppendIsConcat
<1>2. Active(Append(s, f)) = Active(s) \o <<f>>
  BY BuildOne DEF Put
<1> QED BY <1>1, <1>2

-----------------------------------------------------------------------------
(* The wells of a fresh tile and those of the feed.                          *)

FedWells(v) == [k \in DOMAIN v.wells |-> [i \in DOMAIN v.wells[k] |-> _top_level(v.wells[k][i])]]

(* Nothing drilled, a hierarchy's first level is on show.                    *)
LEMMA TopLevel ==
  ASSUME DocumentTyped(doc), parse_definition(doc), NEW i \in DOMAIN Visuals(doc),
         NEW v, v = Visuals(doc)[i], NEW kind \in {"dimension", "metric"},
         NEW ref \in wells_to_query(v.type, v.wells, kind), IsHierarchy(ref)
  PROVE  currentLevel(hierarchyById(doc, ref[2]), depthOf(Undrilled, ref[2])) = _top_level(ref)
<1> DEFINE ids == {doc.hierarchies[j].id : j \in DOMAIN doc.hierarchies}
           h == hierarchyById(doc, ref[2])
<1>1. _check_hierarchies(doc)
  BY DEF parse_definition
<1>2. /\ \A j \in DOMAIN doc.hierarchies : Len(doc.hierarchies[j].levels) >= 2
      /\ \A r \in wells_to_query(v.type, v.wells, "metric") : ~ IsHierarchy(r)
      /\ \A r \in wells_to_query(v.type, v.wells, "dimension") : IsHierarchy(r) => r[2] \in ids
  BY <1>1 DEF _check_hierarchies
<1>3. ref[2] \in ids
  BY <1>2
<1>4. \E j \in DOMAIN doc.hierarchies : h = doc.hierarchies[j]
  <2>1. \E j \in DOMAIN doc.hierarchies : doc.hierarchies[j].id = ref[2]
    BY <1>3
  <2> QED BY <2>1, Zenon DEF hierarchyById
<1> HIDE DEF ids, h
<1>5. PICK j \in DOMAIN doc.hierarchies : h = doc.hierarchies[j]
  BY <1>4
<1>6. Len(h.levels) >= 2 /\ Len(h.levels) \in Nat
  <2>1. h \in ToSet(doc.hierarchies)
    BY <1>5 DEF ToSet
  <2>2. h.levels \in Seq(ToSet(h.levels))
    BY <2>1 DEF DocumentTyped, Listed
  <2>3. Len(h.levels) \in Nat
    BY <2>2, LenProperties
  <2> QED BY <1>2, <1>5, <2>3
<1>7. depthOf(Undrilled, ref[2]) = 0
  <2>1. Undrilled.path = <<>> /\ Len(<<>>) = 0
    BY DEF Undrilled
  <2> QED BY <2>1 DEF depthOf
<1>8. Min({0 + 1, Len(h.levels)}) = 1
  <2> DEFINE n == Len(h.levels)
  <2>1. n \in Nat /\ n >= 2
    BY <1>6
  <2> HIDE DEF n
  <2>2. Min({0 + 1, n}) \in {1, n} /\ \A x \in {1, n} : Min({0 + 1, n}) <= x
    BY <2>1, MinIs
  <2> QED BY <2>1, <2>2 DEF n
<1>9. _top_level(ref) = h.levels[1]
  BY DEF _top_level, h
<1> QED BY <1>7, <1>8, <1>9 DEF currentLevel, h

LEMMA SameRefs ==
  ASSUME DocumentTyped(doc), parse_definition(doc), NEW i \in DOMAIN Visuals(doc),
         NEW v, v = Visuals(doc)[i], NEW kind \in {"dimension", "metric"}
  PROVE  wells_to_query(v.type, resolveWells(v.wells, doc, Undrilled), kind)
           = wells_to_query(v.type, FedWells(v), kind)
<1> DEFINE shown == resolveWells(v.wells, doc, Undrilled)
           fed == FedWells(v)
           W == {x \in CATALOG[v.type] : x.kind = kind}
<1>1. ASSUME NEW w \in W PROVE Refs(shown, w.key) = Refs(fed, w.key)
  <2> DEFINE k == w.key
  <2>1. DOMAIN shown = DOMAIN v.wells /\ DOMAIN fed = DOMAIN v.wells
    BY DEF resolveWells, FedWells
  <2>2. CASE k \in DOMAIN v.wells
    <3> DEFINE top == [j \in DOMAIN v.wells[k] |-> _top_level(v.wells[k][j])]
               level == [j \in DOMAIN v.wells[k] |->
                           IF IsHierarchy(v.wells[k][j])
                           THEN currentLevel(hierarchyById(doc, v.wells[k][j][2]),
                                             depthOf(Undrilled, v.wells[k][j][2]))
                           ELSE v.wells[k][j]]
    <3>1. ASSUME NEW j \in DOMAIN v.wells[k] PROVE level[j] = top[j]
      <4> DEFINE ref == v.wells[k][j]
      <4>1. ref \in wells_to_query(v.type, v.wells, kind)
        BY <2>2 DEF wells_to_query, Refs, ToSet
      <4> HIDE DEF k, W
      <4>2. CASE IsHierarchy(ref)
        <5>1. level[j] = currentLevel(hierarchyById(doc, ref[2]), depthOf(Undrilled, ref[2]))
          BY <4>2
        <5>2. top[j] = _top_level(ref)
          OBVIOUS
        <5> HIDE DEF ref, level, top
        <5> QED BY <4>1, <4>2, <5>1, <5>2, TopLevel
      <4>3. CASE ~ IsHierarchy(ref)
        BY <4>3 DEF _top_level
      <4> QED BY <4>2, <4>3
    <3>2. level = top
      <4> HIDE DEF k
      <4>1. level = [j \in DOMAIN v.wells[k] |-> level[j]] /\ top = [j \in DOMAIN v.wells[k] |-> top[j]]
        OBVIOUS
      <4> HIDE DEF level, top
      <4> QED BY <3>1, <4>1, Zenon
    <3>3. shown[k] = level /\ fed[k] = top
      BY <2>2 DEF resolveWells, FedWells
    <3> HIDE DEF level, top, shown, fed, W
    <3> QED BY <2>1, <2>2, <3>2, <3>3 DEF Refs
  <2>3. CASE k \notin DOMAIN v.wells
    BY <2>1, <2>3 DEF Refs
  <2> QED BY <2>2, <2>3
<1> HIDE DEF shown, fed
<1>2. {ToSet(Refs(shown, w.key)) : w \in W} = {ToSet(Refs(fed, w.key)) : w \in W}
  BY <1>1
<1> QED BY <1>2 DEF wells_to_query, shown, fed

-----------------------------------------------------------------------------
(* The feed and the fresh tile.                                              *)

LEMMA FedIs ==
  ASSUME NEW p, NEW v, NEW extra
  PROVE  LET M == MeasuresOf(v, FedWells(v))
             aggregated == DOMAIN v.aggregations \cap M IN
         IsRequest(build_feed_request(p, v, extra), DimensionsOf(v, FedWells(v)), M \ aggregated,
                   [f \in aggregated |-> v.aggregations[f]],
                   doc.filters \o doc.pages[p].filters \o v.filters \o extra,
                   v.sort.field, IF v.sort.direction = "" THEN "desc" ELSE v.sort.direction, v.topN)
<1> DEFINE D == DimensionsOf(v, FedWells(v))
           M == MeasuresOf(v, FedWells(v))
           aggregated == DOMAIN v.aggregations \cap M
           rest == M \ aggregated
           fns == [f \in aggregated |-> v.aggregations[f]]
           filters == doc.filters \o doc.pages[p].filters \o v.filters \o extra
           order == v.sort.field
           direction == IF v.sort.direction = "" THEN "desc" ELSE v.sort.direction
           limit == v.topN
           feed == build_feed_request(p, v, extra)
<1>1. feed = Asked(D, rest, fns, filters, order, direction, limit)
  BY DEF build_feed_request, FedWells, DimensionsOf, MeasuresOf
<1> HIDE DEF D, rest, fns, filters, order, direction, limit, feed
<1>2. IsRequest(feed, D, rest, fns, filters, order, direction, limit)
  BY <1>1, AskedIs
<1> QED BY <1>2 DEF D, rest, fns, filters, order, direction, limit, feed

(* Nothing is drilled and nothing sliced on the fresh screen.                *)
FreshAre(p, v, mark, extra, s) ==
  /\ \E S : s \o extra \in Seq(S)
  /\ effectiveFilters(doc, doc.pages[p], v, <<>>, Undrilled, mark) = Active(s) \o extra
  /\ Active(s \o extra) = Active(s) \o extra

LEMMA FreshFilters ==
  ASSUME DocumentTyped(doc), NEW p \in DOMAIN doc.pages, NEW v \in Shown(p), NEW mark,
         mark = NoMark \/ mark.source = 0,
         NEW extra, extra = IF mark = NoMark THEN <<>> ELSE <<Equals(mark.field, <<mark.value>>)>>,
         NEW s, s = doc.filters \o doc.pages[p].filters \o v.filters
  PROVE  FreshAre(p, v, mark, extra, s)
<1> DEFINE page == doc.pages[p]
           one == Equals(mark.field, <<mark.value>>)
           S == ToSet(doc.filters) \cup ToSet(page.filters) \cup ToSet(v.filters) \cup {one}
<1>1. doc.filters \in Seq(S) /\ page.filters \in Seq(S) /\ v.filters \in Seq(S) /\ v.id # 0
  <2>1. page \in ToSet(doc.pages) /\ v \in ToSet(page.visuals)
    BY DEF ToSet, Shown
  <2>2. /\ doc.filters \in Seq(ToSet(doc.filters)) /\ page.filters \in Seq(ToSet(page.filters))
        /\ v.filters \in Seq(ToSet(v.filters)) /\ v.id # 0
    BY <2>1 DEF DocumentTyped, VisualTyped, Listed
  <2>3. ToSet(doc.filters) \subseteq S /\ ToSet(page.filters) \subseteq S /\ ToSet(v.filters) \subseteq S
    OBVIOUS
  <2> HIDE DEF S, page
  <2> QED BY <2>2, <2>3, SeqMonotonic
<1>2. one \in S /\ is_active(one)
  <2>1. <<mark.value>> # <<>>
    OBVIOUS
  <2>2. one.op = "is" /\ one.values = <<mark.value>>
    BY DEF Equals
  <2> HIDE DEF one
  <2> QED BY <2>1, <2>2 DEF is_active, In
<1>3. drillFilters(Undrilled) = <<>>
  <2> DEFINE f == drillFilters(Undrilled)
  <2>1. Undrilled.path = <<>>
    BY DEF Undrilled
  <2>2. f = [i \in {} |-> Equals(Undrilled.path[i].field, <<Undrilled.path[i].value>>)]
    BY <2>1, NothingIn DEF drillFilters
  <2> HIDE DEF f
  <2>3. f \in [{} -> {}] /\ 1..0 = {}
    BY <2>2
  <2>4. f \in Seq({}) /\ Len(f) = 0
    <3>1. f \in [1..0 -> {}]
      BY <2>3
    <3> QED BY <3>1
  <2> QED BY <2>4, EmptySeq DEF f
<1> HIDE DEF S, one
<1>4. s \in Seq(S) /\ doc.filters \o page.filters \in Seq(S)
  BY <1>1, ConcatProperties
<1>5. effectiveFilters(doc, page, v, <<>>, Undrilled, mark) = Active(s) \o extra
  <2>1. doc.filters \o page.filters \o <<>> \o v.filters \o drillFilters(Undrilled) = s
    <3>1. (doc.filters \o page.filters) \o <<>> = doc.filters \o page.filters
      BY <1>4, ConcatEmptySeq
    <3>2. s \o <<>> = s
      BY <1>4, ConcatEmptySeq
    <3> QED BY <1>3, <3>1, <3>2
  <2>2. (IF mark = NoMark \/ mark.source = v.id THEN <<>> ELSE <<Equals(mark.field, <<mark.value>>)>>) = extra
    BY <1>1
  <2> QED BY <2>1, <2>2, Zenon DEF effectiveFilters
<1>6. Active(s \o extra) = Active(s) \o extra /\ s \o extra \in Seq(S)
  <2>1. CASE mark = NoMark
    <3>1. extra = <<>> /\ Active(s) \in Seq(S)
      BY <1>4, <2>1, ActiveBuilds DEF Builds
    <3>2. s \o <<>> = s /\ Active(s) \o <<>> = Active(s)
      BY <1>4, <3>1, ConcatEmptySeq
    <3> QED BY <1>4, <3>1, <3>2
  <2>2. CASE mark # NoMark
    <3>1. extra = <<one>> /\ <<one>> \in Seq(S)
      BY <1>2, <2>2 DEF one
    <3>2. s \o <<one>> \in Seq(S)
      BY <1>4, <3>1, ConcatProperties
    <3> QED BY <1>2, <1>4, <3>1, <3>2, ActiveThenOne
  <2> QED BY <2>1, <2>2
<1> QED BY <1>4, <1>5, <1>6 DEF FreshAre

(* What becomes of a request that another one differs from only in filters   *)
(* that add nothing.                                                         *)
SameBut(q, r) ==
  /\ q.dims = r.dims /\ q.mets = r.mets /\ q.facts = r.facts /\ q.order = r.order /\ q.limit = r.limit
  /\ q.combos = r.combos /\ build_filter_predicates(q.filters) = build_filter_predicates(r.filters)

LEMMA SameStatement ==
  ASSUME NEW q, NEW r, SameBut(q, r), ~ BadFilter(detail, q), ~ BadFilter(detail, r)
  PROVE  build_semantic_sql(detail, q, RowCap) = build_semantic_sql(detail, r, RowCap)
<1>1. /\ q.dims = r.dims /\ q.mets = r.mets /\ q.facts = r.facts /\ q.order = r.order /\ q.limit = r.limit
      /\ q.combos = r.combos /\ build_filter_predicates(q.filters) = build_filter_predicates(r.filters)
  BY DEF SameBut
<1>2. Where(q) = Where(r)
  BY <1>1, Zenon DEF Where
<1>3. _plan_and_repair_join(detail, q) = _plan_and_repair_join(detail, r)
  BY <1>1, Zenon DEF _plan_and_repair_join, Bridged, Unshadowed
<1>4. Unresolved(detail, q) <=> Unresolved(detail, r)
  BY <1>1 DEF Unresolved
<1>5. OrderHits(q) = OrderHits(r)
  BY <1>1 DEF OrderHits
<1> DEFINE join == _plan_and_repair_join(detail, q)
           where == Where(q)
           max == RowCap
<1>6. \A B : Selecting(q, B, where, max) = Selecting(r, B, where, max)
  <2> HIDE DEF where, max
  <2> QED BY <1>1 DEF Selecting
<1>7. Joined(detail, q, max, join) = Joined(detail, r, max, join)
  <2> DEFINE done == Selecting(q, {join.bridge} \ {NoField}, where, max)
  <2>1. done = Selecting(r, {join.bridge} \ {NoField}, where, max)
    BY <1>6
  <2>2. where = Where(q) /\ where = Where(r)
    BY <1>2
  <2> HIDE DEF join, where, max
  <2>3. Joined(detail, q, max, join) =
          IF Unresolved(detail, q) THEN Refused("field")
          ELSE IF q.mets # {} /\ q.facts # {} THEN Refused("grain")
          ELSE IF q.dims \cup q.mets \cup q.facts = {} THEN Refused("nothing")
          ELSE IF q.facts # {} /\ q.dims # {} /\ Cardinality(TablesOf(q.facts \cup q.dims)) > 1
               THEN Refused("fact")
          ELSE IF join.plan.blocked # {} THEN [refused |-> "blocked", plan |-> join.plan]
          ELSE IF q.order # NoField /\ Cardinality(OrderHits(q)) # 1 THEN Refused("order")
          ELSE done
    BY <2>2, Zenon DEF Joined
  <2>4. Joined(detail, r, max, join) =
          IF Unresolved(detail, r) THEN Refused("field")
          ELSE IF r.mets # {} /\ r.facts # {} THEN Refused("grain")
          ELSE IF r.dims \cup r.mets \cup r.facts = {} THEN Refused("nothing")
          ELSE IF r.facts # {} /\ r.dims # {} /\ Cardinality(TablesOf(r.facts \cup r.dims)) > 1
               THEN Refused("fact")
          ELSE IF join.plan.blocked # {} THEN [refused |-> "blocked", plan |-> join.plan]
          ELSE IF r.order # NoField /\ Cardinality(OrderHits(r)) # 1 THEN Refused("order")
          ELSE done
    BY <2>1, <2>2, Zenon DEF Joined
  <2> DEFINE field == Refused("field")
             grain == Refused("grain")
             nothing == Refused("nothing")
             fact == Refused("fact")
             order == Refused("order")
             blocked == [refused |-> "blocked", plan |-> join.plan]
             mixed == q.mets # {} /\ q.facts # {}
             empty == q.dims \cup q.mets \cup q.facts = {}
             apart == q.facts # {} /\ q.dims # {} /\ Cardinality(TablesOf(q.facts \cup q.dims)) > 1
             unclear == q.order # NoField /\ Cardinality(OrderHits(q)) # 1
  <2>5. /\ r.mets # {} /\ r.facts # {} <=> mixed
        /\ r.dims \cup r.mets \cup r.facts = {} <=> empty
        /\ r.facts # {} /\ r.dims # {} /\ Cardinality(TablesOf(r.facts \cup r.dims)) > 1 <=> apart
        /\ r.order # NoField /\ Cardinality(OrderHits(r)) # 1 <=> unclear
    BY <1>1, <1>5, Zenon
  <2>6. Joined(detail, q, max, join) =
          IF Unresolved(detail, q) THEN field ELSE IF mixed THEN grain ELSE IF empty THEN nothing
          ELSE IF apart THEN fact ELSE IF join.plan.blocked # {} THEN blocked
          ELSE IF unclear THEN order ELSE done
    BY <2>3
  <2> HIDE DEF done, field, grain, nothing, fact, order, blocked, mixed, empty, apart, unclear
  <2>7. Joined(detail, r, max, join) =
          IF Unresolved(detail, q) THEN field ELSE IF mixed THEN grain ELSE IF empty THEN nothing
          ELSE IF apart THEN fact ELSE IF join.plan.blocked # {} THEN blocked
          ELSE IF unclear THEN order ELSE done
    BY <1>4, <2>4, <2>5, Zenon DEF field, grain, nothing, fact, order, blocked
  <2> QED BY <2>6, <2>7
<1>8. build_semantic_sql(detail, q, RowCap) = Joined(detail, q, max, join)
  BY DEF build_semantic_sql
<1>9. build_semantic_sql(detail, r, RowCap) = Joined(detail, r, max, join)
  BY <1>3 DEF build_semantic_sql
<1> QED BY <1>7, <1>8, <1>9

TileAsks(tile, v, D, M, s) ==
  IsRequest(tile, D, M \ detail.facts, splitMeasures(M, v.aggregations), s,
            IF v.sort.field \in D \cup M THEN v.sort.field ELSE NoField,
            IF v.sort.direction = "desc" THEN "desc" ELSE "asc",
            IF v.sort.field \in D \cup M THEN v.topN ELSE 0)

FeedAsks(feed, v, D, M, s) ==
  LET aggregated == DOMAIN v.aggregations \cap M IN
  IsRequest(feed, D, M \ aggregated, [f \in aggregated |-> v.aggregations[f]], s,
            v.sort.field, IF v.sort.direction = "" THEN "desc" ELSE v.sort.direction, v.topN)

(* Where a document means the same to both, they ask the same.               *)
Alike(q, r) ==
  /\ q.dims = r.dims /\ q.mets = r.mets /\ q.facts = r.facts /\ q.order = r.order /\ q.limit = r.limit
  /\ q.combos = r.combos

LEMMA AskAlike ==
  ASSUME NEW v, VisualTyped(v), NEW tile, NEW feed, NEW D, NEW M, NEW s, NEW t,
         TileAsks(tile, v, D, M, s), FeedAsks(feed, v, D, M, t),
         ~ ReadDifferently(v, tile.q, t)
  PROVE  Alike(feed.q, tile.q) /\ feed.fns = tile.fns /\ feed.direction = tile.direction
<1> DEFINE aggregated == DOMAIN v.aggregations \cap M
           F == M \cap detail.facts
           fns == splitMeasures(M, v.aggregations)
           stored == [f \in aggregated |-> v.aggregations[f]]
<1>1. fns = [f \in F |-> IF f \in DOMAIN v.aggregations THEN v.aggregations[f] ELSE "sum"]
  BY DEF splitMeasures
<1>2. /\ tile.q.dims = D /\ tile.q.mets = M \ detail.facts /\ tile.q.facts = F /\ tile.q.combos = <<>>
      /\ tile.fns = fns
  <2>1. DOMAIN fns = F
    BY <1>1
  <2> HIDE DEF fns
  <2> QED BY <2>1 DEF IsRequest, TileAsks, fns, F
<1>3. /\ feed.q.dims = D /\ feed.q.mets = M \ aggregated /\ feed.q.facts = aggregated
      /\ feed.q.combos = <<>> /\ feed.fns = stored
  <2>1. DOMAIN stored = aggregated
    OBVIOUS
  <2> HIDE DEF stored
  <2> QED BY <2>1 DEF IsRequest, FeedAsks, stored
<1>4. /\ v.sort.field \in D \cup M \cup {NoField}
      /\ v.sort.field = NoField => v.topN = 0
      /\ v.sort.field # NoField => v.sort.direction # ""
      /\ F \subseteq DOMAIN v.aggregations /\ DOMAIN v.aggregations \cap (M \ detail.facts) = {}
  <2>1. /\ v.sort.field \in tile.q.dims \cup tile.q.mets \cup tile.q.facts \cup {NoField}
        /\ v.sort.field = NoField => v.topN = 0
        /\ v.sort.field # NoField => v.sort.direction # ""
        /\ tile.q.facts \subseteq DOMAIN v.aggregations
        /\ DOMAIN v.aggregations \cap tile.q.mets = {}
    BY DEF ReadDifferently
  <2> QED BY <1>2, <2>1
<1>5. aggregated = F
  BY <1>4
<1>6. stored = fns
  BY <1>1, <1>4, <1>5
<1>7. M \ aggregated = M \ detail.facts
  BY <1>5
<1> HIDE DEF F, fns, stored, aggregated
<1>8. feed.q.order = tile.q.order /\ feed.q.limit = tile.q.limit
  <2>1. /\ feed.q.order = v.sort.field /\ feed.q.limit = v.topN
        /\ tile.q.order = IF v.sort.field \in D \cup M THEN v.sort.field ELSE NoField
        /\ tile.q.limit = IF v.sort.field \in D \cup M THEN v.topN ELSE 0
    BY DEF IsRequest, TileAsks, FeedAsks
  <2> QED BY <1>4, <2>1
<1>9. feed.direction = tile.direction
  <2>1. feed.direction = IF v.sort.field = NoField THEN ""
                         ELSE IF v.sort.direction = "" THEN "desc" ELSE v.sort.direction
    BY DEF IsRequest, TileAsks, FeedAsks
  <2>2. tile.direction = IF tile.q.order = NoField THEN ""
                         ELSE IF v.sort.direction = "desc" THEN "desc" ELSE "asc"
    BY DEF IsRequest, TileAsks, FeedAsks
  <2>3. tile.q.order = v.sort.field
    <3>1. feed.q.order = v.sort.field
      BY DEF IsRequest, TileAsks, FeedAsks
    <3> QED BY <1>8, <3>1
  <2>4. v.sort.direction \in {"", "asc", "desc"}
    BY DEF VisualTyped
  <2> QED BY <1>4, <2>1, <2>2, <2>3, <2>4
<1> QED BY <1>2, <1>3, <1>5, <1>6, <1>7, <1>8, <1>9 DEF Alike

LEMMA FeedHolds ==
  ASSUME ReportInv
  PROVE  FeedShowsReport
<1> SUFFICES ASSUME doc # NoDoc, NEW p \in DOMAIN doc.pages, NEW v \in Shown(p),
                    NEW mark, mark \in {NoMark, [ui.cross EXCEPT !.source = 0]},
                    NEW fresh, fresh = [FreshUi(doc) EXCEPT !.cross = mark],
                    NEW extra, extra = IF mark = NoMark THEN <<>> ELSE <<Equals(mark.field, <<mark.value>>)>>,
                    NEW tile, tile = useVisualQuery(p, v, fresh),
                    NEW feed, feed = build_feed_request(p, v, extra),
                    ~ ReadDifferently(v, tile.q, feed.q.filters)
             PROVE  SameAnswer(feed, tile)
  BY ZenonT(60) DEF FeedShowsReport
<1>1. DocumentTyped(doc) /\ parse_definition(doc) /\ UiWhole /\ DescribedView
  BY DEF ReportInv
<1>2. mark = NoMark \/ mark.source = 0
  BY <1>1 DEF UiWhole
<1>3. PICK i \in DOMAIN Visuals(doc) : v = Visuals(doc)[i]
  <2>1. doc.pages # <<>>
    BY <1>1 DEF parse_definition
  <2>2. v \in ToSet(Visuals(doc))
    BY <1>1, <2>1, VisualsPlaced DEF Shown
  <2> QED BY <2>2 DEF ToSet
<1>4. fresh.slicers = <<>> /\ fresh.cross = mark /\ fresh.drill[v.id] = Undrilled
  <2>1. v.id \in VisualIds(doc)
    BY <1>3 DEF VisualIds
  <2> QED BY <2>1 DEF FreshUi
<1>5. VisualTyped(v)
  <2>1. doc.pages[p] \in ToSet(doc.pages)
    BY DEF ToSet
  <2> QED BY <1>1, <2>1 DEF DocumentTyped, Shown
<1> DEFINE D == DimensionsOf(v, FedWells(v))
           M == MeasuresOf(v, FedWells(v))
           s == doc.filters \o doc.pages[p].filters \o v.filters
           all == s \o extra
           aggregated == DOMAIN v.aggregations \cap M
           shown == resolveWells(v.wells, doc, Undrilled)
<1>6. DimensionsOf(v, shown) = D /\ MeasuresOf(v, shown) = M
  BY <1>1, <1>3, SameRefs DEF DimensionsOf, MeasuresOf
<1>7. FreshAre(p, v, mark, extra, s)
  <2>1. s = doc.filters \o doc.pages[p].filters \o v.filters
    OBVIOUS
  <2> HIDE DEF s
  <2> QED BY <1>1, <1>2, <2>1, FreshFilters
<1>8. PICK S : all \in Seq(S)
  BY <1>7 DEF FreshAre
<1> HIDE DEF D, M, s
<1>9. TileAsks(tile, v, D, M, Active(all))
  <2>1. TileOf(tile, p, v, fresh)
    BY TileIs
  <2>2. slicerFiltersFrom(fresh.slicers) = <<>>
    BY <1>4, NoSlicers
  <2> QED BY <1>4, <1>6, <1>7, <2>1, <2>2, Zenon DEF TileOf, TileAsks, FreshAre, shown, all
<1>10. FeedAsks(feed, v, D, M, all)
  <2>1. IsRequest(build_feed_request(p, v, extra), D, M \ aggregated,
                  [f \in aggregated |-> v.aggregations[f]],
                  doc.filters \o doc.pages[p].filters \o v.filters \o extra,
                  v.sort.field, IF v.sort.direction = "" THEN "desc" ELSE v.sort.direction, v.topN)
    BY FedIs DEF D, M
  <2> QED BY <2>1 DEF s, FeedAsks
<1> HIDE DEF aggregated, all
<1>11. feed.q.filters = all /\ tile.q.filters = Active(all)
  BY <1>9, <1>10 DEF IsRequest, TileAsks, FeedAsks
<1>12. Alike(feed.q, tile.q) /\ feed.fns = tile.fns /\ feed.direction = tile.direction
  <2>1. ~ ReadDifferently(v, tile.q, all)
    BY <1>11
  <2> QED BY <1>5, <1>9, <1>10, <2>1, AskAlike
<1>13. Builds(S, all)
  BY <1>8, ActiveBuilds
<1>14. SameBut(feed.q, tile.q)
  BY <1>11, <1>12, <1>13 DEF SameBut, Alike, Builds
<1>15. ASSUME Statement(tile).refused = "" PROVE Statement(feed) = Statement(tile)
  <2>1. Stated(tile.q, Statement(tile))
    BY <1>15 DEF Stated, Statement
  <2>2. Described(detail)
    BY <1>1, ViewIs
  <2>3. ~ BadFilter(detail, tile.q)
    <3> DEFINE sql == Statement(tile)
    <3>1. Stated(tile.q, sql)
      BY <2>1
    <3> HIDE DEF sql
    <3> QED BY <2>2, <3>1, StatementIs
  <2>4. \A j \in DOMAIN Active(all) : Active(all)[j].field \in _filterable(detail)
    BY <1>11, <2>3 DEF BadFilter
  <2>5. \A f \in ToSet(all) : f.field \in _filterable(detail)
    <3>1. \A f \in ToSet(all) : ~ is_active(f) => f.field \in _filterable(detail)
      BY <1>11 DEF ReadDifferently
    <3>2. \A f \in ToSet(all) : is_active(f) => f \in ToSet(Active(all))
      BY <1>13 DEF Builds
    <3> QED BY <2>4, <3>1, <3>2 DEF ToSet
  <2>6. feed.q.combos = <<>>
    BY <1>10 DEF IsRequest, FeedAsks
  <2>7. ~ BadFilter(detail, feed.q)
    BY <1>11, <2>5, <2>6, NothingIn DEF BadFilter, ToSet
  <2> QED BY <1>14, <2>3, <2>7, SameStatement DEF Statement
<1> QED BY <1>12, <1>15 DEF SameAnswer

(* Where the freshly opened tile has an answer, the feed of the same visual  *)
(* has the same statement, functions and direction, with a filter of its URL *)
(* for a selected mark, unless the two are known to read the document        *)
(* differently (feed/service.py).                                            *)
THEOREM FeedCorrect == VisualsSpec => []FeedShowsReport
<1> QED BY ReportInvHolds, FeedHolds, PTL
=============================================================================
