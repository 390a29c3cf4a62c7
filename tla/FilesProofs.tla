----------------------------- MODULE FilesProofs -----------------------------
(***************************************************************************)
(* Proofs about Files for every number of requests and files: that the two *)
(* stores together implement Shelf, that nothing is left behind, and how   *)
(* far uploads that overlap exceed the plan.                               *)
(*                                                                         *)
(* IInv says of each request what the order of its calls has established:  *)
(* until its row is written a file is known to its uploader alone, so      *)
(* whoever comes to open or delete it finds the content already put; and   *)
(* whoever is about to delete the row has removed the content for good.    *)
(***************************************************************************)
EXTENDS Files, FiniteSetTheorems, TLAPS

\* An upload that has not written its row yet.
Unrecorded(p) == req[p].pc \in {"project", "quota", "put", "rename", "record"}

Underway(p) ==
    LET f == req[p].file IN
    /\ At(p, "idle") <=> f = None
    /\ Unrecorded(p) => row[f] = "never" /\ \A q \in Proc \ {p} : req[q].file # f
    /\ At(p, "record") => f \in object
    /\ At(p, "undo") => f \notin promised
    /\ req[p].pc \in {"remove", "forget", "open"} => row[f] # "never"
    /\ req[p].pc \in {"remove", "forget"} => f \in asked
    /\ At(p, "forget") => f \notin object

ReqInv == \A p \in Proc : Underway(p)

IInv == TypeOK /\ ReqInv /\ NothingLeftBehind

-----------------------------------------------------------------------------
\* What a step does to the request it is a step of, and to no other.

LEMMA NoRequestTyped ==
    NoRequest \in Request /\ NoRequest.pc = "idle" /\ NoRequest.file = None
    BY DEF NoRequest, Request

Alone(p) == req' \in [Proc -> Request] /\ \A q \in Proc \ {p} : req'[q] = req[q]

LEMMA GotoFields ==
    ASSUME TypeOK, NEW p \in Proc,
           NEW l \in {"quota", "put", "rename", "record", "undo", "forget"}, Goto(p, l)
    PROVE  Alone(p) /\ req'[p].pc = l /\ req'[p].file = req[p].file
<1>1. req[p] \in Request /\ req' = [req EXCEPT ![p] = [req[p] EXCEPT !.pc = l]]
    BY DEF TypeOK, Goto
<1>2. [req[p] EXCEPT !.pc = l] \in Request
    BY <1>1 DEF Request
<1> QED
    BY <1>1, <1>2 DEF TypeOK, Alone, Request

LEMMA AnswerFields ==
    ASSUME TypeOK, NEW p \in Proc, Answer(p)
    PROVE  Alone(p) /\ req'[p].pc = "idle" /\ req'[p].file = None
    BY NoRequestTyped DEF TypeOK, Answer, Alone

LEMMA BeginFields ==
    ASSUME TypeOK, NEW p \in Proc, NEW op \in {"upload", "delete", "open"},
           NEW l \in {"project", "quota", "remove", "open"}, NEW f \in File,
           Begin(p, op, l, f)
    PROVE  Alone(p) /\ req'[p].pc = l /\ req'[p].file = f /\ req[p].pc = "idle"
<1> DEFINE g == [op |-> op, pc |-> l, file |-> f]
<1>1. g \in Request /\ g.pc = l /\ g.file = f
    BY DEF Request
<1>2. req' = [req EXCEPT ![p] = g] /\ req[p].pc = "idle"
    BY DEF Begin, At
<1> HIDE DEF g
<1> QED
    BY <1>1, <1>2 DEF TypeOK, Alone

-----------------------------------------------------------------------------
\* The reach of a step of p: it takes up no file that somebody is uploading,
\* and touches no file but its own, which it puts or promises only before the
\* row is written.
Reach(p) ==
    LET f == req[p].file IN
    /\ Alone(p)
    /\ asked \subseteq asked'
    /\ req'[p].file # None =>
         \/ req'[p].file = f \/ row[req'[p].file] # "never" \/ ~InUse(req'[p].file)
    /\ \A g \in File : /\ row[g] # "never" => row'[g] # "never"
                       /\ g # f => /\ row'[g] = row[g]
                                   /\ g \in object' <=> g \in object
                                   /\ g \in promised' <=> g \in promised
    /\ ~Unrecorded(p) =>
         (f \in object' => f \in object) /\ (f \in promised' => f \in promised)

\* What the others have established is theirs to change.
LEMMA ReachKeeps ==
    ASSUME TypeOK, ReqInv, NEW p \in Proc, NEW q \in Proc \ {p}, Reach(p)
    PROVE  Underway(q)'
<1> DEFINE f == req[p].file
           h == req[q].file
<1>1. Underway(p) /\ Underway(q) /\ h \in File \cup {None}
    BY DEF ReqInv, TypeOK, Request
<1>2. req'[q] = req[q] /\ \A o \in Proc \ {p} : req'[o] = req[o]
    BY DEF Reach, Alone
<1>3. CASE Unrecorded(q)
    <2>1. /\ h # None /\ h # f /\ row[h] = "never" /\ h \in File
          /\ \A o \in Proc \ {q} : req[o].file # h
        BY <1>1, <1>3 DEF Underway, Unrecorded, At
    <2>2. row'[h] = "never" /\ (h \in object' <=> h \in object)
        BY <2>1 DEF Reach
    <2>3. InUse(h)
        BY DEF InUse
    <2>4. req'[p].file # h
        BY <2>1, <2>3 DEF Reach
    <2>5. \A o \in Proc \ {q} : req'[o].file # h
        BY <1>2, <2>1, <2>4
    <2> QED
        BY <1>1, <1>2, <1>3, <2>2, <2>5 DEF Underway, Unrecorded, At
<1>4. CASE ~Unrecorded(q)
    <2>1. h = f /\ h # None => ~Unrecorded(p)
        BY <1>1 DEF Underway
    <2>2. h # None => h \in File /\ (h \in promised' => h \in promised)
                      /\ (h \in object' => h \in object)
        BY <1>1, <2>1 DEF Reach
    <2>3. h # None => (row[h] # "never" => row'[h] # "never")
        BY <2>2 DEF Reach
    <2>4. asked \subseteq asked'
        BY DEF Reach
    <2> QED
        BY <1>1, <1>2, <1>4, <2>2, <2>3, <2>4 DEF Underway, Unrecorded, At
<1> QED
    BY <1>3, <1>4

LEMMA ReachInv ==
    ASSUME TypeOK, ReqInv, NEW p \in Proc, Reach(p), Underway(p)'
    PROVE  ReqInv'
    BY ReachKeeps DEF ReqInv

-----------------------------------------------------------------------------
\* The steps

\* A request that is answered, or stops.
LEMMA AnswerUnderway ==
    ASSUME TypeOK, NEW p \in Proc, Answer(p)
    PROVE  Underway(p)' /\ Alone(p) /\ req'[p].file = None
    BY AnswerFields DEF Underway, Unrecorded, At

LEMMA UploadInv ==
    ASSUME IInv, NEW p \in Proc, NEW f \in File, Upload(p, f)
    PROVE  IInv'
<1> USE DEF IInv
<1>1. PICK l \in {"project", "quota"} : Begin(p, "upload", l, f)
    BY DEF Upload
<1>2. /\ Alone(p) /\ req'[p].pc = l /\ req'[p].file = f
      /\ UNCHANGED <<row, object, promised, asked>>
      /\ row[f] = "never" /\ ~InUse(f) /\ f # None
    BY <1>1, BeginFields, FilesAssumption DEF Upload, Fresh
<1>3. Reach(p)
    BY <1>2 DEF Reach
<1>4. Underway(p)'
    BY <1>2 DEF Underway, Unrecorded, At, Alone, InUse
<1> QED
    BY <1>2, <1>3, <1>4, ReachInv DEF TypeOK, Alone, NothingLeftBehind

LEMMA FindInv ==
    ASSUME IInv, NEW p \in Proc, NEW f \in File, Open(p, f) \/ Delete(p, f)
    PROVE  IInv'
<1> USE DEF IInv
<1>1. /\ Alone(p) /\ req'[p].file = f /\ Listed(f) /\ f # None
      /\ UNCHANGED <<row, object, promised>> /\ asked \subseteq asked'
      /\ \/ req'[p].pc = "open" /\ asked' = asked
         \/ req'[p].pc = "remove" /\ asked' = asked \cup {f}
    BY BeginFields, FilesAssumption DEF Open, Delete
<1>2. Reach(p)
    BY <1>1 DEF Reach, Listed
<1>3. Underway(p)'
    BY <1>1 DEF Underway, Unrecorded, At, Listed
<1> QED
    BY <1>1, <1>2, <1>3, ReachInv DEF TypeOK, Alone, NothingLeftBehind, Listed

\* The file a request is about.
LEMMA FileOf ==
    ASSUME IInv, NEW p \in Proc
    PROVE  /\ Underway(p)
           /\ ~At(p, "idle") => req[p].file \in File /\ req[p].file # None
    BY FilesAssumption DEF IInv, ReqInv, Underway, TypeOK, Request

LEMMA StepUploadInv ==
    ASSUME IInv, NEW p \in Proc, StepUpload(p)
    PROVE  IInv'
<1> DEFINE f == req[p].file
<1> USE DEF IInv
<1>1. Underway(p) /\ f \in File /\ f # None
    BY FileOf DEF StepUpload, ProjectExists, CheckStorageQuota, PutTemporary, Rename, PutObject,
       PutFails, CreateRow, CreateRowFails, UndoPut, At
\* Going on, or being answered, without a write.
<1>2. ASSUME UNCHANGED <<row, object, promised, asked>>,
             \/ Answer(p)
             \/ Unrecorded(p) /\ \E l \in {"quota", "put", "rename"} : Goto(p, l)
      PROVE  IInv'
    <2>1. Alone(p) /\ req'[p].file \in {None, f}
        BY <1>2, AnswerFields, GotoFields
    <2>2. Reach(p)
        BY <1>2, <2>1 DEF Reach
    <2>3. Underway(p)'
        BY <1>1, <1>2, <2>1, AnswerUnderway, GotoFields DEF Underway, Unrecorded, At, Alone
    <2> QED
        BY <1>2, <2>1, <2>2, <2>3, ReachInv DEF TypeOK, Alone, NothingLeftBehind
<1>3. CASE ProjectExists(p) \/ CheckStorageQuota(p) \/ PutTemporary(p)
    BY <1>2, <1>3 DEF ProjectExists, CheckStorageQuota, PutTemporary, Unrecorded, At
\* The content is put while the file is unknown to others.
<1>4. CASE Rename(p) \/ PutObject(p)
    <2>1. /\ Unrecorded(p) /\ object' = object \cup {f} /\ UNCHANGED <<row, promised, asked>>
          /\ Alone(p) /\ req'[p].pc = "record" /\ req'[p].file = f
        BY <1>4, GotoFields DEF Rename, PutObject, Unrecorded, At
    <2>2. Reach(p)
        BY <2>1 DEF Reach
    <2>3. Underway(p)'
        BY <1>1, <2>1 DEF Underway, Unrecorded, At, Alone
    <2>4. row[f] = "never"
        BY <1>1, <2>1 DEF Underway
    <2> QED
        BY <1>1, <2>1, <2>2, <2>3, <2>4, ReachInv DEF TypeOK, Alone, NothingLeftBehind
<1>5. CASE PutFails(p)
    <2>1. /\ Unrecorded(p) /\ object' \in {object, object \cup {f}}
          /\ UNCHANGED <<row, promised, asked>>
          /\ Alone(p) /\ req'[p].file = None /\ Underway(p)'
        BY <1>5, AnswerUnderway DEF PutFails, Unrecorded, At
    <2>2. Reach(p)
        BY <2>1 DEF Reach
    <2>3. row[f] = "never"
        BY <1>1, <2>1 DEF Underway
    <2> QED
        BY <1>1, <2>1, <2>2, <2>3, ReachInv DEF TypeOK, Alone, NothingLeftBehind
<1>6. CASE CreateRow(p)
    <2>1. /\ Unrecorded(p) /\ row' = [row EXCEPT ![f] = "present"]
          /\ promised' = promised \cup {f} /\ UNCHANGED <<object, asked>>
          /\ Alone(p) /\ req'[p].file = None /\ Underway(p)'
        BY <1>6, AnswerUnderway DEF CreateRow, Unrecorded, At
    <2>2. Reach(p)
        BY <1>1, <2>1 DEF Reach, TypeOK
    <2> QED
        BY <1>1, <2>1, <2>2, ReachInv DEF TypeOK, Alone, NothingLeftBehind
<1>7. CASE CreateRowFails(p)
    <2>1. /\ Unrecorded(p) /\ row' \in {row, [row EXCEPT ![f] = "present"]}
          /\ UNCHANGED <<object, promised, asked>>
          /\ Alone(p) /\ req'[p].pc = "undo" /\ req'[p].file = f
        BY <1>7, GotoFields DEF CreateRowFails, Unrecorded, At
    <2>2. Reach(p)
        BY <1>1, <2>1 DEF Reach, TypeOK
    <2>3. f \notin promised
        BY <1>1, <2>1 DEF Underway, TypeOK
    <2>4. Underway(p)'
        BY <1>1, <2>1, <2>3 DEF Underway, Unrecorded, At
    <2> QED
        BY <1>1, <2>1, <2>2, <2>4, ReachInv DEF TypeOK, Alone, NothingLeftBehind
<1>8. CASE UndoPut(p)
    <2>1. /\ object' \in {object, object \ {f}} /\ UNCHANGED <<row, promised, asked>>
          /\ Alone(p) /\ req'[p].file = None /\ Underway(p)'
        BY <1>8, AnswerUnderway DEF UndoPut
    <2>2. Reach(p)
        BY <2>1 DEF Reach
    <2> QED
        BY <2>1, <2>2, ReachInv DEF TypeOK, Alone, NothingLeftBehind
<1> QED
    BY <1>3, <1>4, <1>5, <1>6, <1>7, <1>8 DEF StepUpload

LEMMA StepDeleteInv ==
    ASSUME IInv, NEW p \in Proc, StepDelete(p)
    PROVE  IInv'
<1> DEFINE f == req[p].file
<1> USE DEF IInv
<1>1. Underway(p) /\ f \in File /\ f # None
    BY FileOf DEF StepDelete, RemoveObject, RemoveObjectFails, DeleteRow, At
<1>2. CASE RemoveObject(p)
    <2>1. /\ At(p, "remove") /\ object' = object \ {f} /\ UNCHANGED <<row, promised, asked>>
          /\ Alone(p) /\ req'[p].pc = "forget" /\ req'[p].file = f
        BY <1>2, GotoFields DEF RemoveObject
    <2>2. Reach(p)
        BY <2>1 DEF Reach
    <2>3. Underway(p)'
        BY <1>1, <2>1 DEF Underway, Unrecorded, At
    <2> QED
        BY <2>1, <2>2, <2>3, ReachInv DEF TypeOK, Alone, NothingLeftBehind
<1>3. CASE RemoveObjectFails(p)
    <2>1. /\ object' \in {object, object \ {f}} /\ UNCHANGED <<row, promised, asked>>
          /\ Alone(p) /\ req'[p].file = None /\ Underway(p)'
        BY <1>3, AnswerUnderway DEF RemoveObjectFails
    <2>2. Reach(p)
        BY <2>1 DEF Reach
    <2> QED
        BY <2>1, <2>2, ReachInv DEF TypeOK, Alone, NothingLeftBehind
<1>4. CASE DeleteRow(p)
    <2>1. /\ row' = [row EXCEPT ![f] = "gone"] /\ UNCHANGED <<object, promised, asked>>
          /\ At(p, "forget") /\ Alone(p) /\ req'[p].file = None /\ Underway(p)'
        BY <1>4, AnswerUnderway DEF DeleteRow
    <2>2. Reach(p)
        BY <1>1, <2>1 DEF Reach, TypeOK
    <2>3. f \notin object
        BY <1>1, <2>1 DEF Underway
    <2> QED
        BY <1>1, <2>1, <2>2, <2>3, ReachInv DEF TypeOK, Alone, NothingLeftBehind
<1> QED
    BY <1>2, <1>3, <1>4 DEF StepDelete

LEMMA EndInv ==
    ASSUME IInv, NEW p \in Proc, OpenObject(p) \/ Stop(p)
    PROVE  IInv'
<1> USE DEF IInv
<1>1. /\ UNCHANGED <<row, object, promised, asked>>
      /\ Alone(p) /\ req'[p].file = None /\ Underway(p)'
    BY AnswerUnderway DEF OpenObject, Stop
<1>2. Reach(p)
    BY <1>1 DEF Reach
<1> QED
    BY <1>1, <1>2, ReachInv DEF TypeOK, Alone, NothingLeftBehind

LEMMA InitInv == Init => IInv
    BY NoRequestTyped DEF Init, IInv, TypeOK, ReqInv, Underway, Unrecorded, At,
       NothingLeftBehind

LEMMA StepInv ==
    ASSUME IInv, [Next]_vars
    PROVE  IInv'
<1>1. CASE UNCHANGED vars
    BY <1>1 DEF vars, IInv, TypeOK, ReqInv, Underway, Unrecorded, At, NothingLeftBehind
<1> QED
    BY <1>1, UploadInv, FindInv, StepUploadInv, StepDeleteInv, EndInv DEF Next, Step

\* Whatever fails between the object store and the files table, each request
\* finds what the order of the calls has established.
THEOREM Invariance == Spec => []IInv
<1>1. Init => IInv
    BY InitInv
<1>2. IInv /\ [Next]_vars => IInv'
    BY StepInv
<1> QED
    BY <1>1, <1>2, PTL DEF Spec

\* Every variable of the uploads and deletions stays in its type; in particular
\* only a file that has or had a row is promised, or asked to be deleted.
THEOREM TypeCorrect == Spec => []TypeOK
<1>1. IInv => TypeOK
    BY DEF IInv
<1> QED
    BY <1>1, Invariance, PTL

\* Delete never loses track of content: a row is deleted only once its object
\* is removed for good, however many deletions and uploads overlap or fail.
THEOREM NothingIsLeftBehind == Spec => []NothingLeftBehind
<1>1. IInv => NothingLeftBehind
    BY DEF IInv
<1> QED
    BY <1>1, Invariance, PTL

-----------------------------------------------------------------------------
\* Bytes is a fold, and a fold a function defined by recursion: that there is
\* such a function, and one only, takes an induction over the sets it is of.

\* The equation of the fold behind Bytes, on the subsets of S.
Adds(g, S) ==
    g = [s \in SUBSET S |-> IF s = {} THEN 0
                            ELSE SizeOf[CHOOSE x \in s : TRUE]
                                   + g[s \ {CHOOSE x \in s : TRUE}]]

\* Induction over finite sets, as a smallest counterexample.
LEMMA SmallestSet ==
    ASSUME NEW S, IsFiniteSet(S), NEW C \in SUBSET SUBSET S, C # {}
    PROVE  \E s \in C : \A t \in SUBSET s : t # s => t \notin C
<1>1. C \subseteq FiniteSubsetsOf(S)
    BY FS_FiniteSubsetsOfFinite
<1>2. PICK s \in C : \A t \in C : <<t, s>> \notin StrictSubsetOrdering(S)
    BY <1>1, FS_StrictSubsetOrderingWellFounded, WFMin
<1>3. \A t \in SUBSET s : t # s => t \notin C
    BY <1>2 DEF StrictSubsetOrdering
<1> QED
    BY <1>3

LEMMA BytesDef ==
    ASSUME NEW S, \E g : Adds(g, S)
    PROVE  \E g : Adds(g, S) /\ Bytes(S) = g[S]
    BY DEF Bytes, MapThenSumSet, MapThenFoldSet, Adds

LEMMA ChosenIn == \A s : s # {} => (CHOOSE x \in s : TRUE) \in s
    OBVIOUS

\* What one solution says of a subset, any other says.
LEMMA AddsAgree ==
    ASSUME NEW S, IsFiniteSet(S), NEW g, Adds(g, S), NEW T, NEW h, Adds(h, T)
    PROVE  \A s \in SUBSET (S \cap T) : g[s] = h[s]
<1> DEFINE C == {s \in SUBSET (S \cap T) : g[s] # h[s]}
<1> SUFFICES ASSUME C # {} PROVE FALSE
    OBVIOUS
<1>1. PICK s \in C : \A t \in SUBSET s : t # s => t \notin C
    <2>1. C \in SUBSET SUBSET S
        OBVIOUS
    <2> HIDE DEF C
    <2> QED
        BY <2>1, SmallestSet
<1>2. s \in SUBSET S /\ s \in SUBSET T /\ g[s] # h[s]
    BY <1>1
<1>3. s # {}
    BY <1>2 DEF Adds
<1> DEFINE x == CHOOSE x \in s : TRUE
<1>4. x \in s
    BY <1>3, ChosenIn
<1>5. g[s] = SizeOf[x] + g[s \ {x}] /\ h[s] = SizeOf[x] + h[s \ {x}]
    BY <1>2, <1>3 DEF Adds
<1> HIDE DEF x
<1>6. g[s \ {x}] = h[s \ {x}]
    BY <1>1, <1>2, <1>4
<1> QED
    BY <1>2, <1>5, <1>6

LEMMA AddsExists ==
    ASSUME NEW S, IsFiniteSet(S)
    PROVE  \E g : Adds(g, S)
<1> DEFINE C == {s \in SUBSET S : ~\E g : Adds(g, s)}
<1> SUFFICES ASSUME C # {} PROVE FALSE
    OBVIOUS
<1>1. PICK s \in C : \A t \in SUBSET s : t # s => t \notin C
    <2>1. C \in SUBSET SUBSET S
        OBVIOUS
    <2> HIDE DEF C
    <2> QED
        BY <2>1, SmallestSet
<1>2. s \in SUBSET S /\ ~\E g : Adds(g, s)
    BY <1>1
<1> DEFINE c(t) == CHOOSE x \in t : TRUE
           G(t) == CHOOSE g : Adds(g, t)
           f == [t \in SUBSET s |-> IF t = {} THEN 0
                                    ELSE SizeOf[c(t)] + G(t \ {c(t)})[t \ {c(t)}]]
<1>3. \A t \in SUBSET s : t # s => Adds(G(t), t)
    BY <1>1, <1>2
<1>4. \A t \in SUBSET s : t # {} =>
          c(t) \in t /\ t \ {c(t)} \in SUBSET s /\ t \ {c(t)} # s
    BY ChosenIn
<1>5. ASSUME NEW t \in SUBSET s, t # s
      PROVE  f[t] = G(t)[t]
    <2>1. Adds(G(t), t)
        BY <1>3, <1>5
    <2>2. CASE t = {}
        BY <2>1, <2>2 DEF Adds
    <2>3. CASE t # {}
        <3> DEFINE u == t \ {c(t)}
        <3>1. u \in SUBSET t /\ u \in SUBSET s /\ u # s
            BY <1>4, <2>3
        <3>2. Adds(G(u), u)
            BY <1>3, <3>1
        <3>3. IsFiniteSet(u)
            BY <1>2, <3>1, FS_Subset
        <3>4. G(u)[u] = G(t)[u]
            <4> HIDE DEF G, u
            <4> QED
                BY <2>1, <3>1, <3>2, <3>3, AddsAgree
        <3>5. G(t)[t] = SizeOf[c(t)] + G(t)[u]
            BY <2>1, <2>3 DEF Adds
        <3>6. f[t] = SizeOf[c(t)] + G(u)[u]
            BY <2>3
        <3> QED
            BY <3>4, <3>5, <3>6
    <2> QED
        BY <2>2, <2>3
<1>6. f = [t \in SUBSET s |-> IF t = {} THEN 0
                              ELSE SizeOf[c(t)] + f[t \ {c(t)}]]
    <2>1. ASSUME NEW t \in SUBSET s, t # {}
          PROVE  f[t \ {c(t)}] = G(t \ {c(t)})[t \ {c(t)}]
        BY <1>4, <1>5, <2>1
    <2> HIDE DEF G, c
    <2> QED
        BY <2>1
<1>7. Adds(f, s)
    BY <1>6 DEF Adds
<1> QED
    BY <1>2, <1>7

LEMMA BytesOfNone == Bytes({}) = 0
<1>1. PICK g : Adds(g, {}) /\ Bytes({}) = g[{}]
    BY FS_EmptySet, AddsExists, BytesDef
<1> QED
    BY <1>1 DEF Adds

\* The fold takes out the element it chooses.
LEMMA BytesOfChosen ==
    ASSUME NEW S, IsFiniteSet(S), S # {}
    PROVE  LET x == CHOOSE x \in S : TRUE
           IN  x \in S /\ Bytes(S) = SizeOf[x] + Bytes(S \ {x})
<1> DEFINE x == CHOOSE x \in S : TRUE
<1>1. x \in S /\ IsFiniteSet(S \ {x})
    BY ChosenIn, FS_RemoveElement
<1>2. PICK g : Adds(g, S) /\ Bytes(S) = g[S]
    BY AddsExists, BytesDef
<1>3. PICK h : Adds(h, S \ {x}) /\ Bytes(S \ {x}) = h[S \ {x}]
    BY <1>1, AddsExists, BytesDef
<1>4. g[S] = SizeOf[x] + g[S \ {x}]
    BY <1>2 DEF Adds
<1> HIDE DEF x
<1>5. g[S \ {x}] = h[S \ {x}]
    BY <1>2, <1>3, AddsAgree
<1> QED
    BY <1>1, <1>2, <1>3, <1>4, <1>5 DEF x

LEMMA BytesType ==
    ASSUME NEW S \in SUBSET File, IsFiniteSet(S)
    PROVE  Bytes(S) \in Nat
<1> DEFINE C == {s \in SUBSET S : Bytes(s) \notin Nat}
<1> SUFFICES ASSUME C # {} PROVE FALSE
    BY DEF C
<1>1. PICK s \in C : \A t \in SUBSET s : t # s => t \notin C
    <2>1. C \in SUBSET SUBSET S
        OBVIOUS
    <2> HIDE DEF C
    <2> QED
        BY <2>1, SmallestSet
<1>2. s \in SUBSET S /\ Bytes(s) \notin Nat /\ IsFiniteSet(s)
    BY <1>1, FS_Subset
<1>3. s # {}
    BY <1>2, BytesOfNone
<1>4. PICK x \in s : Bytes(s) = SizeOf[x] + Bytes(s \ {x})
    BY <1>2, <1>3, BytesOfChosen
<1>5. Bytes(s \ {x}) \in Nat
    BY <1>1, <1>2, <1>4
<1>6. SizeOf[x] \in Nat
    BY <1>2, FilesAssumption
<1> QED
    BY <1>2, <1>4, <1>5, <1>6

\* Any element may be taken out first.
LEMMA BytesWithout ==
    ASSUME NEW S \in SUBSET File, IsFiniteSet(S), NEW f \in S
    PROVE  Bytes(S) = SizeOf[f] + Bytes(S \ {f})
<1> DEFINE C == {s \in SUBSET S : \E y \in s : Bytes(s) # SizeOf[y] + Bytes(s \ {y})}
<1> SUFFICES ASSUME C # {} PROVE FALSE
    OBVIOUS
<1>1. PICK s \in C : \A t \in SUBSET s : t # s => t \notin C
    <2>1. C \in SUBSET SUBSET S
        OBVIOUS
    <2> HIDE DEF C
    <2> QED
        BY <2>1, SmallestSet
<1>2. PICK y \in s : Bytes(s) # SizeOf[y] + Bytes(s \ {y})
    BY <1>1
<1>3. s \in SUBSET S /\ IsFiniteSet(s)
    BY <1>1, FS_Subset
<1>4. PICK x \in s : Bytes(s) = SizeOf[x] + Bytes(s \ {x})
    BY <1>2, <1>3, BytesOfChosen
<1>5. x # y
    BY <1>2, <1>4
<1>6. ASSUME NEW t \in SUBSET s, t # s, NEW z \in t
      PROVE  Bytes(t) = SizeOf[z] + Bytes(t \ {z})
    BY <1>1, <1>3, <1>6
<1> HIDE DEF C
<1>7. Bytes(s \ {x}) = SizeOf[y] + Bytes((s \ {x}) \ {y})
    BY <1>5, <1>6
<1>8. Bytes(s \ {y}) = SizeOf[x] + Bytes((s \ {y}) \ {x})
    BY <1>5, <1>6
<1>9. (s \ {x}) \ {y} = (s \ {y}) \ {x}
    OBVIOUS
<1>10. SizeOf[x] \in Nat /\ SizeOf[y] \in Nat
    BY <1>3, FilesAssumption
<1>11. Bytes((s \ {x}) \ {y}) \in Nat
    <2>1. IsFiniteSet((s \ {x}) \ {y}) /\ (s \ {x}) \ {y} \in SUBSET File
        BY <1>3, FS_RemoveElement
    <2> HIDE DEF Bytes
    <2> QED
        BY <2>1, BytesType
<1>12. Bytes(s \ {y}) = SizeOf[x] + Bytes((s \ {x}) \ {y})
    BY <1>8, <1>9
<1>13. SizeOf[x] + (SizeOf[y] + Bytes((s \ {x}) \ {y}))
          = SizeOf[y] + (SizeOf[x] + Bytes((s \ {x}) \ {y}))
    BY <1>10, <1>11
<1> QED
    BY <1>2, <1>4, <1>7, <1>12, <1>13

LEMMA BytesMonotone ==
    ASSUME NEW S \in SUBSET File, NEW T \in SUBSET S
    PROVE  Bytes(T) <= Bytes(S)
<1> DEFINE C == {s \in SUBSET File : \E t \in SUBSET s : ~(Bytes(t) <= Bytes(s))}
<1> SUFFICES ASSUME C # {} PROVE FALSE
    OBVIOUS
<1>1. PICK s \in C : \A t \in SUBSET s : t # s => t \notin C
    <2>1. C \in SUBSET SUBSET File
        OBVIOUS
    <2> HIDE DEF C
    <2> QED
        BY <2>1, SmallestSet, FilesAssumption
<1>2. PICK t \in SUBSET s : ~(Bytes(t) <= Bytes(s))
    BY <1>1
<1>3. s \in SUBSET File /\ IsFiniteSet(s) /\ Bytes(s) \in Nat /\ Bytes(t) \in Nat
    BY <1>1, FilesAssumption, FS_Subset, BytesType
<1>4. PICK x \in s \ t : TRUE
    BY <1>2, <1>3
<1>5. Bytes(s) = SizeOf[x] + Bytes(s \ {x})
    BY <1>3, BytesWithout
<1>6. Bytes(t) <= Bytes(s \ {x})
    BY <1>1, <1>3, <1>4
<1>7. Bytes(s \ {x}) \in Nat /\ SizeOf[x] \in Nat
    BY <1>3, FilesAssumption, FS_Subset, BytesType
<1> HIDE DEF C
<1> QED
    BY <1>2, <1>3, <1>5, <1>6, <1>7

LEMMA LargestFile ==
    /\ MaxSize \in Nat
    /\ \A f \in File : SizeOf[f] <= MaxSize
<1> DEFINE Top(s) == \E f \in s : \A g \in s : SizeOf[f] >= SizeOf[g]
           C == {s \in SUBSET File : s # {} /\ ~Top(s)}
<1>1. C = {}
    <2> SUFFICES ASSUME C # {} PROVE FALSE
        OBVIOUS
    <2>1. PICK s \in C : \A t \in SUBSET s : t # s => t \notin C
        <3>1. C \in SUBSET SUBSET File
            OBVIOUS
        <3> HIDE DEF C
        <3> QED
            BY <3>1, SmallestSet, FilesAssumption
    <2>2. s \in SUBSET File /\ s # {} /\ ~Top(s)
        BY <2>1
    <2>3. PICK x \in s : TRUE
        BY <2>2
    <2>4. s \ {x} = {} \/ Top(s \ {x})
        BY <2>1, <2>2, <2>3
    <2>5. \A f \in s : SizeOf[f] \in Nat
        BY <2>2, FilesAssumption
    <2>6. CASE s \ {x} = {}
        BY <2>2, <2>5, <2>6
    <2>7. CASE Top(s \ {x})
        <3>1. PICK f \in s \ {x} : \A g \in s \ {x} : SizeOf[f] >= SizeOf[g]
            BY <2>7
        <3>2. CASE SizeOf[f] >= SizeOf[x]
            BY <2>2, <3>1, <3>2
        <3>3. CASE SizeOf[x] >= SizeOf[f]
            BY <2>2, <2>5, <3>1, <3>3
        <3> QED
            BY <2>5, <3>2, <3>3
    <2> QED
        BY <2>4, <2>6, <2>7
<1>2. PICK f \in File : \A g \in File : SizeOf[f] >= SizeOf[g]
    BY <1>1, FilesAssumption
<1> DEFINE Sizes == {SizeOf[g] : g \in File}
<1>3. Sizes \in SUBSET Nat /\ SizeOf[f] \in Sizes /\ \A y \in Sizes : SizeOf[f] >= y
    BY <1>2, FilesAssumption
<1>4. MaxSize \in Sizes /\ \A y \in Sizes : MaxSize >= y
    <2>1. MaxSize = CHOOSE x \in Sizes : \A y \in Sizes : x >= y
        BY DEF MaxSize, Max
    <2> HIDE DEF Sizes
    <2> QED
        BY <1>3, <2>1
<1> QED
    BY <1>3, <1>4

LEMMA TimesMonotone ==
    \A a, b, c \in Nat : a <= b => a * c \in Nat /\ b * c \in Nat /\ a * c <= b * c
    OBVIOUS

LEMMA BytesBounded ==
    ASSUME NEW S \in SUBSET File
    PROVE  Bytes(S) <= Cardinality(S) * MaxSize
<1> DEFINE C == {s \in SUBSET File : ~(Bytes(s) <= Cardinality(s) * MaxSize)}
<1> SUFFICES ASSUME C # {} PROVE FALSE
    OBVIOUS
<1>1. PICK s \in C : \A t \in SUBSET s : t # s => t \notin C
    <2>1. C \in SUBSET SUBSET File
        OBVIOUS
    <2> HIDE DEF C
    <2> QED
        BY <2>1, SmallestSet, FilesAssumption
<1>2. s \in SUBSET File /\ IsFiniteSet(s) /\ ~(Bytes(s) <= Cardinality(s) * MaxSize)
    BY <1>1, FilesAssumption, FS_Subset
<1>3. s # {}
    BY <1>2, BytesOfNone, FS_EmptySet, LargestFile
<1>4. PICK x \in s : TRUE
    BY <1>3
<1>5. Bytes(s) = SizeOf[x] + Bytes(s \ {x})
    BY <1>2, BytesWithout
<1>6. Bytes(s \ {x}) <= Cardinality(s \ {x}) * MaxSize
    BY <1>1, <1>2, <1>4
<1>7. /\ Cardinality(s \ {x}) = Cardinality(s) - 1
      /\ Cardinality(s) \in Nat /\ IsFiniteSet(s \ {x})
    BY <1>2, <1>4, FS_RemoveElement, FS_CardinalityType
<1>8. Bytes(s \ {x}) \in Nat /\ SizeOf[x] \in Nat /\ SizeOf[x] <= MaxSize /\ MaxSize \in Nat
    BY <1>2, <1>7, LargestFile, FilesAssumption, BytesType
<1>9. Cardinality(s) * MaxSize = (Cardinality(s) - 1) * MaxSize + MaxSize
    BY <1>7, <1>8
<1>10. (Cardinality(s) - 1) * MaxSize \in Int
    BY <1>7, <1>8
<1> HIDE DEF C
<1> QED
    BY <1>2, <1>5, <1>6, <1>7, <1>8, <1>9, <1>10

-----------------------------------------------------------------------------
\* How far uploads that overlap exceed the plan

Listing == {f \in File : Listed(f)}
Uploading == {req[p].file : p \in Passed}

\* A file is being uploaded by one request, and is not listed yet.
LEMMA UploadingOnce ==
    ASSUME IInv
    PROVE  /\ Uploading \in SUBSET File /\ Listing \in SUBSET File
           /\ \A p \in Passed : /\ req[p].file \in Uploading \ Listing
                                /\ \A q \in Passed \ {p} : req[q].file # req[p].file
    BY FileOf DEF Uploading, Listing, Listed, Passed, Unrecorded, Underway, At

LEMMA Counted ==
    /\ StorageBytes = Bytes(Listing) /\ InFlight = Bytes(Uploading)
    /\ StorageBytes' = Bytes(Listing') /\ InFlight' = Bytes(Uploading')
    BY DEF StorageBytes, InFlight, Listing, Uploading, Bytes, MapThenSumSet, MapThenFoldSet

Allowed == Limit + (Cardinality(Proc) - 1) * MaxSize

LEMMA AllowedType == Allowed \in Nat /\ Allowed >= Limit
<1>1. Cardinality(Proc) - 1 \in Nat
    BY FilesAssumption, FS_CardinalityType, FS_EmptySet
<1>2. (Cardinality(Proc) - 1) * MaxSize \in Nat
    BY <1>1, LargestFile, TimesMonotone
<1> QED
    BY <1>2, FilesAssumption DEF Allowed

\* Nothing is added.
LEMMA OverageShrinks ==
    ASSUME IInv, OverageBounded, Listing' \subseteq Listing, Uploading' \subseteq Uploading
    PROVE  OverageBounded'
<1>1. \A L, U, M, V \in SUBSET File :
        M \subseteq L /\ V \subseteq U /\ Bytes(L) + Bytes(U) <= Allowed
          => Bytes(M) + Bytes(V) <= Allowed
    BY BytesMonotone, BytesType, AllowedType, FilesAssumption, FS_Subset
<1>2. Listing \in SUBSET File /\ Uploading \in SUBSET File
    BY UploadingOnce
<1>3. Bytes(Listing) + Bytes(Uploading) <= Allowed
    BY Counted DEF OverageBounded, Allowed
<1>4. Bytes(Listing') + Bytes(Uploading') <= Allowed
    BY <1>1, <1>2, <1>3
<1> QED
    BY <1>4, Counted DEF OverageBounded, Allowed

\* A file goes from the uploads to the table.
LEMMA OverageMoves ==
    ASSUME IInv, OverageBounded, NEW f \in Uploading \ Listing,
           Listing' \subseteq Listing \cup {f}, Uploading' \subseteq Uploading \ {f}
    PROVE  OverageBounded'
<1>1. ASSUME NEW L \in SUBSET File, NEW U \in SUBSET File, f \in U, f \notin L,
             NEW M \in SUBSET (L \cup {f}), NEW V \in SUBSET (U \ {f}),
             Bytes(L) + Bytes(U) <= Allowed
      PROVE  Bytes(M) + Bytes(V) <= Allowed
    <2> DEFINE Z == L \cup {f}
    <2>1. Z \in SUBSET File /\ f \in Z /\ Z \ {f} = L /\ IsFiniteSet(Z) /\ IsFiniteSet(U)
        BY <1>1, FilesAssumption, FS_Subset
    <2> HIDE DEF Z
    <2>2. Bytes(Z) = SizeOf[f] + Bytes(L) /\ Bytes(U) = SizeOf[f] + Bytes(U \ {f})
        BY <1>1, <2>1, BytesWithout
    <2>3. Bytes(M) <= Bytes(Z) /\ Bytes(V) <= Bytes(U \ {f})
        BY <1>1, <2>1, BytesMonotone DEF Z
    <2>4. /\ Bytes(M) \in Nat /\ Bytes(V) \in Nat /\ Bytes(L) \in Nat /\ Bytes(U \ {f}) \in Nat
          /\ SizeOf[f] \in Nat
        BY <1>1, <2>1, BytesType, FilesAssumption, FS_Subset DEF Z
    <2> QED
        BY <1>1, <2>2, <2>3, <2>4, AllowedType
<1>2. Listing \in SUBSET File /\ Uploading \in SUBSET File
    BY UploadingOnce
<1>3. Bytes(Listing) + Bytes(Uploading) <= Allowed
    BY Counted DEF OverageBounded, Allowed
<1>4. Bytes(Listing') + Bytes(Uploading') <= Allowed
    BY <1>1, <1>2, <1>3
<1> QED
    BY <1>4, Counted DEF OverageBounded, Allowed

\* The other uploads are of other requests: together they are no larger than
\* the largest, for each of these.
LEMMA OthersBounded ==
    ASSUME IInv, NEW p \in Proc \ Passed
    PROVE  Bytes(Uploading) <= (Cardinality(Proc) - 1) * MaxSize
<1> DEFINE h == [q \in Passed |-> req[q].file]
<1>1. /\ IsFiniteSet(Passed) /\ Cardinality(Passed) <= Cardinality(Proc) - 1
      /\ Cardinality(Passed) \in Nat
    <2>1. Passed \in SUBSET (Proc \ {p})
        BY DEF Passed
    <2>2. IsFiniteSet(Proc \ {p}) /\ Cardinality(Proc \ {p}) = Cardinality(Proc) - 1
        BY FilesAssumption, FS_RemoveElement
    <2> QED
        BY <2>1, <2>2, FS_Subset, FS_CardinalityType
<1>2. h \in Surjection(Passed, Uploading)
    BY DEF Surjection, Uploading
<1> HIDE DEF h
<1>3. IsFiniteSet(Uploading) /\ Cardinality(Uploading) <= Cardinality(Passed)
    BY <1>1, <1>2, FS_Surjection
<1>4. Cardinality(Uploading) \in Nat /\ Cardinality(Uploading) <= Cardinality(Proc) - 1
    <2>1. Cardinality(Uploading) \in Nat /\ Cardinality(Proc) \in Nat
        BY <1>3, FilesAssumption, FS_CardinalityType
    <2> QED
        BY <1>1, <1>3, <2>1
<1>5. Cardinality(Proc) - 1 \in Nat
    BY <1>1, FilesAssumption, FS_CardinalityType
<1>6. /\ Cardinality(Uploading) * MaxSize <= (Cardinality(Proc) - 1) * MaxSize
      /\ Cardinality(Uploading) * MaxSize \in Nat /\ (Cardinality(Proc) - 1) * MaxSize \in Nat
    BY <1>4, <1>5, TimesMonotone, LargestFile
<1>7. Bytes(Uploading) <= Cardinality(Uploading) * MaxSize /\ Bytes(Uploading) \in Nat
    BY <1>3, UploadingOnce, BytesBounded, BytesType
<1> QED
    BY <1>6, <1>7

\* A file passes the check: the table and the file fit into the plan.
LEMMA OveragePasses ==
    ASSUME IInv, NEW p \in Proc \ Passed, NEW f \in File,
           ~Exceeds(StorageBytes, SizeOf[f]),
           Listing' = Listing, Uploading' = Uploading \cup {f}
    PROVE  OverageBounded'
<1>1. Uploading \in SUBSET File /\ Listing \in SUBSET File
    BY UploadingOnce
<1>2. Bytes(Uploading \cup {f}) <= SizeOf[f] + Bytes(Uploading)
    <2>1. ASSUME NEW U \in SUBSET File
          PROVE  Bytes(U \cup {f}) <= SizeOf[f] + Bytes(U)
        <3> DEFINE Z == U \cup {f}
        <3>1. /\ Z \in SUBSET File /\ f \in Z /\ Z \ {f} \in SUBSET U
              /\ IsFiniteSet(Z) /\ IsFiniteSet(U) /\ IsFiniteSet(Z \ {f})
            BY FilesAssumption, FS_Subset
        <3> HIDE DEF Z
        <3>2. Bytes(Z) = SizeOf[f] + Bytes(Z \ {f}) /\ Bytes(Z \ {f}) <= Bytes(U)
            BY <3>1, BytesWithout, BytesMonotone
        <3>3. Bytes(Z \ {f}) \in Nat /\ Bytes(U) \in Nat /\ SizeOf[f] \in Nat
            BY <3>1, BytesType, FilesAssumption
        <3> QED
            BY <3>2, <3>3 DEF Z
    <2> QED
        BY <1>1, <2>1
<1>3. Bytes(Uploading) <= (Cardinality(Proc) - 1) * MaxSize
    BY OthersBounded
<1>4. /\ Bytes(Listing) \in Nat /\ Bytes(Uploading) \in Nat /\ Bytes(Uploading \cup {f}) \in Nat
      /\ SizeOf[f] \in Nat /\ (Cardinality(Proc) - 1) * MaxSize \in Int
    <2>1. Uploading \cup {f} \in SUBSET File
        BY <1>1
    <2> QED
        BY <1>1, <2>1, BytesType, LargestFile, FilesAssumption, FS_Subset, FS_CardinalityType
<1>5. Bytes(Listing) + SizeOf[f] <= Limit
    BY <1>4, Counted, FilesAssumption DEF Exceeds
<1>6. Bytes(Listing) + Bytes(Uploading \cup {f}) <= Limit + (Cardinality(Proc) - 1) * MaxSize
    BY <1>2, <1>3, <1>4, <1>5, FilesAssumption
<1> QED
    BY <1>6, Counted DEF OverageBounded

LEMMA OverageStep ==
    ASSUME IInv, OverageBounded, [Next]_vars
    PROVE  OverageBounded'
<1> USE DEF IInv
\* A request leaves its upload, or goes on with it, or is no upload.
<1>1. ASSUME NEW p \in Proc, Alone(p),
             p \in Passed' => p \in Passed /\ req'[p].file = req[p].file,
             Listing' \subseteq Listing
      PROVE  OverageBounded'
    BY <1>1, OverageShrinks DEF Uploading, Passed, Alone
<1>2. ASSUME NEW p \in Proc, StepUpload(p)
      PROVE  OverageBounded'
    <2>1. CASE CheckStorageQuota(p) /\ Goto(p, "put")
        <3> DEFINE f == req[p].file
        <3>1. f \in File /\ p \notin Passed /\ UNCHANGED row
            BY <2>1, FileOf DEF CheckStorageQuota, Passed, At
        <3>2. Alone(p) /\ req'[p].pc = "put" /\ req'[p].file = f
            BY <2>1, GotoFields
        <3>3. ~Exceeds(StorageBytes, SizeOf[f])
            BY <2>1, <3>2, AnswerFields DEF CheckStorageQuota
        <3>4. Listing' = Listing
            BY <3>1 DEF Listing, Listed
        <3>5. Uploading' = Uploading \cup {f}
            BY <3>1, <3>2 DEF Uploading, Passed, Alone
        <3> QED
            BY <3>1, <3>3, <3>4, <3>5, OveragePasses
    <2>2. CASE CreateRow(p) \/ CreateRowFails(p)
        <3> DEFINE f == req[p].file
        <3>1. p \in Passed /\ row' \in {row, [row EXCEPT ![f] = "present"]}
            BY <2>2 DEF CreateRow, CreateRowFails, Passed, At
        <3>2. Alone(p) /\ p \notin Passed'
            BY <2>2, AnswerFields, GotoFields DEF CreateRow, CreateRowFails, Passed
        <3>3. f \in Uploading \ Listing /\ \A q \in Passed \ {p} : req[q].file # f
            BY <3>1, UploadingOnce
        <3>4. Listing' \subseteq Listing \cup {f}
            BY <3>1 DEF TypeOK, Listing, Listed
        <3>5. Uploading' \subseteq Uploading \ {f}
            BY <3>2, <3>3 DEF Uploading, Passed, Alone
        <3> QED
            BY <3>3, <3>4, <3>5, OverageMoves
    <2>3. CASE CheckStorageQuota(p) /\ Answer(p)
        <3>1. Alone(p) /\ UNCHANGED row /\ p \notin Passed'
            BY <2>3, AnswerFields DEF CheckStorageQuota, Passed
        <3> QED
            BY <1>1, <3>1 DEF Listing, Listed
    <2>4. CASE CheckStorageQuota(p)
        <3>1. Goto(p, "put") \/ Answer(p)
            BY <2>4 DEF CheckStorageQuota
        <3> QED
            BY <2>1, <2>3, <2>4, <3>1
    <2>5. CASE \/ ProjectExists(p) \/ PutTemporary(p) \/ Rename(p)
               \/ PutObject(p) \/ PutFails(p) \/ UndoPut(p)
        <3>1. /\ Alone(p) /\ UNCHANGED row
              /\ p \in Passed' => p \in Passed /\ req'[p].file = req[p].file
            BY <2>5, AnswerFields, GotoFields DEF ProjectExists, PutTemporary,
               Rename, PutObject, PutFails, UndoPut, Passed, At
        <3> QED
            BY <1>1, <3>1 DEF Listing, Listed
    <2> QED
        BY <1>2, <2>2, <2>4, <2>5 DEF StepUpload
<1>3. ASSUME NEW p \in Proc, StepDelete(p) \/ OpenObject(p) \/ Stop(p)
      PROVE  OverageBounded'
    <2>1. Alone(p) /\ p \notin Passed'
        BY <1>3, AnswerFields, GotoFields DEF StepDelete, RemoveObject, RemoveObjectFails,
           DeleteRow, OpenObject, Stop, Passed
    <2>2. Listing' \subseteq Listing
        BY <1>3 DEF StepDelete, RemoveObject, RemoveObjectFails, DeleteRow, OpenObject, Stop,
           TypeOK, Listing, Listed
    <2> QED
        BY <1>1, <2>1, <2>2
<1>4. ASSUME NEW p \in Proc, NEW f \in File, Upload(p, f) \/ Open(p, f) \/ Delete(p, f)
      PROVE  OverageBounded'
    <2>1. Alone(p) /\ p \notin Passed' /\ UNCHANGED row
        BY <1>4, BeginFields DEF Upload, Open, Delete, Passed
    <2> QED
        BY <1>1, <2>1 DEF Listing, Listed
<1>5. CASE UNCHANGED vars
    BY <1>5, OverageShrinks DEF vars, Listing, Listed, Uploading, Passed
<1> QED
    BY <1>2, <1>3, <1>4, <1>5 DEF Next, Step

\* CheckStorageQuota reads the table before the file is in it: however many
\* uploads pass it at the same time, those beyond the plan are no more than the
\* largest upload for each request but one.
THEOREM OverageIsBounded == Spec => []OverageBounded
<1>1. Init => OverageBounded
    <2> SUFFICES ASSUME Init PROVE OverageBounded
        OBVIOUS
    <2>1. Listing = {} /\ Uploading = {}
        BY NoRequestTyped DEF Init, Listing, Listed, Uploading, Passed
    <2>2. StorageBytes = 0 /\ InFlight = 0
        BY <2>1, Counted, BytesOfNone
    <2> QED
        BY <2>2, AllowedType DEF OverageBounded, Allowed
<1>2. IInv /\ OverageBounded /\ [Next]_vars => OverageBounded'
    BY OverageStep
<1> QED
    BY <1>1, <1>2, Invariance, PTL DEF Spec

-----------------------------------------------------------------------------
\* The refinement of Shelf

\* Where the abstract shelf and its promises are untouched.
LEMMA Untouched ==
    ASSUME UNCHANGED <<promised, asked>>, \A f \in File : ShelfOf(f)' = ShelfOf(f)
    PROVE  [Kept!Next]_Kept!vars
    BY DEF Kept!vars

\* Where one file moves on the shelf.
LEMMA Moved ==
    ASSUME NEW f \in File, \A g \in File \ {f} : ShelfOf(g)' = ShelfOf(g), asked' = asked,
           \/ /\ ShelfOf(f) = "never" /\ ShelfOf(f)' = "kept"
              /\ promised' \in {promised, promised \cup {f}}
           \/ /\ ShelfOf(f) = "kept" /\ ShelfOf(f)' = "gone"
              /\ f \in promised => f \in asked
              /\ promised' = promised
    PROVE  [Kept!Next]_Kept!vars
<1> DEFINE s == [g \in File |-> ShelfOf(g)]
           t == [g \in File |-> ShelfOf(g)']
<1>1. t = [s EXCEPT ![f] = ShelfOf(f)']
    OBVIOUS
<1>2. s[f] = ShelfOf(f) /\ [g \in File |-> ShelfOf(g)]' = t
    OBVIOUS
<1>3. CASE ShelfOf(f) = "never"
    <2>1. Kept!Keep(f)
        BY <1>1, <1>2, <1>3 DEF Kept!Keep
    <2> QED
        BY <2>1 DEF Kept!Next
<1>4. CASE ShelfOf(f) # "never"
    <2>1. Kept!Drop(f)
        BY <1>1, <1>2, <1>4 DEF Kept!Drop
    <2> QED
        BY <2>1 DEF Kept!Next
<1> QED
    BY <1>3, <1>4

LEMMA StepRefines ==
    ASSUME IInv, NEW p \in Proc, StepUpload(p) \/ StepDelete(p)
    PROVE  [Kept!Next]_Kept!vars
<1> USE DEF IInv
<1>0. PICK f \in File : f = req[p].file
    BY FileOf DEF StepUpload, ProjectExists, CheckStorageQuota, PutTemporary, Rename, PutObject,
       PutFails, CreateRow, CreateRowFails, UndoPut, StepDelete, RemoveObject,
       RemoveObjectFails, DeleteRow, At
<1>1. Underway(p)
    BY FileOf
\* Before the row is written, what is in the store is on no shelf.
<1>2. CASE \/ ProjectExists(p) \/ CheckStorageQuota(p) \/ PutTemporary(p)
           \/ Rename(p) \/ PutObject(p) \/ PutFails(p)
    <2>1. row[f] = "never" /\ row' = row /\ UNCHANGED <<promised, asked>>
        BY <1>0, <1>1, <1>2 DEF ProjectExists, CheckStorageQuota, PutTemporary, Rename, PutObject,
           PutFails, Underway, Unrecorded, At
    <2>2. \A g \in File \ {f} : g \in object' <=> g \in object
        BY <1>0, <1>2 DEF ProjectExists, CheckStorageQuota, PutTemporary, Rename, PutObject, PutFails
    <2> QED
        BY <2>1, <2>2, Untouched DEF ShelfOf, Downloadable, Listed
<1>3. CASE CreateRow(p) \/ CreateRowFails(p)
    <2>1. /\ row[f] = "never" /\ f \in object /\ UNCHANGED <<object, asked>>
          /\ promised' \in {promised, promised \cup {f}}
          /\ \/ row' = row /\ promised' = promised
             \/ row' = [row EXCEPT ![f] = "present"]
        BY <1>0, <1>1, <1>3 DEF CreateRow, CreateRowFails, Underway, Unrecorded, At
    <2>2. CASE row' = row /\ promised' = promised
        BY <2>1, <2>2, Untouched DEF ShelfOf, Downloadable, Listed
    <2>3. CASE row' = [row EXCEPT ![f] = "present"]
        <3>1. ShelfOf(f) = "never" /\ ShelfOf(f)' = "kept"
            BY <1>1, <2>1, <2>3 DEF TypeOK, ShelfOf, Downloadable, Listed
        <3>2. \A g \in File \ {f} : ShelfOf(g)' = ShelfOf(g)
            BY <2>1, <2>3 DEF TypeOK, ShelfOf, Downloadable, Listed
        <3> QED
            BY <1>1, <2>1, <3>1, <3>2, Moved
    <2> QED
        BY <2>1, <2>2, <2>3
\* Content that goes was never promised, or somebody asked for it.
<1>4. CASE UndoPut(p) \/ RemoveObject(p) \/ RemoveObjectFails(p)
    <2>1. /\ object' \in {object, object \ {f}} /\ UNCHANGED <<row, promised, asked>>
          /\ f \in promised => f \in asked
        BY <1>0, <1>1, <1>4 DEF UndoPut, RemoveObject, RemoveObjectFails, Underway, At
    <2>2. \A g \in File \ {f} : ShelfOf(g)' = ShelfOf(g)
        BY <2>1 DEF ShelfOf, Downloadable, Listed
    <2>3. CASE ShelfOf(f)' = ShelfOf(f)
        BY <2>1, <2>2, <2>3, Untouched
    <2>4. CASE ShelfOf(f)' # ShelfOf(f)
        <3>1. ShelfOf(f) = "kept" /\ ShelfOf(f)' = "gone"
            BY <2>1, <2>4 DEF ShelfOf, Downloadable, Listed
        <3> QED
            BY <1>1, <2>1, <2>2, <3>1, Moved
    <2> QED
        BY <2>3, <2>4
<1>5. CASE DeleteRow(p)
    <2>1. /\ row' = [row EXCEPT ![f] = "gone"] /\ UNCHANGED <<object, promised, asked>>
          /\ f \notin object /\ row[f] # "never"
        BY <1>0, <1>1, <1>5 DEF DeleteRow, Underway, At
    <2> QED
        BY <1>1, <2>1, Untouched DEF TypeOK, ShelfOf, Downloadable, Listed
<1> QED
    BY <1>2, <1>3, <1>4, <1>5 DEF StepUpload, StepDelete

\* The object store and the files table, written one after the other and both
\* liable to fail, keep together what Shelf promises of each file.
THEOREM FilesImplementShelf == Spec => ImplementsShelf
<1>1. Init => Kept!Init
    <2> SUFFICES ASSUME Init PROVE Kept!Init
        OBVIOUS
    <2>1. \A f \in File : ShelfOf(f) = "never"
        BY DEF Init, ShelfOf, Downloadable, Listed
    <2> QED
        BY <2>1 DEF Init, Kept!Init
<1>2. IInv /\ [Next]_vars => [Kept!Next]_Kept!vars
    <2> SUFFICES ASSUME IInv, [Next]_vars PROVE [Kept!Next]_Kept!vars
        OBVIOUS
    <2>1. ASSUME UNCHANGED <<row, object, promised, asked>>
          PROVE  [Kept!Next]_Kept!vars
        BY <2>1, Untouched DEF ShelfOf, Downloadable, Listed
    <2>2. ASSUME NEW p \in Proc, NEW f \in File, Delete(p, f)
          PROVE  [Kept!Next]_Kept!vars
        <3>1. /\ row' = row /\ object' = object /\ promised' = promised
              /\ asked' = asked \cup {f} /\ row[f] = "present"
            BY <2>2 DEF Delete, Listed
        <3>2. \A g \in File : ShelfOf(g)' = ShelfOf(g)
            BY <3>1 DEF ShelfOf, Downloadable, Listed
        <3>3. ShelfOf(f) # "never"
            BY <3>1 DEF ShelfOf
        <3>4. Kept!Ask(f)
            BY <3>1, <3>2, <3>3 DEF Kept!Ask
        <3> QED
            BY <3>4 DEF Kept!Next
    <2> QED
        BY <2>1, <2>2, StepRefines DEF Next, Step, Upload, Open, OpenObject, Stop, vars
<1> QED
    BY <1>1, <1>2, Invariance, PTL DEF Spec, ImplementsShelf, Kept!Spec
=============================================================================
