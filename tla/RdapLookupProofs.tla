-------------------------- MODULE RdapLookupProofs ---------------------------
(***************************************************************************)
(* LookupDomain for every bootstrap file, TLD and document: where the call *)
(* is sent, what the merge and the cards come to, and that it keeps what   *)
(* EnrichedLookup promises.                                                *)
(*                                                                         *)
(* The loops of the code are folds.  Each is first followed along its      *)
(* sequence (the lemmas called ...Steps: what there is after n elements),  *)
(* then what it comes to is shown by induction on n.                       *)
(***************************************************************************)
EXTENDS RdapLookup, Lemmas

\* Go's empty string.
Blank == ""

\* What the loops build.
Texts == STRING \cup {Blank}
StatusValues == {StatusOf(s) : s \in STRING}
EntityValues == {Entity(e) : e \in Object}
Tables == UNION {[D -> STRING] : D \in SUBSET STRING}
Contacts == [fn : Texts, kind : Texts, org : Texts, address : Texts, phone : Texts,
             emails : Seq(Texts)]

-----------------------------------------------------------------------------
(* One service of the file adds its labels, or writes over them.           *)
LEMMA AddServiceValue ==
    ASSUME NEW a \in Tables, NEW svc \in Service
    PROVE  /\ AddService(a, svc) \in Tables
           /\ \A t : t \in DOMAIN AddService(a, svc) <=>
                        t \in DOMAIN a \/ (Usable(svc) /\ t \in ToSet(svc.labels))
           /\ \A t \in DOMAIN AddService(a, svc) :
                  AddService(a, svc)[t] =
                      IF Usable(svc) /\ t \in ToSet(svc.labels) THEN svc.urls[1] ELSE a[t]
<1>1. PICK D \in SUBSET STRING : a \in [D -> STRING]
    BY DEF Tables
<1>2. svc.labels \in Seq(STRING) /\ svc.urls \in Seq(STRING)
    BY DEF Service
<1>3. ToSet(svc.labels) \subseteq STRING
    BY <1>2, LenProperties DEF ToSet
<1>4. CASE Usable(svc)
    <2>1. svc.urls # <<>> /\ svc.urls[1] \in STRING
        BY <1>2, <1>4, LenProperties, EmptySeq DEF Usable
    <2> DEFINE L == ToSet(svc.labels)
               u == svc.urls[1]
               b == [t \in L \cup D |-> IF t \in L THEN u ELSE a[t]]
    <2>2. AddService(a, svc) = b
        BY <1>1, <1>4 DEF AddService
    <2> HIDE DEF L, u
    <2>3. L \cup D \in SUBSET STRING /\ u \in STRING
        BY <1>3, <2>1 DEF L, u
    <2>4. b \in [L \cup D -> STRING]
        BY <1>1, <2>3
    <2> HIDE DEF b
    <2>5. b \in Tables
        BY <2>3, <2>4 DEF Tables
    <2>6. DOMAIN b = L \cup D /\ DOMAIN a = D
        BY <1>1, <2>4
    <2>7. \A t \in L \cup D : b[t] = IF t \in L THEN u ELSE a[t]
        BY DEF b
    <2> QED
        BY <1>4, <2>2, <2>5, <2>6, <2>7 DEF L, u
<1>5. CASE ~Usable(svc)
    BY <1>5 DEF AddService
<1> QED
    BY <1>4, <1>5

(* What one entry of a card does to the name, the telephone number and the *)
(* addresses of mail.                                                      *)
LEMMA EntryValue ==
    ASSUME NEW c \in Contacts, NEW e \in CardEntry
    PROVE  /\ Entry(c, e) \in Contacts
           /\ Entry(c, e).fn =
                  IF e.whole /\ e.prop = "fn" /\ e.value # NotText THEN e.value ELSE c.fn
           /\ Entry(c, e).phone =
                  IF e.whole /\ e.prop = "tel" /\ e.value # NotText /\ c.phone = Blank
                  THEN e.value ELSE c.phone
           /\ Entry(c, e).emails =
                  IF e.whole /\ e.prop = "email" /\ e.value # NotText /\ e.value # Blank
                  THEN Append(c.emails, e.value) ELSE c.emails
<1> DEFINE d == Entry(c, e)
<1> USE DEF Contacts, Blank
<1>1. e.value \in Texts /\ e.label \in Texts
    BY DEF CardEntry, Texts
<1>2. /\ c.fn \in Texts /\ c.kind \in Texts /\ c.org \in Texts /\ c.address \in Texts
      /\ c.phone \in Texts /\ c.emails \in Seq(Texts)
    OBVIOUS
<1>3. CASE ~e.whole
    BY <1>3 DEF Entry
<1>4. CASE e.whole /\ e.prop = "fn"
    BY <1>1, <1>2, <1>4 DEF Entry, Text
<1>5. CASE e.whole /\ e.prop = "kind"
    BY <1>1, <1>2, <1>5 DEF Entry, Text
<1>6. CASE e.whole /\ e.prop = "org"
    BY <1>1, <1>2, <1>6 DEF Entry, Text
<1>7. CASE e.whole /\ e.prop = "tel"
    BY <1>1, <1>2, <1>7 DEF Entry, Text
<1>8. CASE e.whole /\ e.prop = "email"
    <2>1. Append(c.emails, e.value) \in Seq(Texts)
        BY <1>1, <1>2, AppendProperties
    <2> QED
        BY <1>1, <1>2, <1>8, <2>1 DEF Entry, Text
<1>9. CASE e.whole /\ e.prop = "adr"
    BY <1>1, <1>2, <1>9 DEF Entry, Text
<1>10. CASE e.whole /\ e.prop \notin {"fn", "kind", "org", "tel", "email", "adr"}
    BY <1>10 DEF Entry
<1> QED
    BY <1>3, <1>4, <1>5, <1>6, <1>7, <1>8, <1>9, <1>10

(* The loops over the statuses of a document (parseDomain, and the merge), *)
(* its entities, the services of the bootstrap file, and the entries of a  *)
(* card.                                                                   *)
LEMMA StatusSteps ==
    ASSUME NEW s \in Seq(STRING), NEW base \in Seq(StatusValues)
    PROVE  \E F \in [0..Len(s) -> Seq(StatusValues)] :
               /\ F[0] = base /\ F[Len(s)] = FoldLeft(AddStatus, base, s)
               /\ \A n \in 1..Len(s) : F[n] = AddStatus(F[n - 1], s[n])
<1> DEFINE N == Len(s)
           V == Seq(StatusValues)
           step == [p \in V \X (1..N) |-> AddStatus(p[1], s[p[2]])]
           IsFold(f) == f = [T \in SUBSET (1..N) |->
               IF T = {} THEN base ELSE AddStatus(f[T \ {Max(T)}], s[Max(T)])]
           g == CHOOSE f : IsFold(f)
<1>1. N \in Nat /\ DOMAIN s = 1..N /\ \A n \in 1..N : s[n] \in STRING
    BY LenProperties
<1>2. \A a \in V, x \in STRING : AddStatus(a, x) \in V
    BY AppendProperties DEF AddStatus, StatusValues
<1> HIDE DEF V
<1>3. step \in [V \X (1..N) -> V] /\ base \in V
    BY <1>1, <1>2 DEF V
<1>4. IsFold(g)
    <2>1. PICK f \in [SUBSET (1..N) -> V] : Table(f, N, base, step)
        BY <1>1, <1>3, FoldExists
    <2>2. ASSUME NEW T \in SUBSET (1..N), T # {}
          PROVE  step[<<f[T \ {Max(T)}], Max(T)>>] = AddStatus(f[T \ {Max(T)}], s[Max(T)])
        BY <1>1, <2>1, <2>2, MaxIsMember
    <2>3. IsFold(f)
        BY <2>1, <2>2 DEF Table
    <2> QED
        BY <2>3
<1>5. FoldLeft(AddStatus, base, s) = g[1..N]
    BY <1>1, Zenon DEF FoldLeft, MapThenFoldSet
<1>6. g[{}] = base
    BY <1>4
<1>7. ASSUME NEW n \in 1..N PROVE g[1..n] = AddStatus(g[1..(n - 1)], s[n])
    <2>1. 1..n \in SUBSET (1..N) /\ 1..n # {} /\ Max(1..n) = n /\ (1..n) \ {n} = 1..(n - 1)
        BY <1>1, MaxOfRange
    <2> HIDE DEF g, N
    <2> QED
        BY <1>4, <2>1
<1>8. ASSUME NEW n \in 1..N, NEW a \in V PROVE step[<<a, n>>] = AddStatus(a, s[n])
    OBVIOUS
<1> HIDE DEF g, step, N
<1>9. PICK F \in [0..N -> V] : F[N] = g[1..N] /\ Path(F, N, base, step)
    <2>1. \A n \in 1..N : g[1..(n - 1)] \in V => g[1..n] = step[<<g[1..(n - 1)], n>>]
        BY <1>7, <1>8
    <2>2. N \in Nat /\ base \in V /\ step \in [V \X (1..N) -> V] /\ g[{}] = base
        BY <1>1, <1>3, <1>6
    <2> QED
        BY <2>1, <2>2, FoldAlong, ZenonT(60)
<1>10. \A n \in 1..N : F[n] = AddStatus(F[n - 1], s[n])
    <2> SUFFICES ASSUME NEW n \in 1..N PROVE F[n] = AddStatus(F[n - 1], s[n])
        OBVIOUS
    <2>1. F[n - 1] \in V
        BY <1>1, n - 1 \in 0..N
    <2> QED
        BY <2>1, <1>8, <1>9 DEF Path
<1> QED
    BY <1>5, <1>9, <1>10 DEF Path, V, N

(* The fold that merges statuses, followed along the list.                 *)
LEMMA KnownStatusSteps ==
    ASSUME NEW s \in Seq(STRING), NEW base \in Seq(StatusValues)
    PROVE  \E F \in [0..Len(s) -> Seq(StatusValues)] :
               /\ F[0] = base /\ F[Len(s)] = FoldLeft(AddKnownStatus, base, s)
               /\ \A n \in 1..Len(s) : F[n] = AddKnownStatus(F[n - 1], s[n])
<1> DEFINE N == Len(s)
           V == Seq(StatusValues)
           step == [p \in V \X (1..N) |-> AddKnownStatus(p[1], s[p[2]])]
           IsFold(f) == f = [T \in SUBSET (1..N) |->
               IF T = {} THEN base ELSE AddKnownStatus(f[T \ {Max(T)}], s[Max(T)])]
           g == CHOOSE f : IsFold(f)
<1>1. N \in Nat /\ DOMAIN s = 1..N /\ \A n \in 1..N : s[n] \in STRING
    BY LenProperties
<1>2. \A a \in V, x \in STRING : AddKnownStatus(a, x) \in V
    BY AppendProperties DEF AddKnownStatus, AddStatus, StatusValues
<1> HIDE DEF V
<1>3. step \in [V \X (1..N) -> V] /\ base \in V
    BY <1>1, <1>2 DEF V
<1>4. IsFold(g)
    <2>1. PICK f \in [SUBSET (1..N) -> V] : Table(f, N, base, step)
        BY <1>1, <1>3, FoldExists
    <2>2. ASSUME NEW T \in SUBSET (1..N), T # {}
          PROVE  step[<<f[T \ {Max(T)}], Max(T)>>] = AddKnownStatus(f[T \ {Max(T)}], s[Max(T)])
        BY <1>1, <2>1, <2>2, MaxIsMember
    <2>3. IsFold(f)
        BY <2>1, <2>2 DEF Table
    <2> QED
        BY <2>3
<1>5. FoldLeft(AddKnownStatus, base, s) = g[1..N]
    BY <1>1, Zenon DEF FoldLeft, MapThenFoldSet
<1>6. g[{}] = base
    BY <1>4
<1>7. ASSUME NEW n \in 1..N PROVE g[1..n] = AddKnownStatus(g[1..(n - 1)], s[n])
    <2>1. 1..n \in SUBSET (1..N) /\ 1..n # {} /\ Max(1..n) = n /\ (1..n) \ {n} = 1..(n - 1)
        BY <1>1, MaxOfRange
    <2> HIDE DEF g, N
    <2> QED
        BY <1>4, <2>1
<1>8. ASSUME NEW n \in 1..N, NEW a \in V PROVE step[<<a, n>>] = AddKnownStatus(a, s[n])
    OBVIOUS
<1> HIDE DEF g, step, N
<1>9. PICK F \in [0..N -> V] : F[N] = g[1..N] /\ Path(F, N, base, step)
    <2>1. \A n \in 1..N : g[1..(n - 1)] \in V => g[1..n] = step[<<g[1..(n - 1)], n>>]
        BY <1>7, <1>8
    <2>2. N \in Nat /\ base \in V /\ step \in [V \X (1..N) -> V] /\ g[{}] = base
        BY <1>1, <1>3, <1>6
    <2> QED
        BY <2>1, <2>2, FoldAlong, ZenonT(60)
<1>10. \A n \in 1..N : F[n] = AddKnownStatus(F[n - 1], s[n])
    <2> SUFFICES ASSUME NEW n \in 1..N PROVE F[n] = AddKnownStatus(F[n - 1], s[n])
        OBVIOUS
    <2>1. F[n - 1] \in V
        BY <1>1, n - 1 \in 0..N
    <2> QED
        BY <2>1, <1>8, <1>9 DEF Path
<1> QED
    BY <1>5, <1>9, <1>10 DEF Path, V, N

(* The fold that merges entities, followed along the list.                 *)
LEMMA EntitySteps ==
    ASSUME NEW s \in Seq(Object), NEW base \in Seq(EntityValues)
    PROVE  \E F \in [0..Len(s) -> Seq(EntityValues)] :
               /\ F[0] = base /\ F[Len(s)] = FoldLeft(AddEntity, base, s)
               /\ \A n \in 1..Len(s) : F[n] = AddEntity(F[n - 1], s[n])
<1> DEFINE N == Len(s)
           V == Seq(EntityValues)
           step == [p \in V \X (1..N) |-> AddEntity(p[1], s[p[2]])]
           IsFold(f) == f = [T \in SUBSET (1..N) |->
               IF T = {} THEN base ELSE AddEntity(f[T \ {Max(T)}], s[Max(T)])]
           g == CHOOSE f : IsFold(f)
<1>1. N \in Nat /\ DOMAIN s = 1..N /\ \A n \in 1..N : s[n] \in Object
    BY LenProperties
<1>2. \A a \in V, x \in Object : AddEntity(a, x) \in V
    BY AppendProperties DEF AddEntity, EntityValues
<1> HIDE DEF V
<1>3. step \in [V \X (1..N) -> V] /\ base \in V
    BY <1>1, <1>2 DEF V
<1>4. IsFold(g)
    <2>1. PICK f \in [SUBSET (1..N) -> V] : Table(f, N, base, step)
        BY <1>1, <1>3, FoldExists
    <2>2. ASSUME NEW T \in SUBSET (1..N), T # {}
          PROVE  step[<<f[T \ {Max(T)}], Max(T)>>] = AddEntity(f[T \ {Max(T)}], s[Max(T)])
        BY <1>1, <2>1, <2>2, MaxIsMember
    <2>3. IsFold(f)
        BY <2>1, <2>2 DEF Table
    <2> QED
        BY <2>3
<1>5. FoldLeft(AddEntity, base, s) = g[1..N]
    BY <1>1, Zenon DEF FoldLeft, MapThenFoldSet
<1>6. g[{}] = base
    BY <1>4
<1>7. ASSUME NEW n \in 1..N PROVE g[1..n] = AddEntity(g[1..(n - 1)], s[n])
    <2>1. 1..n \in SUBSET (1..N) /\ 1..n # {} /\ Max(1..n) = n /\ (1..n) \ {n} = 1..(n - 1)
        BY <1>1, MaxOfRange
    <2> HIDE DEF g, N
    <2> QED
        BY <1>4, <2>1
<1>8. ASSUME NEW n \in 1..N, NEW a \in V PROVE step[<<a, n>>] = AddEntity(a, s[n])
    OBVIOUS
<1> HIDE DEF g, step, N
<1>9. PICK F \in [0..N -> V] : F[N] = g[1..N] /\ Path(F, N, base, step)
    <2>1. \A n \in 1..N : g[1..(n - 1)] \in V => g[1..n] = step[<<g[1..(n - 1)], n>>]
        BY <1>7, <1>8
    <2>2. N \in Nat /\ base \in V /\ step \in [V \X (1..N) -> V] /\ g[{}] = base
        BY <1>1, <1>3, <1>6
    <2> QED
        BY <2>1, <2>2, FoldAlong, ZenonT(60)
<1>10. \A n \in 1..N : F[n] = AddEntity(F[n - 1], s[n])
    <2> SUFFICES ASSUME NEW n \in 1..N PROVE F[n] = AddEntity(F[n - 1], s[n])
        OBVIOUS
    <2>1. F[n - 1] \in V
        BY <1>1, n - 1 \in 0..N
    <2> QED
        BY <2>1, <1>8, <1>9 DEF Path
<1> QED
    BY <1>5, <1>9, <1>10 DEF Path, V, N

(* The fold that builds the bootstrap table, followed along the services.  *)
LEMMA ServiceSteps ==
    ASSUME NEW s \in Seq(Service), NEW base \in Tables
    PROVE  \E F \in [0..Len(s) -> Tables] :
               /\ F[0] = base /\ F[Len(s)] = FoldLeft(AddService, base, s)
               /\ \A n \in 1..Len(s) : F[n] = AddService(F[n - 1], s[n])
<1> DEFINE N == Len(s)
           V == Tables
           step == [p \in V \X (1..N) |-> AddService(p[1], s[p[2]])]
           IsFold(f) == f = [T \in SUBSET (1..N) |->
               IF T = {} THEN base ELSE AddService(f[T \ {Max(T)}], s[Max(T)])]
           g == CHOOSE f : IsFold(f)
<1>1. N \in Nat /\ DOMAIN s = 1..N /\ \A n \in 1..N : s[n] \in Service
    BY LenProperties
<1>2. \A a \in V, x \in Service : AddService(a, x) \in V
    BY AddServiceValue
<1> HIDE DEF V
<1>3. step \in [V \X (1..N) -> V] /\ base \in V
    BY <1>1, <1>2 DEF V
<1>4. IsFold(g)
    <2>1. PICK f \in [SUBSET (1..N) -> V] : Table(f, N, base, step)
        BY <1>1, <1>3, FoldExists
    <2>2. ASSUME NEW T \in SUBSET (1..N), T # {}
          PROVE  step[<<f[T \ {Max(T)}], Max(T)>>] = AddService(f[T \ {Max(T)}], s[Max(T)])
        BY <1>1, <2>1, <2>2, MaxIsMember
    <2>3. IsFold(f)
        BY <2>1, <2>2 DEF Table
    <2> QED
        BY <2>3
<1>5. FoldLeft(AddService, base, s) = g[1..N]
    BY <1>1, Zenon DEF FoldLeft, MapThenFoldSet
<1>6. g[{}] = base
    BY <1>4
<1>7. ASSUME NEW n \in 1..N PROVE g[1..n] = AddService(g[1..(n - 1)], s[n])
    <2>1. 1..n \in SUBSET (1..N) /\ 1..n # {} /\ Max(1..n) = n /\ (1..n) \ {n} = 1..(n - 1)
        BY <1>1, MaxOfRange
    <2> HIDE DEF g, N
    <2> QED
        BY <1>4, <2>1
<1>8. ASSUME NEW n \in 1..N, NEW a \in V PROVE step[<<a, n>>] = AddService(a, s[n])
    OBVIOUS
<1> HIDE DEF g, step, N
<1>9. PICK F \in [0..N -> V] : F[N] = g[1..N] /\ Path(F, N, base, step)
    <2>1. \A n \in 1..N : g[1..(n - 1)] \in V => g[1..n] = step[<<g[1..(n - 1)], n>>]
        BY <1>7, <1>8
    <2>2. N \in Nat /\ base \in V /\ step \in [V \X (1..N) -> V] /\ g[{}] = base
        BY <1>1, <1>3, <1>6
    <2> QED
        BY <2>1, <2>2, FoldAlong, ZenonT(60)
<1>10. \A n \in 1..N : F[n] = AddService(F[n - 1], s[n])
    <2> SUFFICES ASSUME NEW n \in 1..N PROVE F[n] = AddService(F[n - 1], s[n])
        OBVIOUS
    <2>1. F[n - 1] \in V
        BY <1>1, n - 1 \in 0..N
    <2> QED
        BY <2>1, <1>8, <1>9 DEF Path
<1> QED
    BY <1>5, <1>9, <1>10 DEF Path, V, N

(* The fold that reads a card, followed along its entries.                 *)
LEMMA EntrySteps ==
    ASSUME NEW s \in Seq(CardEntry), NEW base \in Contacts
    PROVE  \E F \in [0..Len(s) -> Contacts] :
               /\ F[0] = base /\ F[Len(s)] = FoldLeft(Entry, base, s)
               /\ \A n \in 1..Len(s) : F[n] = Entry(F[n - 1], s[n])
<1> DEFINE N == Len(s)
           V == Contacts
           step == [p \in V \X (1..N) |-> Entry(p[1], s[p[2]])]
           IsFold(f) == f = [T \in SUBSET (1..N) |->
               IF T = {} THEN base ELSE Entry(f[T \ {Max(T)}], s[Max(T)])]
           g == CHOOSE f : IsFold(f)
<1>1. N \in Nat /\ DOMAIN s = 1..N /\ \A n \in 1..N : s[n] \in CardEntry
    BY LenProperties
<1>2. \A a \in V, x \in CardEntry : Entry(a, x) \in V
    BY EntryValue
<1> HIDE DEF V
<1>3. step \in [V \X (1..N) -> V] /\ base \in V
    BY <1>1, <1>2 DEF V
<1>4. IsFold(g)
    <2>1. PICK f \in [SUBSET (1..N) -> V] : Table(f, N, base, step)
        BY <1>1, <1>3, FoldExists
    <2>2. ASSUME NEW T \in SUBSET (1..N), T # {}
          PROVE  step[<<f[T \ {Max(T)}], Max(T)>>] = Entry(f[T \ {Max(T)}], s[Max(T)])
        BY <1>1, <2>1, <2>2, MaxIsMember
    <2>3. IsFold(f)
        BY <2>1, <2>2 DEF Table
    <2> QED
        BY <2>3
<1>5. FoldLeft(Entry, base, s) = g[1..N]
    BY <1>1, Zenon DEF FoldLeft, MapThenFoldSet
<1>6. g[{}] = base
    BY <1>4
<1>7. ASSUME NEW n \in 1..N PROVE g[1..n] = Entry(g[1..(n - 1)], s[n])
    <2>1. 1..n \in SUBSET (1..N) /\ 1..n # {} /\ Max(1..n) = n /\ (1..n) \ {n} = 1..(n - 1)
        BY <1>1, MaxOfRange
    <2> HIDE DEF g, N
    <2> QED
        BY <1>4, <2>1
<1>8. ASSUME NEW n \in 1..N, NEW a \in V PROVE step[<<a, n>>] = Entry(a, s[n])
    OBVIOUS
<1> HIDE DEF g, step, N
<1>9. PICK F \in [0..N -> V] : F[N] = g[1..N] /\ Path(F, N, base, step)
    <2>1. \A n \in 1..N : g[1..(n - 1)] \in V => g[1..n] = step[<<g[1..(n - 1)], n>>]
        BY <1>7, <1>8
    <2>2. N \in Nat /\ base \in V /\ step \in [V \X (1..N) -> V] /\ g[{}] = base
        BY <1>1, <1>3, <1>6
    <2> QED
        BY <2>1, <2>2, FoldAlong, ZenonT(60)
<1>10. \A n \in 1..N : F[n] = Entry(F[n - 1], s[n])
    <2> SUFFICES ASSUME NEW n \in 1..N PROVE F[n] = Entry(F[n - 1], s[n])
        OBVIOUS
    <2>1. F[n - 1] \in V
        BY <1>1, n - 1 \in 0..N
    <2> QED
        BY <2>1, <1>8, <1>9 DEF Path
<1> QED
    BY <1>5, <1>9, <1>10 DEF Path, V, N

-----------------------------------------------------------------------------
(* parseDomain's list of statuses has none twice.                          *)
LEMMA StatusResult ==
    ASSUME NEW s \in Seq(STRING)
    PROVE  FoldLeft(AddStatus, <<>>, s) \in Seq(StatusValues)
           /\ Distinct(FoldLeft(AddStatus, <<>>, s))
<1> DEFINE t == FoldLeft(AddStatus, <<>>, s)
           N == Len(s)
<1>1. N \in Nat /\ \A n \in 1..N : s[n] \in STRING
    BY LenProperties
<1>2. <<>> \in Seq(StatusValues)
    OBVIOUS
<1>3. PICK F \in [0..N -> Seq(StatusValues)] :
          F[0] = <<>> /\ F[N] = t /\ \A n \in 1..N : F[n] = AddStatus(F[n - 1], s[n])
    BY <1>2, StatusSteps
<1> HIDE DEF t, N
<1>4. \A n \in 1..N : \/ F[n] = F[n - 1]
                      \/ \E x \in StatusValues : x \notin ToSet(F[n - 1]) /\ F[n] = Append(F[n - 1], x)
    <2> SUFFICES ASSUME NEW n \in 1..N, F[n] # F[n - 1]
                 PROVE  \E x \in StatusValues : x \notin ToSet(F[n - 1]) /\ F[n] = Append(F[n - 1], x)
        OBVIOUS
    <2>1. F[n - 1] \in Seq(StatusValues)
        BY <1>1, n - 1 \in 0..N
    <2>2. StatusOf(s[n]) \in StatusValues
        BY <1>1 DEF StatusValues
    <2>3. ~Contains(F[n - 1], StatusOf(s[n])) /\ F[n] = Append(F[n - 1], StatusOf(s[n]))
        BY <1>3 DEF AddStatus
    <2> QED
        BY <2>1, <2>2, <2>3, ContainsMember
<1>5. Distinct(F[N])
    <2>1. Distinct(<<>>)
        BY DEF Distinct
    <2> QED
        BY <1>1, <1>3, <1>4, <2>1, DistinctGrows
<1> QED
    BY <1>1, <1>3, <1>5 DEF t

(* Nor has the merged one: it begins with the statuses that were there and *)
(* has every one of the registrar's that is known.                         *)
LEMMA KnownStatusResult ==
    ASSUME NEW s \in Seq(STRING), NEW base \in Seq(StatusValues), Distinct(base), NEW t,
           t = FoldLeft(AddKnownStatus, base, s)
    PROVE  /\ t \in Seq(StatusValues) /\ Distinct(t) /\ IsPrefix(base, t)
           /\ \A i \in DOMAIN s : StatusOf(s[i]) # Unknown => Contains(t, StatusOf(s[i]))
<1> DEFINE N == Len(s)
<1>1. N \in Nat /\ DOMAIN s = 1..N /\ \A n \in 1..N : s[n] \in STRING
    BY LenProperties
<1>3. PICK F \in [0..N -> Seq(StatusValues)] :
          F[0] = base /\ F[N] = t /\ \A n \in 1..N : F[n] = AddKnownStatus(F[n - 1], s[n])
    BY KnownStatusSteps
<1> HIDE DEF N
<1>4. ASSUME NEW n \in 1..N
      PROVE  /\ F[n - 1] \in Seq(StatusValues)
             /\ \/ F[n] = F[n - 1] /\ (StatusOf(s[n]) # Unknown => StatusOf(s[n]) \in ToSet(F[n - 1]))
                \/ /\ StatusOf(s[n]) \in StatusValues /\ StatusOf(s[n]) \notin ToSet(F[n - 1])
                   /\ F[n] = Append(F[n - 1], StatusOf(s[n]))
    <2>1. F[n - 1] \in Seq(StatusValues)
        BY <1>1, n - 1 \in 0..N
    <2>2. StatusOf(s[n]) \in StatusValues
        BY <1>1 DEF StatusValues
    <2>3. Contains(F[n - 1], StatusOf(s[n])) <=> StatusOf(s[n]) \in ToSet(F[n - 1])
        BY <2>1, ContainsMember
    <2>4. F[n] = AddKnownStatus(F[n - 1], s[n])
        BY <1>3
    <2> QED
        BY <2>1, <2>2, <2>3, <2>4 DEF AddKnownStatus, AddStatus
<1>5. Distinct(F[N])
    <2>1. \A n \in 1..N : \/ F[n] = F[n - 1]
                          \/ \E x \in StatusValues : x \notin ToSet(F[n - 1]) /\ F[n] = Append(F[n - 1], x)
        BY <1>4
    <2> QED
        BY <1>1, <1>3, <2>1, DistinctGrows
<1>6. IsPrefix(base, t)
    <2>1. Grows(F, N, StatusValues)
        BY <1>4 DEF Grows
    <2>2. Len(F[0]) <= Len(F[N]) /\ \A i \in 1..Len(F[0]) : F[N][i] = F[0][i]
        BY <1>1, <2>1, GrowsByPrefix, N \in 0..N
    <2> QED
        BY <1>1, <1>3, <2>2, PrefixByElement, N \in 0..N
<1>7. \A i \in 1..N : StatusOf(s[i]) # Unknown => StatusOf(s[i]) \in ToSet(F[N])
    <2> DEFINE G == {n \in 0..N : \A i \in 1..n :
                         StatusOf(s[i]) # Unknown => StatusOf(s[i]) \in ToSet(F[n])}
    <2>1. 0 \in G
        BY <1>1
    <2>2. ASSUME NEW n \in 1..N, n - 1 \in G PROVE n \in G
        <3>1. ToSet(F[n - 1]) \subseteq ToSet(F[n])
              /\ (StatusOf(s[n]) # Unknown => StatusOf(s[n]) \in ToSet(F[n]))
            <4>1. F[n - 1] \in Seq(StatusValues)
                BY <1>4
            <4>2. CASE F[n] = F[n - 1]
                BY <1>4, <4>2
            <4>3. CASE F[n] # F[n - 1]
                <5>1. StatusOf(s[n]) \in StatusValues /\ F[n] = Append(F[n - 1], StatusOf(s[n]))
                    BY <1>4, <4>3
                <5>2. ToSet(F[n]) = ToSet(F[n - 1]) \cup {StatusOf(s[n])}
                    BY <4>1, <5>1, ToSetOfAppend
                <5> QED
                    BY <5>2
            <4> QED
                BY <4>2, <4>3
        <3>2. \A i \in 1..n : i \in 1..(n - 1) \/ i = n
            OBVIOUS
        <3> QED
            BY <2>2, <3>1, <3>2, <1>1, n \in 0..N
    <2> HIDE DEF G
    <2>3. \A n \in 0..N : n \in G
        BY <1>1, <2>1, <2>2, AlongInduction
    <2> QED
        BY <1>1, <2>3, N \in 0..N DEF G
<1>8. t \in Seq(StatusValues)
    BY <1>1, <1>3, N \in 0..N
<1> QED
    BY <1>1, <1>3, <1>5, <1>6, <1>7, <1>8, ContainsMember

(* The roles of one entity more.                                           *)
LEMMA RolesInAppend ==
    ASSUME NEW S, NEW es \in Seq(S), NEW x \in S
    PROVE  RolesIn(Append(es, x)) = RolesIn(es) \cup ToSet(x.roles)
<1>1. /\ Len(es) \in Nat /\ DOMAIN es = 1..Len(es) /\ DOMAIN Append(es, x) = 1..(Len(es) + 1)
      /\ Append(es, x)[Len(es) + 1] = x
      /\ \A i \in 1..Len(es) : Append(es, x)[i] = es[i]
    BY AppendProperties, LenProperties
<1> DEFINE t == Append(es, x)
           N == Len(es)
<1> HIDE DEF t, N
<1>2. N + 1 \in 1..(N + 1) /\ \A i \in 1..(N + 1) : i = N + 1 \/ i \in 1..N
    BY <1>1 DEF N
<1>3. \A i \in 1..N : i \in 1..(N + 1)
    BY <1>1 DEF N
<1> USE <1>1 DEF t, N
<1> HIDE DEF t, N
<1>4. RolesIn(t) \subseteq RolesIn(es) \cup ToSet(x.roles)
    <2> SUFFICES ASSUME NEW k \in 1..(N + 1), NEW r \in ToSet(t[k].roles)
                 PROVE  r \in RolesIn(es) \cup ToSet(x.roles)
        BY <1>1 DEF RolesIn, t, N
    <2>1. CASE k = N + 1
        BY <1>1, <2>1 DEF t, N
    <2>2. CASE k \in 1..N
        BY <1>1, <2>2 DEF RolesIn, t, N
    <2> QED
        BY <1>2, <2>1, <2>2
<1>5. RolesIn(es) \subseteq RolesIn(t)
    <2> SUFFICES ASSUME NEW k \in 1..N, NEW r \in ToSet(es[k].roles) PROVE r \in RolesIn(t)
        BY <1>1 DEF RolesIn, N
    <2>1. k \in 1..(N + 1) /\ t[k] = es[k]
        BY <1>1, <1>3 DEF t, N
    <2> QED
        BY <1>1, <2>1 DEF RolesIn, t, N
<1>6. ToSet(x.roles) \subseteq RolesIn(t)
    BY <1>1, <1>2 DEF RolesIn, t, N
<1> QED
    BY <1>4, <1>5, <1>6 DEF t

\* The entity at k brought a role nobody before it had.
Fresh(es, k) == ~(ToSet(es[k].roles) \subseteq RolesIn(SubSeq(es, 1, k - 1)) \cup {Unknown})

(* Whether it did is not changed by the entities after it.                 *)
LEMMA FreshAppend ==
    ASSUME NEW S, NEW es \in Seq(S), NEW x \in S
    PROVE  /\ \A k \in 1..Len(es) : Fresh(Append(es, x), k) <=> Fresh(es, k)
           /\ Fresh(Append(es, x), Len(es) + 1)
                  <=> ~(ToSet(x.roles) \subseteq RolesIn(es) \cup {Unknown})
<1>1. /\ Len(es) \in Nat /\ Append(es, x)[Len(es) + 1] = x
      /\ \A i \in 1..Len(es) : Append(es, x)[i] = es[i]
    BY AppendProperties, LenProperties
<1>2. ASSUME NEW k \in 1..Len(es) PROVE Fresh(Append(es, x), k) <=> Fresh(es, k)
    <2>1. k - 1 \in 0..Len(es)
        BY <1>1
    <2>2. SubSeq(Append(es, x), 1, k - 1) = SubSeq(es, 1, k - 1)
        BY <2>1, SubSeqOfAppend
    <2> QED
        BY <1>1, <2>2, Zenon DEF Fresh
<1>3. SubSeq(Append(es, x), 1, (Len(es) + 1) - 1) = es
    <2>1. (Len(es) + 1) - 1 = Len(es) /\ Len(es) \in 0..Len(es)
        BY <1>1
    <2>2. SubSeq(Append(es, x), 1, Len(es)) = SubSeq(es, 1, Len(es))
        BY <2>1, SubSeqOfAppend
    <2> QED
        BY <2>1, <2>2, SubSeqFull
<1>4. Fresh(Append(es, x), Len(es) + 1)
          <=> ~(ToSet(x.roles) \subseteq RolesIn(es) \cup {Unknown})
    BY <1>1, <1>3, Zenon DEF Fresh
<1> QED
    BY <1>2, <1>4

(* The merged entities begin with those that were there; those added are the *)
(* registrar's, each with a role that was new; and all its known roles are *)
(* among them.                                                             *)
LEMMA EntityResult ==
    ASSUME NEW s \in Seq(Object), NEW base \in Seq(EntityValues), NEW t,
           t = FoldLeft(AddEntity, base, s)
    PROVE  /\ t \in Seq(EntityValues) /\ IsPrefix(base, t)
           /\ \A k \in DOMAIN t : k > Len(base) =>
                  Fresh(t, k) /\ \E i \in DOMAIN s : t[k] = Entity(s[i])
           /\ \A i \in DOMAIN s : ToSet(Entity(s[i]).roles) \subseteq RolesIn(t) \cup {Unknown}
<1> DEFINE N == Len(s)
           E(i) == Entity(s[i])
           Rs(i) == ToSet(E(i).roles)
<1>1. N \in Nat /\ DOMAIN s = 1..N /\ \A n \in 1..N : s[n] \in Object
    BY LenProperties
<1>2. PICK F \in [0..N -> Seq(EntityValues)] :
          F[0] = base /\ F[N] = t /\ \A n \in 1..N : F[n] = AddEntity(F[n - 1], s[n])
    BY EntitySteps
<1> HIDE DEF N
<1>3. \A n \in 0..N : F[n] \in Seq(EntityValues) /\ Len(F[n]) \in Nat
    BY LenProperties
<1>4. ASSUME NEW n \in 1..N
      PROVE  /\ F[n - 1] \in Seq(EntityValues) /\ E(n) \in EntityValues
             /\ \/ F[n] = F[n - 1] /\ Rs(n) \subseteq RolesIn(F[n - 1]) \cup {Unknown}
                \/ /\ F[n] = Append(F[n - 1], E(n))
                   /\ ~(Rs(n) \subseteq RolesIn(F[n - 1]) \cup {Unknown})
    <2>1. F[n - 1] \in Seq(EntityValues)
        BY <1>1, n - 1 \in 0..N
    <2>2. E(n) \in EntityValues
        BY <1>1 DEF EntityValues
    <2>3. F[n] = AddEntity(F[n - 1], s[n])
        BY <1>2
    <2> QED
        BY <2>1, <2>2, <2>3 DEF AddEntity
<1> HIDE DEF E
<1>5. IsPrefix(base, t) /\ t \in Seq(EntityValues)
    <2>1. Grows(F, N, EntityValues)
        BY <1>4 DEF Grows
    <2>2. Len(F[0]) <= Len(F[N]) /\ \A i \in 1..Len(F[0]) : F[N][i] = F[0][i]
        BY <1>1, <2>1, GrowsByPrefix, N \in 0..N
    <2> QED
        BY <1>1, <1>2, <2>2, PrefixByElement, N \in 0..N
<1>6. \A k \in DOMAIN t : k > Len(base) => Fresh(t, k) /\ \E i \in 1..N : t[k] = E(i)
    <2> DEFINE New(es) == \A k \in 1..Len(es) : k > Len(base) =>
                              Fresh(es, k) /\ \E i \in 1..N : es[k] = E(i)
               G == {n \in 0..N : New(F[n])}
    <2>1. 0 \in G
        BY <1>1, <1>2
    <2>2. ASSUME NEW n \in 1..N, n - 1 \in G PROVE n \in G
        <3>1. New(F[n - 1]) /\ F[n - 1] \in Seq(EntityValues) /\ Len(F[n - 1]) \in Nat
            BY <1>1, <1>3, <2>2, n - 1 \in 0..N
        <3>2. CASE F[n] = F[n - 1]
            BY <3>1, <3>2
        <3>3. CASE F[n] # F[n - 1]
            <4> DEFINE u == F[n - 1]
                       v == F[n]
            <4>1. v = Append(u, E(n)) /\ ~(Rs(n) \subseteq RolesIn(u) \cup {Unknown})
                  /\ E(n) \in EntityValues /\ u \in Seq(EntityValues)
                BY <1>4, <3>3
            <4>2. New(u) /\ Len(u) \in Nat
                BY <3>1
            <4> HIDE DEF u, v
            <4>3. /\ Len(v) = Len(u) + 1 /\ v[Len(u) + 1] = E(n)
                  /\ \A k \in 1..Len(u) : v[k] = u[k]
                BY <4>1, AppendProperties
            <4>4. /\ \A k \in 1..Len(u) : Fresh(v, k) <=> Fresh(u, k)
                  /\ Fresh(v, Len(u) + 1)
                BY <4>1, FreshAppend
            <4>5. \A k \in 1..Len(v) : k \in 1..Len(u) \/ k = Len(u) + 1
                BY <4>2, <4>3
            <4>6. New(v)
                BY <4>2, <4>3, <4>4, <4>5
            <4> QED
                BY <4>6 DEF v
        <3> QED
            BY <3>2, <3>3
    <2> HIDE DEF G
    <2>3. \A n \in 0..N : n \in G
        BY <1>1, <2>1, <2>2, AlongInduction
    <2>4. New(t)
        BY <1>1, <1>2, <2>3, N \in 0..N DEF G
    <2> QED
        BY <1>5, <2>4, LenProperties
<1>7. \A i \in 1..N : Rs(i) \subseteq RolesIn(t) \cup {Unknown}
    <2> DEFINE Had(n) == \A i \in 1..n : Rs(i) \subseteq RolesIn(F[n]) \cup {Unknown}
               G == {n \in 0..N : Had(n)}
    <2> HIDE DEF Rs
    <2>1. 0 \in G
        BY <1>1
    <2>2. ASSUME NEW n \in 1..N, n - 1 \in G PROVE n \in G
        <3>1. RolesIn(F[n - 1]) \subseteq RolesIn(F[n])
              /\ Rs(n) \subseteq RolesIn(F[n]) \cup {Unknown}
            <4>1. F[n - 1] \in Seq(EntityValues) /\ E(n) \in EntityValues
                BY <1>4
            <4>2. CASE F[n] = F[n - 1]
                <5>1. Rs(n) \subseteq RolesIn(F[n - 1]) \cup {Unknown}
                      \/ F[n] = Append(F[n - 1], E(n))
                    BY <1>4
                <5>2. RolesIn(Append(F[n - 1], E(n))) = RolesIn(F[n - 1]) \cup Rs(n)
                    BY <4>1, RolesInAppend DEF Rs
                <5> QED
                    BY <4>2, <5>1, <5>2
            <4>3. CASE F[n] # F[n - 1]
                <5>1. F[n] = Append(F[n - 1], E(n))
                    BY <1>4, <4>3
                <5>2. RolesIn(F[n]) = RolesIn(F[n - 1]) \cup Rs(n)
                    BY <4>1, <5>1, RolesInAppend DEF Rs
                <5> QED
                    BY <5>2
            <4> QED
                BY <4>2, <4>3
        <3>2. \A i \in 1..n : i \in 1..(n - 1) \/ i = n
            OBVIOUS
        <3>3. Had(n - 1)
            BY <2>2
        <3>4. Had(n)
            BY <3>1, <3>2, <3>3
        <3> QED
            BY <3>4, n \in 0..N
    <2> HIDE DEF G
    <2>3. \A n \in 0..N : n \in G
        BY <1>1, <2>1, <2>2, AlongInduction
    <2> QED
        BY <1>1, <1>2, <2>3, N \in 0..N DEF G
<1> QED
    BY <1>1, <1>5, <1>6, <1>7 DEF E

-----------------------------------------------------------------------------
\* The services of f that name a server for t.
Listing(f, t) == {k \in DOMAIN f : Usable(f[k]) /\ Contains(f[k].labels, t)}

(* A TLD is in the table if it is listed, with the server it is listed with *)
(* last.                                                                   *)
LEMMA BootstrapResult ==
    ASSUME NEW f \in Seq(Service), NEW t
    PROVE  /\ t \in DOMAIN NewBootstrap(f) <=> Listing(f, t) # {}
           /\ \A k \in Listing(f, t) : (\A l \in Listing(f, t) : l <= k)
                  => NewBootstrap(f)[t] = f[k].urls[1]
<1> DEFINE N == Len(f)
           base == [x \in {} |-> ""]
           Lists(k) == Usable(f[k]) /\ t \in ToSet(f[k].labels)
<1>1. N \in Nat /\ DOMAIN f = 1..N /\ \A n \in 1..N : f[n] \in Service
    BY LenProperties
<1>2. base \in Tables /\ DOMAIN base = {}
    <2>1. base \in [{} -> STRING] /\ {} \in SUBSET STRING
        OBVIOUS
    <2> QED
        BY <2>1 DEF Tables
<1>3. NewBootstrap(f) = FoldLeft(AddService, base, f)
    BY DEF NewBootstrap
<1> HIDE DEF N, base
<1>4. PICK F \in [0..N -> Tables] :
          F[0] = base /\ F[N] = NewBootstrap(f) /\ \A n \in 1..N : F[n] = AddService(F[n - 1], f[n])
    <2>1. \E F \in [0..Len(f) -> Tables] :
              /\ F[0] = base /\ F[Len(f)] = FoldLeft(AddService, base, f)
              /\ \A n \in 1..Len(f) : F[n] = AddService(F[n - 1], f[n])
        BY <1>2, ServiceSteps
    <2> QED
        BY <1>3, <2>1 DEF N
<1>5. ASSUME NEW n \in 1..N
      PROVE  /\ t \in DOMAIN F[n] <=> t \in DOMAIN F[n - 1] \/ Lists(n)
             /\ t \in DOMAIN F[n] => F[n][t] = IF Lists(n) THEN f[n].urls[1] ELSE F[n - 1][t]
    <2>1. F[n - 1] \in Tables /\ f[n] \in Service /\ F[n] = AddService(F[n - 1], f[n])
        BY <1>1, <1>4, n - 1 \in 0..N
    <2> DEFINE a == F[n - 1]
    <2> HIDE DEF a
    <2>2. /\ t \in DOMAIN AddService(a, f[n]) <=> t \in DOMAIN a \/ Lists(n)
          /\ t \in DOMAIN AddService(a, f[n]) =>
                 AddService(a, f[n])[t] = IF Lists(n) THEN f[n].urls[1] ELSE a[t]
        <3>1. a \in Tables /\ f[n] \in Service
            BY <2>1 DEF a
        <3> QED
            BY <3>1, AddServiceValue
    <2> QED
        BY <2>1, <2>2 DEF a
<1>6. \A k \in 1..N : k \in Listing(f, t) <=> Lists(k)
    <2> SUFFICES ASSUME NEW k \in 1..N PROVE k \in Listing(f, t) <=> Lists(k)
        OBVIOUS
    <2>1. f[k].labels \in Seq(STRING)
        BY <1>1 DEF Service
    <2>2. Contains(f[k].labels, t) <=> t \in ToSet(f[k].labels)
        BY <2>1, ContainsMember
    <2> QED
        BY <1>1, <2>2 DEF Listing
<1> HIDE DEF Lists
<1> DEFINE Known(n) == t \in DOMAIN F[n] <=> \E k \in 1..n : Lists(k)
           Later(n) == \A k \in 1..n : Lists(k) /\ (\A l \in (k + 1)..n : ~Lists(l))
                           => F[n][t] = f[k].urls[1]
           G == {n \in 0..N : Known(n) /\ Later(n)}
<1>7. 0 \in G
    BY <1>1, <1>2, <1>4
<1>8. ASSUME NEW n \in 1..N, n - 1 \in G PROVE n \in G
    <2>1. Known(n - 1) /\ Later(n - 1)
        BY <1>8
    <2>2. \A k \in 1..n : k \in 1..(n - 1) \/ k = n
        OBVIOUS
    <2>3. \A k \in 1..(n - 1) : k \in 1..n
        OBVIOUS
    <2>4. Known(n)
        BY <1>5, <2>1, <2>2, <2>3, n \in 1..n
    <2>5. Later(n)
        <3> SUFFICES ASSUME NEW k \in 1..n, Lists(k), \A l \in (k + 1)..n : ~Lists(l)
                     PROVE  F[n][t] = f[k].urls[1]
            OBVIOUS
        <3>1. t \in DOMAIN F[n]
            BY <2>4
        <3>2. CASE k = n
            BY <1>5, <3>1, <3>2
        <3>3. CASE k # n
            <4>1. k \in 1..(n - 1) /\ n \in (k + 1)..n /\ \A l \in (k + 1)..(n - 1) : l \in (k + 1)..n
                BY <3>3
            <4>2. ~Lists(n) /\ F[n - 1][t] = f[k].urls[1]
                BY <2>1, <4>1
            <4> QED
                BY <1>5, <3>1, <4>2
        <3> QED
            BY <3>2, <3>3
    <2> HIDE DEF Known, Later
    <2> QED
        BY <2>4, <2>5, n \in 0..N
<1> HIDE DEF G
<1>9. \A n \in 0..N : n \in G
    BY <1>1, <1>7, <1>8, AlongInduction
<1>10. Known(N) /\ Later(N)
    BY <1>1, <1>9, N \in 0..N DEF G
<1>11. t \in DOMAIN NewBootstrap(f) <=> Listing(f, t) # {}
    <2>1. Listing(f, t) \subseteq 1..N
        BY <1>1 DEF Listing
    <2> QED
        BY <1>4, <1>6, <1>10, <2>1
<1>12. ASSUME NEW k \in Listing(f, t), \A l \in Listing(f, t) : l <= k
       PROVE  NewBootstrap(f)[t] = f[k].urls[1]
    <2>1. k \in 1..N
        BY <1>1 DEF Listing
    <2>2. \A l \in (k + 1)..N : l \in 1..N /\ ~(l <= k)
        BY <1>1, <2>1
    <2>3. \A l \in (k + 1)..N : ~Lists(l)
        BY <1>6, <1>12, <2>2
    <2> QED
        BY <1>4, <1>6, <1>10, <1>12, <2>1, <2>3
<1> QED
    BY <1>11, <1>12

\* The server Resolve finds for the TLD.
Asked == Resolve(NewBootstrap(services), tld)

(* It is the one that Routed describes.                                    *)
LEMMA ResolveResult ==
    ASSUME services \in Seq(Service)
    PROVE  LET listing == {k \in DOMAIN services : /\ Usable(services[k])
                                                   /\ Contains(services[k].labels, tld)}
           IN  Asked = CASE listing # {} -> services[CHOOSE k \in listing :
                                                         \A l \in listing : l <= k].urls[1]
                         [] listing = {} /\ tld = "de" -> "https://rdap.denic.de/"
                         [] OTHER -> ""
<1> DEFINE L == {k \in DOMAIN services : Usable(services[k]) /\ Contains(services[k].labels, tld)}
           Last1 == CHOOSE k \in L : \A l \in L : l <= k
           T == NewBootstrap(services)
<1>1. L = Listing(services, tld)
    BY DEF Listing
<1>2. Len(services) \in Nat /\ DOMAIN services = 1..Len(services)
    BY LenProperties
<1>3. L \in SUBSET (1..Len(services))
    BY <1>2
<1>4. tld \in DOMAIN T <=> L # {}
    BY <1>1, BootstrapResult
<1>5. DOMAIN fallbackServers = {"de"} /\ fallbackServers["de"] = "https://rdap.denic.de/"
    BY DEF fallbackServers
<1>6. ASSUME L # {} PROVE T[tld] = services[Last1].urls[1]
    <2> HIDE DEF L
    <2>1. Max(L) \in L /\ \A l \in L : l <= Max(L)
        BY <1>2, <1>3, <1>6, MaxIsMember
    <2>2. Last1 \in L /\ \A l \in L : l <= Last1
        BY <2>1
    <2> HIDE DEF T, Last1
    <2> QED
        BY <1>1, <2>2, BootstrapResult DEF T
<1> HIDE DEF L, T, Last1
<1>7. Asked = CASE L # {} -> services[Last1].urls[1]
                [] L = {} /\ tld = "de" -> "https://rdap.denic.de/"
                [] OTHER -> ""
    <2>1. CASE L # {}
        BY <1>4, <1>6, <2>1 DEF Asked, Resolve, T
    <2>2. CASE L = {} /\ tld = "de"
        BY <1>4, <1>5, <2>2 DEF Asked, Resolve, T
    <2>3. CASE L = {} /\ tld # "de"
        BY <1>4, <1>5, <2>3 DEF Asked, Resolve, T
    <2> QED
        BY <2>1, <2>2, <2>3
<1> QED
    BY <1>7 DEF L, Last1

-----------------------------------------------------------------------------
\* The entries of s for the property p that are whole and have text, and those
\* whose text is not empty.
Worth(s, p) == {e \in ToSet(s) : e.whole /\ e.prop = p /\ e.value # NotText}
Full(s, p) == {e \in Worth(s, p) : e.value # Blank}

(* The contact parseVCard begins with.                                     *)
LEMMA NoContactShape ==
    /\ NoContact \in Contacts
    /\ NoContact.fn = Blank /\ NoContact.phone = Blank /\ NoContact.emails = <<>>
<1>1. NoContact = [fn |-> Blank, kind |-> Blank, org |-> Blank, address |-> Blank,
                   phone |-> Blank, emails |-> <<>>]
    BY Zenon DEF NoContact, Blank
<1>2. Blank \in Texts
    BY DEF Texts
<1> QED
    BY <1>1, <1>2 DEF Contacts

(* The name is the last one given.                                         *)
LEMMA FirstNames ==
    ASSUME NEW s \in Seq(CardEntry), NEW F \in [0..Len(s) -> Contacts], F[0] = NoContact,
           \A n \in 1..Len(s) : F[n] = Entry(F[n - 1], s[n]), NEW kept,
           kept = Only(s, Worth(s, "fn"))
    PROVE  F[Len(s)].fn = IF kept = <<>> THEN Blank ELSE Last(kept).value
<1> DEFINE N == Len(s)
           K == Worth(s, "fn")
<1>1. N \in Nat /\ DOMAIN s = 1..N /\ \A n \in 1..N : s[n] \in CardEntry
    BY LenProperties
<1>2. PICK A \in [0..N -> Seq(CardEntry)] : Picks(A, s, K)
    BY OnlySteps
<1>3. ASSUME NEW n \in 1..N
      PROVE  /\ A[n - 1] \in Seq(CardEntry) /\ s[n] \in CardEntry
             /\ A[n] = IF s[n] \in K THEN Append(A[n - 1], s[n]) ELSE A[n - 1]
             /\ F[n].fn = IF s[n] \in K THEN s[n].value ELSE F[n - 1].fn
    <2>1. A[n - 1] \in Seq(CardEntry) /\ F[n - 1] \in Contacts /\ s[n] \in CardEntry
        BY <1>1, n - 1 \in 0..N
    <2>2. A[n] = IF s[n] \in K THEN Append(A[n - 1], s[n]) ELSE A[n - 1]
        BY <1>2 DEF Picks
    <2>3. s[n] \in K <=> s[n].whole /\ s[n].prop = "fn" /\ s[n].value # NotText
        BY <1>1 DEF Worth, ToSet
    <2>4. F[n].fn = IF s[n].whole /\ s[n].prop = "fn" /\ s[n].value # NotText
                    THEN s[n].value ELSE F[n - 1].fn
        <3>1. \A c \in Contacts, e \in CardEntry : Entry(c, e).fn =
                  IF e.whole /\ e.prop = "fn" /\ e.value # NotText THEN e.value ELSE c.fn
            BY EntryValue
        <3> QED
            BY <2>1, <3>1
    <2> HIDE DEF K
    <2> QED
        BY <2>1, <2>2, <2>3, <2>4
<1> HIDE DEF K, N
<1> DEFINE Said(n) == F[n].fn = IF A[n] = <<>> THEN Blank ELSE Last(A[n]).value
           G == {n \in 0..N : Said(n)}
<1>4. 0 \in G
    BY <1>1, <1>2, NoContactShape DEF Picks
<1>5. ASSUME NEW n \in 1..N, n - 1 \in G PROVE n \in G
    <2>1. Said(n - 1)
        BY <1>5
    <2>2. CASE s[n] \in K
        <3>1. /\ A[n - 1] \in Seq(CardEntry) /\ s[n] \in CardEntry
              /\ A[n] = Append(A[n - 1], s[n]) /\ F[n].fn = s[n].value
            BY <1>3, <2>2
        <3>2. Append(A[n - 1], s[n]) # <<>> /\ Last(Append(A[n - 1], s[n])) = s[n]
            BY <3>1, EndsOfAppend
        <3> QED
            BY <3>1, <3>2, n \in 0..N
    <2>3. CASE s[n] \notin K
        BY <1>3, <2>1, <2>3, n \in 0..N
    <2> QED
        BY <2>2, <2>3
<1> HIDE DEF G
<1>6. \A n \in 0..N : n \in G
    BY <1>1, <1>4, <1>5, AlongInduction
<1>7. Said(N)
    BY <1>1, <1>6, N \in 0..N DEF G
<1> QED
    BY <1>2, <1>7 DEF Picks, N, K

(* The telephone number is the first that is one.                          *)
LEMMA FirstPhone ==
    ASSUME NEW s \in Seq(CardEntry), NEW F \in [0..Len(s) -> Contacts], F[0] = NoContact,
           \A n \in 1..Len(s) : F[n] = Entry(F[n - 1], s[n]), NEW kept,
           kept = Only(s, Full(s, "tel"))
    PROVE  F[Len(s)].phone = IF kept = <<>> THEN Blank ELSE Head(kept).value
<1> DEFINE N == Len(s)
           K == Full(s, "tel")
<1>1. N \in Nat /\ DOMAIN s = 1..N /\ \A n \in 1..N : s[n] \in CardEntry
    BY LenProperties
<1>2. PICK A \in [0..N -> Seq(CardEntry)] : Picks(A, s, K)
    BY OnlySteps
<1>3. ASSUME NEW n \in 1..N
      PROVE  /\ A[n - 1] \in Seq(CardEntry) /\ s[n] \in CardEntry
             /\ A[n] = IF s[n] \in K THEN Append(A[n - 1], s[n]) ELSE A[n - 1]
             /\ s[n] \in K => s[n].value # Blank
             /\ F[n].phone = IF F[n - 1].phone = Blank /\ s[n] \in K
                             THEN s[n].value ELSE F[n - 1].phone
    <2>1. A[n - 1] \in Seq(CardEntry) /\ F[n - 1] \in Contacts /\ s[n] \in CardEntry
        BY <1>1, n - 1 \in 0..N
    <2>2. A[n] = IF s[n] \in K THEN Append(A[n - 1], s[n]) ELSE A[n - 1]
        BY <1>2 DEF Picks
    <2>3. s[n] \in K <=> /\ s[n].whole /\ s[n].prop = "tel" /\ s[n].value # NotText
                         /\ s[n].value # Blank
        BY <1>1 DEF Full, Worth, ToSet
    <2>4. F[n].phone = IF /\ s[n].whole /\ s[n].prop = "tel" /\ s[n].value # NotText
                          /\ F[n - 1].phone = Blank
                       THEN s[n].value ELSE F[n - 1].phone
        <3>1. \A c \in Contacts, e \in CardEntry : Entry(c, e).phone =
                  IF e.whole /\ e.prop = "tel" /\ e.value # NotText /\ c.phone = Blank
                  THEN e.value ELSE c.phone
            BY EntryValue
        <3> QED
            BY <2>1, <3>1
    <2> HIDE DEF K
    <2> QED
        BY <2>1, <2>2, <2>3, <2>4
<1> HIDE DEF K, N
<1> DEFINE Said(n) == /\ F[n].phone = IF A[n] = <<>> THEN Blank ELSE Head(A[n]).value
                      /\ A[n] # <<>> => Head(A[n]).value # Blank
           G == {n \in 0..N : Said(n)}
<1>4. 0 \in G
    BY <1>1, <1>2, NoContactShape DEF Picks
<1>5. ASSUME NEW n \in 1..N, n - 1 \in G PROVE n \in G
    <2>1. Said(n - 1)
        BY <1>5
    <2>2. CASE s[n] \in K
        <3>1. /\ A[n] = Append(A[n - 1], s[n]) /\ A[n] # <<>>
              /\ Head(A[n]) = IF A[n - 1] = <<>> THEN s[n] ELSE Head(A[n - 1])
            <4>1. /\ A[n - 1] \in Seq(CardEntry) /\ s[n] \in CardEntry
                  /\ A[n] = Append(A[n - 1], s[n])
                BY <1>3, <2>2
            <4>2. /\ Append(A[n - 1], s[n]) # <<>>
                  /\ Head(Append(A[n - 1], s[n])) = IF A[n - 1] = <<>> THEN s[n] ELSE Head(A[n - 1])
                <5> DEFINE u == A[n - 1]
                           x == s[n]
                <5>1. u \in Seq(CardEntry) /\ x \in CardEntry
                    BY <4>1
                <5> HIDE DEF u, x
                <5>2. Append(u, x) # <<>> /\ Head(Append(u, x)) = IF u = <<>> THEN x ELSE Head(u)
                    BY <5>1, EndsOfAppend, ZenonT(60)
                <5> QED
                    BY <5>2 DEF u, x
            <4> QED
                BY <4>1, <4>2, Zenon
        <3> QED
            BY <1>3, <2>1, <2>2, <3>1, n \in 0..N
    <2>3. CASE s[n] \notin K
        BY <1>3, <2>1, <2>3, n \in 0..N
    <2> QED
        BY <2>2, <2>3
<1> HIDE DEF G
<1>6. \A n \in 0..N : n \in G
    BY <1>1, <1>4, <1>5, AlongInduction
<1>7. Said(N)
    BY <1>1, <1>6, N \in 0..N DEF G
<1> QED
    BY <1>2, <1>7 DEF Picks, N, K

\* The values of the entries.
Values(u) == [k \in DOMAIN u |-> u[k].value]

(* The values of one entry more.                                           *)
LEMMA ValuesAppend ==
    ASSUME NEW u \in Seq(CardEntry), NEW x \in CardEntry
    PROVE  Values(Append(u, x)) = Append(Values(u), x.value)
<1> DEFINE N == Len(u)
           t == Append(u, x)
<1>1. /\ N \in Nat /\ DOMAIN u = 1..N /\ DOMAIN t = 1..(N + 1)
      /\ t[N + 1] = x /\ \A i \in 1..N : t[i] = u[i] /\ u[i] \in CardEntry
    BY AppendProperties, LenProperties
<1> HIDE DEF t, N
<1>2. Values(u) \in [1..N -> STRING] /\ x.value \in STRING
    BY <1>1 DEF Values, CardEntry
<1>3. Values(u) \in Seq(STRING) /\ Len(Values(u)) = N
    BY <1>1, <1>2, FunctionIsSeq
<1>4. /\ Append(Values(u), x.value) \in Seq(STRING)
      /\ Len(Append(Values(u), x.value)) = N + 1
      /\ Append(Values(u), x.value)[N + 1] = x.value
      /\ \A i \in 1..N : Append(Values(u), x.value)[i] = Values(u)[i]
    BY <1>2, <1>3, AppendProperties
<1>5. \A i \in 1..(N + 1) : i \in 1..N \/ i = N + 1
    BY <1>1
<1>6. Values(t) \in [1..(N + 1) -> STRING]
    BY <1>1, <1>2, <1>5 DEF Values, CardEntry
<1>7. Values(t) \in Seq(STRING) /\ Len(Values(t)) = N + 1
    BY <1>1, <1>6, FunctionIsSeq
<1>8. \A i \in 1..(N + 1) : Values(t)[i] = Append(Values(u), x.value)[i]
    <2>1. \A i \in 1..N : i \in 1..(N + 1) /\ Values(t)[i] = u[i].value /\ Values(u)[i] = u[i].value
        BY <1>1 DEF Values
    <2>2. Values(t)[N + 1] = x.value
        BY <1>1 DEF Values
    <2> QED
        BY <1>4, <1>5, <2>1, <2>2
<1>9. Values(t) = Append(Values(u), x.value)
    BY <1>3, <1>4, <1>7, <1>8, SeqEqual
<1> QED
    BY <1>9 DEF t

(* The addresses of mail are all that are given, in their order.           *)
LEMMA AllMail ==
    ASSUME NEW s \in Seq(CardEntry), NEW F \in [0..Len(s) -> Contacts], F[0] = NoContact,
           \A n \in 1..Len(s) : F[n] = Entry(F[n - 1], s[n])
    PROVE  F[Len(s)].emails = Values(Only(s, Full(s, "email")))
<1> DEFINE N == Len(s)
           K == Full(s, "email")
<1>1. N \in Nat /\ DOMAIN s = 1..N /\ \A n \in 1..N : s[n] \in CardEntry
    BY LenProperties
<1>2. PICK A \in [0..N -> Seq(CardEntry)] : Picks(A, s, K)
    BY OnlySteps
<1>3. ASSUME NEW n \in 1..N
      PROVE  /\ A[n - 1] \in Seq(CardEntry) /\ s[n] \in CardEntry
             /\ A[n] = IF s[n] \in K THEN Append(A[n - 1], s[n]) ELSE A[n - 1]
             /\ F[n].emails = IF s[n] \in K THEN Append(F[n - 1].emails, s[n].value)
                              ELSE F[n - 1].emails
    <2>1. A[n - 1] \in Seq(CardEntry) /\ F[n - 1] \in Contacts /\ s[n] \in CardEntry
        BY <1>1, n - 1 \in 0..N
    <2>2. A[n] = IF s[n] \in K THEN Append(A[n - 1], s[n]) ELSE A[n - 1]
        BY <1>2 DEF Picks
    <2>3. s[n] \in K <=> /\ s[n].whole /\ s[n].prop = "email" /\ s[n].value # NotText
                         /\ s[n].value # Blank
        BY <1>1 DEF Full, Worth, ToSet
    <2>4. F[n].emails = IF /\ s[n].whole /\ s[n].prop = "email" /\ s[n].value # NotText
                           /\ s[n].value # Blank
                        THEN Append(F[n - 1].emails, s[n].value) ELSE F[n - 1].emails
        <3>1. \A c \in Contacts, e \in CardEntry : Entry(c, e).emails =
                  IF e.whole /\ e.prop = "email" /\ e.value # NotText /\ e.value # Blank
                  THEN Append(c.emails, e.value) ELSE c.emails
            BY EntryValue
        <3> QED
            BY <2>1, <3>1
    <2> HIDE DEF K
    <2> QED
        BY <2>1, <2>2, <2>3, <2>4
<1> HIDE DEF K, N
<1> DEFINE Said(n) == F[n].emails = Values(A[n])
           G == {n \in 0..N : Said(n)}
<1>4. 0 \in G
    BY <1>1, <1>2, NoContactShape, EmptySeq DEF Picks, Values
<1>5. ASSUME NEW n \in 1..N, n - 1 \in G PROVE n \in G
    <2>1. Said(n - 1)
        BY <1>5
    <2>2. CASE s[n] \in K
        <3>1. A[n] = Append(A[n - 1], s[n]) /\ F[n].emails = Append(F[n - 1].emails, s[n].value)
            BY <1>3, <2>2
        <3>2. Values(A[n]) = Append(Values(A[n - 1]), s[n].value)
            BY <1>3, <3>1, ValuesAppend
        <3> QED
            BY <2>1, <3>1, <3>2, n \in 0..N
    <2>3. CASE s[n] \notin K
        BY <1>3, <2>1, <2>3, n \in 0..N
    <2> QED
        BY <2>2, <2>3
<1> HIDE DEF G
<1>6. \A n \in 0..N : n \in G
    BY <1>1, <1>4, <1>5, AlongInduction
<1>7. Said(N)
    BY <1>1, <1>6, N \in 0..N DEF G
<1> QED
    BY <1>2, <1>7 DEF Picks, N, K

(* What the loop makes of the entries of a card.                           *)
LEMMA CardResult ==
    ASSUME NEW s \in Seq(CardEntry), NEW c, c = FoldLeft(Entry, NoContact, s)
    PROVE  LET names  == Only(s, Worth(s, "fn"))
               phones == Only(s, Full(s, "tel"))
           IN  /\ c.fn = IF names = <<>> THEN Blank ELSE Last(names).value
               /\ c.phone = IF phones = <<>> THEN Blank ELSE Head(phones).value
               /\ c.emails = Values(Only(s, Full(s, "email")))
               /\ c \in Contacts
<1>1. NoContact \in Contacts
    BY NoContactShape
<1>2. PICK F \in [0..Len(s) -> Contacts] :
          F[0] = NoContact /\ F[Len(s)] = c /\ \A n \in 1..Len(s) : F[n] = Entry(F[n - 1], s[n])
    <2>1. \E F \in [0..Len(s) -> Contacts] :
              /\ F[0] = NoContact /\ F[Len(s)] = FoldLeft(Entry, NoContact, s)
              /\ \A n \in 1..Len(s) : F[n] = Entry(F[n - 1], s[n])
        BY <1>1, EntrySteps
    <2> QED
        BY <2>1
<1>3. c.fn = IF Only(s, Worth(s, "fn")) = <<>> THEN Blank ELSE Last(Only(s, Worth(s, "fn"))).value
    BY <1>2, FirstNames
<1>4. c.phone = IF Only(s, Full(s, "tel")) = <<>> THEN Blank ELSE Head(Only(s, Full(s, "tel"))).value
    BY <1>2, FirstPhone
<1>5. c.emails = Values(Only(s, Full(s, "email")))
    BY <1>2, AllMail
<1>6. c \in Contacts
    BY <1>2, LenProperties, Len(s) \in 0..Len(s)
<1> QED
    BY <1>3, <1>4, <1>5, <1>6

\* The entries of a card that are in K; none of a card that is damaged.
Kept(card, K) == IF card.whole THEN Only(card.entries, K) ELSE <<>>

\* What a contact c says of a card.
Says(c, card) ==
    LET names  == Kept(card, Worth(card.entries, "fn"))
        phones == Kept(card, Full(card.entries, "tel"))
    IN  /\ c.fn = IF names = <<>> THEN Blank ELSE Last(names).value
        /\ c.phone = IF phones = <<>> THEN Blank ELSE Head(phones).value
        /\ c.emails = Values(Kept(card, Full(card.entries, "email")))

(* parseVCard says of a card what the card says, and so does the contact of *)
(* the entity that has it.                                                 *)
LEMMA ParsedCard ==
    ASSUME NEW card \in Card
    PROVE  parseVCard(card) \in Contacts /\ Says(parseVCard(card), card)
<1> DEFINE p == parseVCard(card)
           s == card.entries
<1>1. CASE ~card.whole
    <2>1. p = NoContact /\ \A K : Kept(card, K) = <<>>
        BY <1>1 DEF parseVCard, Kept
    <2>2. Values(<<>>) = <<>>
        BY DEF Values
    <2> HIDE DEF p
    <2>3. p \in Contacts /\ Says(p, card)
        BY <2>1, <2>2, NoContactShape DEF Says
    <2> QED
        BY <2>3 DEF p
<1>2. CASE card.whole
    <2>1. p = FoldLeft(Entry, NoContact, s)
        BY <1>2 DEF parseVCard
    <2>5. \A K : Kept(card, K) = Only(s, K)
        BY <1>2 DEF Kept
    <2>2. s \in Seq(CardEntry)
        BY DEF Card
    <2> HIDE DEF p
    <2>3. /\ p.fn = IF Only(s, Worth(s, "fn")) = <<>> THEN Blank ELSE Last(Only(s, Worth(s, "fn"))).value
          /\ p.phone = IF Only(s, Full(s, "tel")) = <<>> THEN Blank ELSE Head(Only(s, Full(s, "tel"))).value
          /\ p.emails = Values(Only(s, Full(s, "email")))
          /\ p \in Contacts
        BY <2>1, <2>2, CardResult
    <2>4. Says(p, card)
        <3>1. /\ Kept(card, Worth(s, "fn")) = Only(s, Worth(s, "fn"))
              /\ Kept(card, Full(s, "tel")) = Only(s, Full(s, "tel"))
              /\ Kept(card, Full(s, "email")) = Only(s, Full(s, "email"))
            BY <2>5
        <3> QED
            BY <2>3, <3>1, Zenon DEF Says
    <2> QED
        BY <2>3, <2>4 DEF p
<1> QED
    BY <1>1, <1>2

(* The contact of an entity says what the entity's card says.              *)
LEMMA ContactOf ==
    ASSUME NEW e \in Object PROVE Says(Entity(e).contact, e.card)
<1> DEFINE p == parseVCard(e.card)
           c == Entity(e).contact
<1>1. p \in Contacts /\ Says(p, e.card)
    BY ParsedCard DEF Object
<1>2. c = [p EXCEPT !.kind = KindOf(@)]
    BY DEF Entity
<1> HIDE DEF p, c
<1>3. c.fn = p.fn /\ c.phone = p.phone /\ c.emails = p.emails
    BY <1>1, <1>2 DEF Contacts
<1>4. Says(c, e.card)
    BY <1>1, <1>3, Zenon DEF Says
<1> QED
    BY <1>4 DEF c

-----------------------------------------------------------------------------
\* What the documents read make of the domain.
Built ==
    IF registrar = <<>> THEN parseDomain(body[1], Asked)
    ELSE mergeRegistrarData(parseDomain(body[1], Asked), registrar[1])

\* The file is a list of services; InvalidArgument is for want of a hostname only.
InputInv == services \in Seq(Service) /\ (pc = "done" /\ status = "InvalidArgument" => ~named)

\* Where the handler is, and what it has by then.
PhaseInv ==
    /\ pc \in {"start", "get", "read"} => body = <<>>
    /\ pc \in {"link", "rget", "rread", "return"} => body # <<>>
    /\ pc \in {"link", "rget", "rread"} \/ body = <<>> => registrar = <<>>
    /\ pc # "done" => status = ""
    /\ pc = "done" =>
           /\ status \in {"OK", "Unavailable", "InvalidArgument"}
           /\ status = "OK" <=> body # <<>>

\* The server asked; nothing is asked, and no data come, without one.
RouteInv ==
    /\ pc \in {"get", "read"} => url = Asked
    /\ pc \in {"get", "read"} \/ body # <<>> => Asked # ""

\* The domain is what the documents read make of it.
DataInv ==
    /\ body = <<>> <=> domain = <<>>
    /\ body # <<>> =>
           /\ \E d \in RegistryDocs : body = <<d>>
           /\ domain = <<Built>>
    /\ registrar # <<>> => \E r \in RegistrarDocs : registrar = <<r>>

IInv == InputInv /\ PhaseInv /\ RouteInv /\ DataInv

(* The invariant holds at first, and every step keeps it.                  *)
LEMMA IInvInit == ASSUME Init PROVE IInv
<1>1. services \in Seq(Service)
    BY RdapAssumption DEF Init
<1> QED
    BY <1>1 DEF Init, IInv, InputInv, PhaseInv, RouteInv, DataInv

(* Every step keeps the invariant: one case for each action.               *)
LEMMA IInvNext == ASSUME IInv, [Next]_vars PROVE IInv'
<1> USE DEF Finish, Fail
<1>a. ASSUME UNCHANGED input PROVE Asked' = Asked /\ (services \in Seq(Service))'
    BY <1>a DEF input, Asked, IInv, InputInv
<1>b. ASSUME UNCHANGED <<services, tld, body, registrar>> PROVE Built' = Built
    BY <1>b DEF Built, Asked
<1>1. CASE Refuse
    <2>1. Asked' = Asked /\ (services \in Seq(Service))' /\ Built' = Built
        BY <1>a, <1>b, <1>1 DEF Refuse, input
    <2> HIDE DEF Asked, Built
    <2> QED
        BY <1>1, <2>1 DEF Refuse, input, IInv, InputInv, PhaseInv, RouteInv, DataInv
<1>2. CASE Route
    <2>1. Asked' = Asked /\ (services \in Seq(Service))' /\ Built' = Built
        BY <1>a, <1>b, <1>2 DEF Route, input
    <2>2. url' = Asked
        BY <1>2 DEF Route, Asked
    <2> QED
        BY <1>2, <2>1, <2>2 DEF Route, input, IInv, InputInv, PhaseInv, RouteInv, DataInv
<1>3. CASE Get
    <2>1. Asked' = Asked /\ (services \in Seq(Service))' /\ Built' = Built
        BY <1>a, <1>b, <1>3 DEF Get, input
    <2> QED
        BY <1>3, <2>1 DEF Get, input, IInv, InputInv, PhaseInv, RouteInv, DataInv
<1>4. CASE Read
    <2>1. Asked' = Asked /\ (services \in Seq(Service))'
        BY <1>a, <1>4 DEF Read
    <2>2. CASE Fail /\ UNCHANGED <<body, domain>>
        <3>1. Built' = Built
            BY <1>b, <1>4, <2>2 DEF Read, input
        <3> QED
            BY <1>4, <2>1, <2>2, <3>1 DEF Read, input, IInv, InputInv, PhaseInv, RouteInv, DataInv
    <2>3. ASSUME NEW d \in RegistryDocs, body' = <<d>>, domain' = <<parseDomain(d, url)>>,
                 pc' = "link", UNCHANGED status
          PROVE  IInv'
        <3>1. /\ registrar' = <<>> /\ url = Asked /\ Asked # "" /\ status = ""
            BY <1>4 DEF Read, IInv, PhaseInv, RouteInv
        <3>2. body'[1] = d /\ body' # <<>> /\ domain' # <<>>
            BY <2>3, OneElement
        <3>3. Built' = parseDomain(d, url)
            BY <2>1, <3>1, <3>2 DEF Built
        <3> QED
            BY <1>4, <2>1, <2>3, <3>1, <3>2, <3>3
               DEF Read, input, IInv, InputInv, PhaseInv, RouteInv, DataInv
    <2> QED
        BY <1>4, <2>2, <2>3 DEF Read
<1>5. CASE FollowLink
    <2>1. Asked' = Asked /\ (services \in Seq(Service))' /\ Built' = Built
        BY <1>a, <1>b, <1>5 DEF FollowLink, input
    <2> QED
        BY <1>5, <2>1 DEF FollowLink, input, IInv, InputInv, PhaseInv, RouteInv, DataInv
<1>6. CASE RegistrarGet
    <2>1. Asked' = Asked /\ (services \in Seq(Service))' /\ Built' = Built
        BY <1>a, <1>b, <1>6 DEF RegistrarGet, input
    <2> QED
        BY <1>6, <2>1 DEF RegistrarGet, RegistrarFails, input, IInv, InputInv, PhaseInv, RouteInv, DataInv
<1>7. CASE RegistrarRead
    <2>1. Asked' = Asked /\ (services \in Seq(Service))'
        BY <1>a, <1>7 DEF RegistrarRead
    <2>2. CASE RegistrarFails /\ UNCHANGED <<domain, registrar>>
        <3>1. Built' = Built
            BY <1>b, <1>7, <2>2 DEF RegistrarRead, input
        <3> QED
            BY <1>7, <2>1, <2>2, <3>1
               DEF RegistrarRead, RegistrarFails, input, IInv, InputInv, PhaseInv, RouteInv, DataInv
    <2>3. ASSUME NEW r \in RegistrarDocs, registrar' = <<r>>,
                 domain' = <<mergeRegistrarData(domain[1], r)>>,
                 pc' = "return", UNCHANGED status
          PROVE  IInv'
        <3>1. registrar = <<>> /\ domain = <<Built>> /\ body # <<>> /\ body' = body
            BY <1>7 DEF RegistrarRead, IInv, PhaseInv, DataInv
        <3>2. domain[1] = parseDomain(body[1], Asked)
            BY <3>1, OneElement DEF Built
        <3>3. registrar'[1] = r /\ registrar' # <<>> /\ domain' # <<>>
            BY <2>3, OneElement
        <3>4. Built' = mergeRegistrarData(domain[1], r)
            BY <2>1, <3>1, <3>2, <3>3 DEF Built
        <3> QED
            BY <1>7, <2>1, <2>3, <3>1, <3>3, <3>4
               DEF RegistrarRead, input, IInv, InputInv, PhaseInv, RouteInv, DataInv
    <2> QED
        BY <1>7, <2>2, <2>3 DEF RegistrarRead
<1>8. CASE Return
    <2>1. Asked' = Asked /\ (services \in Seq(Service))' /\ Built' = Built
        BY <1>a, <1>b, <1>8 DEF Return, input
    <2> QED
        BY <1>8, <2>1 DEF Return, input, IInv, InputInv, PhaseInv, RouteInv, DataInv
<1>9. CASE ContextEnds
    <2>1. Asked' = Asked /\ (services \in Seq(Service))' /\ Built' = Built
        BY <1>a, <1>b, <1>9 DEF ContextEnds, input
    <2> QED
        BY <1>9, <2>1 DEF ContextEnds, input, IInv, InputInv, PhaseInv, RouteInv, DataInv
<1>10. CASE UNCHANGED vars
    <2>1. Asked' = Asked /\ (services \in Seq(Service))' /\ Built' = Built
        BY <1>a, <1>b, <1>10 DEF vars, input
    <2> QED
        BY <1>10, <2>1 DEF vars, input, IInv, InputInv, PhaseInv, RouteInv, DataInv
<1> QED
    BY <1>1, <1>2, <1>3, <1>4, <1>5, <1>6, <1>7, <1>8, <1>9, <1>10 DEF Next, LookupDomain, Done

(* At every step the domain is what the documents read so far make of it, and *)
(* the server asked is the one the table has.                              *)
THEOREM Inductive == Spec => []IInv
<1>1. Init => IInv
    BY IInvInit
<1>2. IInv /\ [Next]_vars => IInv'
    BY IInvNext
<1> QED
    BY <1>1, <1>2, PTL DEF Spec

-----------------------------------------------------------------------------
(* The server asked is the one Routed describes.                           *)
LEMMA RoutedHolds == ASSUME IInv PROVE Routed
<1> DEFINE listing == {k \in DOMAIN services : /\ Usable(services[k])
                                               /\ Contains(services[k].labels, tld)}
           server == CASE listing # {} -> services[CHOOSE k \in listing :
                                              \A l \in listing : l <= k].urls[1]
                       [] listing = {} /\ tld = "de" -> "https://rdap.denic.de/"
                       [] OTHER -> ""
<1>1. Asked = server
    BY ResolveResult DEF IInv, InputInv
<1>2. domain # <<>> => domain[1].rdapServer = Asked
    <2> SUFFICES ASSUME domain # <<>> PROVE domain[1].rdapServer = Asked
        OBVIOUS
    <2>1. domain[1] = Built
        BY OneElement DEF IInv, DataInv
    <2>2. parseDomain(body[1], Asked).rdapServer = Asked
        BY DEF parseDomain
    <2>3. mergeRegistrarData(parseDomain(body[1], Asked), registrar[1]).rdapServer = Asked
        BY DEF parseDomain, mergeRegistrarData
    <2> QED
        BY <2>1, <2>2, <2>3 DEF Built
<1> HIDE DEF listing, server
<1>3. /\ pc \in {"get", "read"} => url = server
      /\ domain # <<>> => domain[1].rdapServer = server /\ server # ""
      /\ pc = "done" /\ named /\ server = "" => status = "Unavailable" /\ body = <<>>
    BY <1>1, <1>2 DEF IInv, InputInv, PhaseInv, RouteInv, DataInv
<1> QED
    BY <1>3 DEF Routed, Domain, listing, server

\* The registry's part of the domain.
Registry == parseDomain(body[1], Asked)

(* The registry's entities, one for one, and its statuses.                 *)
LEMMA RegistryShape ==
    ASSUME IInv, body # <<>>
    PROVE  /\ Registry.entities \in Seq(EntityValues)
           /\ DOMAIN Registry.entities = DOMAIN body[1].entities
           /\ \A k \in DOMAIN Registry.entities : Registry.entities[k] = Entity(body[1].entities[k])
           /\ Registry.status \in Seq(StatusValues) /\ Distinct(Registry.status)
           /\ body[1].entities \in Seq(Object)
<1>1. PICK d \in RegistryDocs : body = <<d>>
    BY DEF IInv, DataInv
<1>2. body[1] = d
    BY <1>1, OneElement
<1>3. d.status \in Seq(STRING) /\ d.entities \in Seq(Object)
    BY RdapAssumption
<1> DEFINE es == Image(d.entities, Entity)
<1>4. Len(d.entities) \in Nat /\ DOMAIN d.entities = 1..Len(d.entities)
      /\ \A k \in 1..Len(d.entities) : d.entities[k] \in Object
    BY <1>3, LenProperties
<1>5. es = [k \in DOMAIN d.entities |-> Entity(d.entities[k])]
    BY DEF Image
<1>6. es \in [1..Len(d.entities) -> EntityValues]
    BY <1>4, <1>5 DEF EntityValues
<1>7. es \in Seq(EntityValues) /\ DOMAIN es = DOMAIN d.entities
    BY <1>4, <1>6, FunctionIsSeq
<1>8. Registry.entities = es /\ Registry.status = FoldLeft(AddStatus, <<>>, d.status)
    BY <1>2 DEF Registry, parseDomain
<1>9. Registry.status \in Seq(StatusValues) /\ Distinct(Registry.status)
    BY <1>3, <1>8, StatusResult
<1> HIDE DEF es
<1> QED
    BY <1>2, <1>3, <1>5, <1>7, <1>8, <1>9

(* What the registrar's document leaves as it was, and what it adds.       *)
LEMMA MergeShape ==
    ASSUME IInv, body # <<>>, registrar # <<>>, NEW D, D = mergeRegistrarData(Registry, registrar[1])
    PROVE  /\ IsPrefix(Registry.entities, D.entities) /\ IsPrefix(Registry.status, D.status)
           /\ D.status \in Seq(StatusValues) /\ Distinct(D.status)
           /\ D.entities \in Seq(EntityValues)
           /\ D = [Registry EXCEPT !.entities = D.entities, !.status = D.status]
           /\ \A k \in DOMAIN D.entities : k > Len(Registry.entities) =>
                  Fresh(D.entities, k)
                  /\ \E i \in DOMAIN registrar[1].entities :
                         D.entities[k] = Entity(registrar[1].entities[i])
           /\ \A i \in DOMAIN registrar[1].entities :
                  ToSet(Entity(registrar[1].entities[i]).roles)
                      \subseteq RolesIn(D.entities) \cup {Unknown}
           /\ \A i \in DOMAIN registrar[1].status :
                  StatusOf(registrar[1].status[i]) # Unknown
                      => Contains(D.status, StatusOf(registrar[1].status[i]))
           /\ registrar[1].entities \in Seq(Object) /\ registrar[1].status \in Seq(STRING)
<1>1. PICK r \in RegistrarDocs : registrar = <<r>>
    BY DEF IInv, DataInv
<1>2. registrar[1] = r
    BY <1>1, OneElement
<1>3. r.status \in Seq(STRING) /\ r.entities \in Seq(Object)
    BY RdapAssumption
<1> DEFINE es == FoldLeft(AddEntity, Registry.entities, r.entities)
           ss == FoldLeft(AddKnownStatus, Registry.status, r.status)
<1>4. D = [Registry EXCEPT !.entities = es, !.status = ss]
    BY <1>2 DEF mergeRegistrarData
<1>5. /\ es \in Seq(EntityValues) /\ IsPrefix(Registry.entities, es)
      /\ \A k \in DOMAIN es : k > Len(Registry.entities) =>
             Fresh(es, k) /\ \E i \in DOMAIN r.entities : es[k] = Entity(r.entities[i])
      /\ \A i \in DOMAIN r.entities : ToSet(Entity(r.entities[i]).roles) \subseteq RolesIn(es) \cup {Unknown}
    BY <1>3, RegistryShape, EntityResult
<1>6. /\ ss \in Seq(StatusValues) /\ Distinct(ss) /\ IsPrefix(Registry.status, ss)
      /\ \A i \in DOMAIN r.status : StatusOf(r.status[i]) # Unknown => Contains(ss, StatusOf(r.status[i]))
    BY <1>3, RegistryShape, KnownStatusResult
<1> HIDE DEF es, ss
<1>7. D.entities = es /\ D.status = ss
    BY <1>4 DEF Registry, parseDomain
<1> QED
    BY <1>2, <1>3, <1>4, <1>5, <1>6, <1>7

(* So the domain extends what the registry sent.                           *)
LEMMA DomainShape ==
    ASSUME IInv, domain # <<>>
    PROVE  /\ body # <<>> /\ Domain = Built /\ Base = Registry
           /\ ExtendsBase(Base, Domain)
<1>1. body # <<>> /\ Domain = Built
    BY OneElement DEF IInv, DataInv, Domain
<1>2. Domain.rdapServer = Asked
    <2>1. parseDomain(body[1], Asked).rdapServer = Asked
        BY DEF parseDomain
    <2>2. mergeRegistrarData(parseDomain(body[1], Asked), registrar[1]).rdapServer = Asked
        BY DEF parseDomain, mergeRegistrarData
    <2> QED
        BY <1>1, <2>1, <2>2 DEF Built
<1>3. Base = Registry
    BY <1>2 DEF Base, Registry
<1>4. CASE registrar = <<>>
    <2>1. Domain = Registry
        BY <1>1, <1>4 DEF Built, Registry
    <2> QED
        BY <1>1, <1>3, <2>1, RegistryShape, PrefixOfItself DEF ExtendsBase
<1>5. CASE registrar # <<>>
    <2>1. Domain = mergeRegistrarData(Registry, registrar[1])
        BY <1>1, <1>5 DEF Built, Registry
    <2>2. IsPrefix(Registry.entities, Domain.entities) /\ IsPrefix(Registry.status, Domain.status)
        BY <1>1, <1>5, <2>1, MergeShape
    <2> QED
        BY <1>1, <1>3, <2>2 DEF ExtendsBase
<1> QED
    BY <1>4, <1>5

(* The merge only adds.                                                    *)
LEMMA MergeHolds == ASSUME IInv PROVE MergeAdds
<1> SUFFICES ASSUME domain # <<>>
             PROVE  /\ IsPrefix(Base.entities, Domain.entities) /\ IsPrefix(Base.status, Domain.status)
                    /\ [Domain EXCEPT !.entities = Base.entities, !.status = Base.status] = Base
                    /\ Cardinality(ToSet(Domain.status)) = Len(Domain.status)
                    /\ \A k \in Added :
                           ~(ToSet(Domain.entities[k].roles)
                                \subseteq RolesIn(SubSeq(Domain.entities, 1, k - 1)) \cup {Unknown})
                    /\ registrar # <<>> =>
                           LET sent == Image(registrar[1].entities, Entity)
                               known == RolesIn(sent) \ {Unknown}
                           IN  /\ known \subseteq RolesIn(Domain.entities)
                               /\ \A k \in Added : Contains(sent, Domain.entities[k])
                               /\ \A s \in ToSet(registrar[1].status) :
                                      StatusOf(s) # Unknown => Contains(Domain.status, StatusOf(s))
    BY Zenon DEF MergeAdds
<1>1. body # <<>> /\ Domain = Built /\ Base = Registry /\ ExtendsBase(Base, Domain)
    BY DomainShape
<1>2. IsPrefix(Base.entities, Domain.entities) /\ IsPrefix(Base.status, Domain.status)
    BY <1>1 DEF ExtendsBase
<1>3. CASE registrar = <<>>
    <2>1. Domain = Registry
        BY <1>1, <1>3 DEF Built, Registry
    <2>2. [Registry EXCEPT !.entities = Registry.entities, !.status = Registry.status] = Registry
        BY DEF Registry, parseDomain
    <2>3. Added = {}
        BY <1>1, <2>1, RegistryShape, LenProperties DEF Added
    <2>4. Cardinality(ToSet(Domain.status)) = Len(Domain.status)
        BY <1>1, <2>1, RegistryShape, DistinctCount
    <2> QED
        BY <1>1, <1>2, <1>3, <2>1, <2>2, <2>3, <2>4
<1>4. CASE registrar # <<>>
    <2> DEFINE r == registrar[1]
               sent == Image(r.entities, Entity)
    <2>1. Domain = mergeRegistrarData(Registry, r)
        BY <1>1, <1>4 DEF Built, Registry
    <2> HIDE DEF r
    <2>2. /\ Domain.status \in Seq(StatusValues) /\ Distinct(Domain.status)
          /\ Domain.entities \in Seq(EntityValues)
          /\ Domain = [Registry EXCEPT !.entities = Domain.entities, !.status = Domain.status]
          /\ \A k \in DOMAIN Domain.entities : k > Len(Registry.entities) =>
                 /\ Fresh(Domain.entities, k)
                 /\ \E i \in DOMAIN r.entities : Domain.entities[k] = Entity(r.entities[i])
          /\ \A i \in DOMAIN r.entities :
                 ToSet(Entity(r.entities[i]).roles) \subseteq RolesIn(Domain.entities) \cup {Unknown}
          /\ \A i \in DOMAIN r.status :
                 StatusOf(r.status[i]) # Unknown => Contains(Domain.status, StatusOf(r.status[i]))
          /\ r.entities \in Seq(Object) /\ r.status \in Seq(STRING)
        BY <1>1, <1>4, <2>1, MergeShape, ZenonT(60) DEF r
    <2>3. [Domain EXCEPT !.entities = Registry.entities, !.status = Registry.status] = Registry
        <3>1. \A x, y : [[Registry EXCEPT !.entities = x, !.status = y]
                            EXCEPT !.entities = Registry.entities, !.status = Registry.status] = Registry
            BY DEF Registry, parseDomain
        <3> QED
            BY <2>2, <3>1, Zenon
    <2>4. \A k \in Added : k \in DOMAIN Domain.entities /\ k > Len(Registry.entities)
        BY <1>1 DEF Added
    <2>5. Len(r.entities) \in Nat /\ DOMAIN r.entities = 1..Len(r.entities)
        BY <2>2, LenProperties
    <2>6. /\ DOMAIN sent = 1..Len(r.entities)
          /\ \A i \in 1..Len(r.entities) : sent[i] = Entity(r.entities[i]) /\ r.entities[i] \in Object
        BY <2>2, <2>5, LenProperties DEF Image
    <2>7. sent \in Seq(EntityValues) /\ Len(sent) = Len(r.entities)
        <3>1. sent \in [1..Len(r.entities) -> EntityValues]
            BY <2>5, <2>6 DEF Image, EntityValues
        <3> QED
            BY <2>5, <3>1, FunctionIsSeq
    <2> HIDE DEF sent
    <2>8. RolesIn(sent) \ {Unknown} \subseteq RolesIn(Domain.entities)
        <3> SUFFICES ASSUME NEW i \in DOMAIN sent, NEW x \in ToSet(sent[i].roles), x # Unknown
                     PROVE  x \in RolesIn(Domain.entities)
            BY DEF RolesIn
        <3>1. ToSet(sent[i].roles) \subseteq RolesIn(Domain.entities) \cup {Unknown}
            BY <2>2, <2>5, <2>6
        <3> QED
            BY <3>1
    <2>9. \A k \in Added : Contains(sent, Domain.entities[k])
        BY <2>2, <2>4, <2>5, <2>6, <2>7 DEF Contains
    <2>10. \A s \in ToSet(r.status) : StatusOf(s) # Unknown => Contains(Domain.status, StatusOf(s))
        BY <2>2 DEF ToSet
    <2>11. \A k \in Added : ~(ToSet(Domain.entities[k].roles)
                                \subseteq RolesIn(SubSeq(Domain.entities, 1, k - 1)) \cup {Unknown})
        BY <2>2, <2>4 DEF Fresh
    <2>12. Cardinality(ToSet(Domain.status)) = Len(Domain.status)
        BY <2>2, DistinctCount
    <2> QED
        BY <1>1, <1>2, <2>3, <2>8, <2>9, <2>10, <2>11, <2>12 DEF sent, r
<1> QED
    BY <1>3, <1>4

(* The registry's contacts stand in the domain as their cards have them.   *)
LEMMA ContactsHold == ASSUME IInv PROVE ContactsFaithful
<1>1. ASSUME body # <<>>, NEW k \in DOMAIN body[1].entities
      PROVE  Says(Domain.entities[k].contact, body[1].entities[k].card)
    <2>1. domain # <<>> /\ ExtendsBase(Base, Domain) /\ Base = Registry
        BY <1>1, DomainShape DEF IInv, DataInv
    <2>2. /\ k \in DOMAIN Registry.entities /\ Registry.entities[k] = Entity(body[1].entities[k])
          /\ body[1].entities \in Seq(Object)
        BY <1>1, RegistryShape
    <2>3. body[1].entities[k] \in Object
        BY <2>2, <1>1, LenProperties
    <2>4. /\ Domain.entities \in Seq(EntityValues) /\ Registry.entities \in Seq(EntityValues)
        <3>1. CASE registrar = <<>>
            BY <1>1, <2>1, <3>1, DomainShape, RegistryShape DEF Built, Registry
        <3>2. CASE registrar # <<>>
            BY <1>1, <2>1, <3>2, DomainShape, RegistryShape, MergeShape DEF Built, Registry
        <3> QED
            BY <3>1, <3>2
    <2>5. IsPrefix(Registry.entities, Domain.entities) /\ k \in 1..Len(Registry.entities)
        BY <2>1, <2>2, <2>4, LenProperties DEF ExtendsBase
    <2>6. Registry.entities[k] = Domain.entities[k]
        BY <2>4, <2>5, PrefixElements
    <2> QED
        BY <2>2, <2>3, <2>6, ContactOf
<1> QED
    BY <1>1, Zenon DEF ContactsFaithful, Says, Kept, Worth, Full, Blank, Values, Image

(* Every call asks the server the bootstrap file lists last for its TLD,   *)
(* a built-in fallback only for a TLD that is not listed, and fails when   *)
(* there is neither (NewBootstrap, Resolve).                               *)
THEOREM RightServer == Spec => []Routed
<1>1. IInv => Routed
    BY RoutedHolds
<1> QED
    BY <1>1, Inductive, PTL

(* Whatever the registrar sends, the registry's data stay as they were,    *)
(* and only entities with a new role and statuses that are new are added   *)
(* (mergeRegistrarData).                                                   *)
THEOREM OnlyAdds == Spec => []MergeAdds
<1>1. IInv => MergeAdds
    BY MergeHolds
<1> QED
    BY <1>1, Inductive, PTL

(* Every contact of the registry says what its card says, however damaged  *)
(* the other entries are (parseVCard).                                     *)
THEOREM FaithfulContacts == Spec => []ContactsFaithful
<1>1. IInv => ContactsFaithful
    BY ContactsHold
<1> QED
    BY <1>1, Inductive, PTL

-----------------------------------------------------------------------------
(* LookupDomain begins as EnrichedLookup does, and every step is one of its *)
(* steps or changes nothing it speaks of: reading the registry is Obtain, the *)
(* merge a stutter.                                                        *)
LEMMA PromiseInit == ASSUME Init PROVE Promise!Init
BY DEF Init, Promise!Init

(* Every step of the lookup is a step of the promise, or a stutter.        *)
LEMMA PromiseStep == ASSUME IInv, [Next]_vars PROVE Promise!Next \/ UNCHANGED Promise!vars
<1> USE DEF Finish, Fail
<1> DEFINE b == IF body = <<>> THEN <<>> ELSE <<Base>>
           a == CASE status = ""   -> <<>>
                  [] status = "OK" -> <<"ok", Domain>>
                  [] OTHER         -> <<"error">>
<1>1. b' = b /\ a' = a => UNCHANGED Promise!vars
    BY Zenon DEF Promise!vars
<1>2. (b = <<>> /\ a = <<>> /\ a' = <<"error">> /\ b' = b) => Promise!Next
    BY Zenon DEF Promise!Next, Promise!Fail
<1>3. (b = <<>> /\ a = <<>> /\ Len(b') = 1 /\ a' = a) => Promise!Next
    BY Zenon DEF Promise!Next, Promise!Obtain
<1>4. (/\ b # <<>> /\ a = <<>>
       /\ Len(a') = 2 /\ a'[1] = "ok" /\ ExtendsBase(b[1], a'[2]) /\ b' = b) => Promise!Next
    BY Zenon DEF Promise!Next, Promise!Return
<1>5. /\ body = <<>> => b = <<>>
      /\ body # <<>> => b = <<Base>>
      /\ body' = <<>> => b' = <<>>
      /\ body' # <<>> => b' = <<Base'>>
    OBVIOUS
<1>6. /\ status = "" => a = <<>>
      /\ status' = "" => a' = <<>>
      /\ status' = "OK" => a' = <<"ok", Domain'>>
      /\ status' \in {"Unavailable", "InvalidArgument"} => a' = <<"error">>
    OBVIOUS
<1>7. UNCHANGED <<body, domain>> => b' = b /\ Base' = Base /\ Domain' = Domain
    BY DEF Base, Domain
<1>8. UNCHANGED <<body, domain, status>> => a' = a /\ b' = b
    BY DEF Base, Domain
<1> HIDE DEF a, b
<1>9. CASE Refuse
    BY <1>2, <1>5, <1>6, <1>7, <1>9 DEF Refuse, IInv, PhaseInv
<1>10. CASE Route
    BY <1>1, <1>2, <1>5, <1>6, <1>7, <1>8, <1>10 DEF Route, IInv, PhaseInv
<1>11. CASE Get
    BY <1>1, <1>2, <1>5, <1>6, <1>7, <1>8, <1>11 DEF Get, IInv, PhaseInv
<1>12. CASE Read
    <2>1. body = <<>> /\ status = "" /\ b = <<>> /\ a = <<>>
        BY <1>5, <1>6, <1>12 DEF Read, IInv, PhaseInv
    <2>2. CASE Fail /\ UNCHANGED <<body, domain>>
        BY <1>2, <1>6, <1>7, <2>1, <2>2
    <2>3. ASSUME NEW d \in RegistryDocs, body' = <<d>>, UNCHANGED status PROVE Promise!Next
        <3>1. body' # <<>>
            BY <2>3, OneElement
        <3>2. Len(b') = 1
            BY <1>5, <3>1, OneElement
        <3> QED
            BY <1>3, <1>6, <2>1, <2>3, <3>2
    <2> QED
        BY <1>12, <2>2, <2>3 DEF Read
<1>13. CASE FollowLink
    BY <1>1, <1>8, <1>13 DEF FollowLink
<1>14. CASE RegistrarGet
    BY <1>1, <1>8, <1>14 DEF RegistrarGet, RegistrarFails
<1>15. CASE RegistrarRead
    <2>1. CASE RegistrarFails /\ UNCHANGED <<domain, registrar>>
        BY <1>1, <1>8, <1>15, <2>1 DEF RegistrarRead, RegistrarFails
    <2>2. ASSUME NEW r \in RegistrarDocs, domain' = <<mergeRegistrarData(domain[1], r)>>,
                 UNCHANGED status
          PROVE  UNCHANGED Promise!vars
        <3>1. body # <<>> /\ body' = body /\ registrar = <<>> /\ status = "" /\ domain = <<Built>>
            BY <1>15 DEF RegistrarRead, IInv, PhaseInv, DataInv
        <3>2. domain[1] = parseDomain(body[1], Asked)
            BY <3>1, OneElement DEF Built
        <3>3. mergeRegistrarData(domain[1], r).rdapServer = domain[1].rdapServer
            BY <3>2 DEF mergeRegistrarData, parseDomain
        <3>4. Domain'.rdapServer = Domain.rdapServer
            BY <2>2, <3>3, OneElement DEF Domain
        <3>5. Base' = Base
            BY <3>1, <3>4 DEF Base
        <3> QED
            BY <1>1, <1>5, <1>6, <2>2, <3>1, <3>5
    <2> QED
        BY <1>15, <2>1, <2>2 DEF RegistrarRead
<1>16. CASE Return
    <2>1. body # <<>> /\ domain # <<>> /\ status = "" /\ UNCHANGED <<body, domain>> /\ status' = "OK"
        BY <1>16 DEF Return, IInv, PhaseInv, DataInv
    <2>2. b = <<Base>> /\ b' = b /\ a = <<>> /\ a' = <<"ok", Domain>>
        BY <1>5, <1>6, <1>7, <2>1
    <2>3. ExtendsBase(Base, Domain)
        BY <2>1, DomainShape
    <2>4. b # <<>> /\ b[1] = Base
        BY <2>2, OneElement
    <2>5. Len(a') = 2 /\ a'[1] = "ok" /\ a'[2] = Domain
        BY <2>2
    <2>6. ExtendsBase(b[1], a'[2])
        BY <2>3, <2>4, <2>5, Zenon
    <2> QED
        BY <1>4, <2>2, <2>4, <2>5, <2>6
<1>17. CASE ContextEnds
    BY <1>1, <1>8, <1>17 DEF ContextEnds
<1>18. CASE UNCHANGED vars
    BY <1>1, <1>8, <1>18 DEF vars
<1> QED
    BY <1>9, <1>10, <1>11, <1>12, <1>13, <1>14, <1>15, <1>16, <1>17, <1>18
       DEF Next, LookupDomain, Done

(* LookupDomain keeps EnrichedLookup's promise: once the registry's data are *)
(* there the call does not fail, and answers with no less.                 *)
THEOREM KeepsTheRegistrysData == Spec => ImplementsEnrichedLookup
<1>1. Init => Promise!Init
    BY PromiseInit
<1>2. IInv /\ [Next]_vars => [Promise!Next]_(Promise!vars)
    BY PromiseStep
<1>3. Spec => []IInv
    BY Inductive
<1> QED
    BY <1>1, <1>2, <1>3, PTL DEF Spec, ImplementsEnrichedLookup, Promise!Spec
=============================================================================
