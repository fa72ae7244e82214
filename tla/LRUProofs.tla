------------------------------- MODULE LRUProofs -------------------------------
(***************************************************************************)
(* What one call of LRU.Seen does to the list and the map, for any ids,    *)
(* capacity and retention: the lemmas that the theorems about its callers  *)
(* (LRUCallsProofs) and about the verifier (WebhookProofs) rest on.        *)
(***************************************************************************)
EXTENDS LRU, SequenceTheorems, FunctionTheorems, FiniteSetTheorems, TLAPS

\* List and map agree, and every expiry is a time.
CacheOK == /\ list \in Seq(Event) /\ keys \subseteq Event /\ ListMatchesMap
           /\ expiresAt \in [Event -> Nat]

\* a stands nearer to the front of the list than b.
Before(a, b) == \E i, j \in 1 .. Len(list) : i < j /\ list[i] = a /\ list[j] = b

-----------------------------------------------------------------------------
\* Removing one place of a sequence shifts the places behind it forward.
LEMMA RemoveAtPlaces ==
  ASSUME NEW S, NEW s \in Seq(S), NEW i \in 1 .. Len(s)
  PROVE  /\ RemoveAt(s, i) \in Seq(S) /\ Len(RemoveAt(s, i)) = Len(s) - 1
         /\ \A j \in 1 .. Len(s) - 1 :
              RemoveAt(s, i)[j] = IF j < i THEN s[j] ELSE s[j + 1]
<1> DEFINE front == SubSeq(s, 1, i - 1)
           back == SubSeq(s, i + 1, Len(s))
<1>1. /\ front \in Seq(S) /\ Len(front) = i - 1
      /\ \A j \in 1 .. i - 1 : front[j] = s[j]
  BY SubSeqProperties, ElementOfSeq
<1>2. /\ back \in Seq(S) /\ Len(back) = Len(s) - i
      /\ \A j \in 1 .. Len(s) - i : back[j] = s[i + j]
  BY SubSeqProperties, ElementOfSeq
<1> HIDE DEF front, back
<1>3. /\ front \o back \in Seq(S) /\ Len(front \o back) = Len(s) - 1
      /\ \A j \in 1 .. Len(s) - 1 :
           (front \o back)[j] = IF j <= i - 1 THEN front[j] ELSE back[j - (i - 1)]
  <2>1. /\ front \o back \in Seq(S) /\ Len(front \o back) = Len(front) + Len(back)
        /\ \A j \in 1 .. Len(front) + Len(back) :
             (front \o back)[j] = IF j <= Len(front) THEN front[j]
                                 ELSE back[j - Len(front)]
    BY <1>1, <1>2, ConcatProperties, Zenon
  <2>2. Len(s) \in Nat /\ Len(front) + Len(back) = Len(s) - 1
    BY <1>1, <1>2, LenProperties
  <2>3. \A j \in 1 .. Len(s) - 1 :
          (front \o back)[j] = IF j <= i - 1 THEN front[j] ELSE back[j - (i - 1)]
    BY <1>1, <2>1, <2>2, Zenon
  <2> QED BY <2>1, <2>2, <2>3, Zenon
<1>4. RemoveAt(s, i) = front \o back
  BY DEF RemoveAt, front, back
<1>5. Len(s) \in Nat
  BY LenProperties
<1>6. ASSUME NEW j \in 1 .. Len(s) - 1
      PROVE  RemoveAt(s, i)[j] = IF j < i THEN s[j] ELSE s[j + 1]
  <2>1. CASE j < i
    BY <1>1, <1>3, <1>4, <1>5, <2>1
  <2>2. CASE ~(j < i)
    <3>1. j - (i - 1) \in 1 .. Len(s) - i /\ ~(j <= i - 1)
      BY <1>5, <2>2
    <3>2. back[j - (i - 1)] = s[i + (j - (i - 1))] /\ i + (j - (i - 1)) = j + 1
      BY <1>2, <1>5, <3>1
    <3> QED BY <1>3, <1>4, <2>2, <3>1, <3>2
  <2> QED BY <2>1, <2>2
<1> QED BY <1>3, <1>4, <1>6

\* What list and map say of each other, place by place.
LEMMA Places ==
  ASSUME CacheOK
  PROVE  /\ Len(list) \in Nat /\ DOMAIN list = 1 .. Len(list)
         /\ \A i \in 1 .. Len(list) : list[i] \in keys /\ list[i] \in Event
         /\ \A x \in keys : \E i \in 1 .. Len(list) : list[i] = x
         /\ \A i, j \in 1 .. Len(list) : list[i] = list[j] => i = j
<1>1. Len(list) \in Nat /\ DOMAIN list = 1 .. Len(list)
  BY LenProperties DEF CacheOK
<1> QED BY <1>1 DEF CacheOK, ListMatchesMap, ToSet, IsInjective

\* The list without e: its other elements, each once, in the same order.
LEMMA UnlinkRest ==
  ASSUME CacheOK, NEW e \in Event
  PROVE  /\ Unlink(e) \in Seq(Event)
         /\ ToSet(Unlink(e)) = keys \ {e}
         /\ IsInjective(Unlink(e))
         /\ Len(Unlink(e)) = IF e \in keys THEN Len(list) - 1 ELSE Len(list)
         /\ \A i, j \in 1 .. Len(Unlink(e)) :
              i < j => Before(Unlink(e)[i], Unlink(e)[j])
<1>1. CASE e \notin keys
  <2>1. Unlink(e) = list
    BY <1>1 DEF Unlink
  <2>2. \A i, j \in 1 .. Len(list) : i < j => Before(list[i], list[j])
    BY DEF Before
  <2> QED BY <1>1, <2>1, <2>2 DEF CacheOK, ListMatchesMap
<1>2. CASE e \in keys
  <2> DEFINE i == CHOOSE n \in DOMAIN list : list[n] = e
  <2>1. i \in 1 .. Len(list) /\ list[i] = e
    BY <1>2, Places
  <2> HIDE DEF i
  <2> DEFINE rest == RemoveAt(list, i)
  <2>2. Unlink(e) = rest
    BY <1>2 DEF Unlink, i
  <2>3. /\ rest \in Seq(Event) /\ Len(rest) = Len(list) - 1
        /\ \A j \in 1 .. Len(list) - 1 : rest[j] = IF j < i THEN list[j] ELSE list[j + 1]
    BY <2>1, RemoveAtPlaces DEF CacheOK
  <2> HIDE DEF rest
  \* Place j of the rest is place At(j) of the list.
  <2> DEFINE At(j) == IF j < i THEN j ELSE j + 1
  <2>4. ASSUME NEW j \in 1 .. Len(rest)
        PROVE  At(j) \in 1 .. Len(list) /\ At(j) # i /\ rest[j] = list[At(j)]
    BY <2>1, <2>3, Places
  <2>5. \A j, n \in 1 .. Len(rest) : j < n => At(j) < At(n)
    BY <2>1, <2>3, Places
  <2>6. \A n \in 1 .. Len(list) : n # i => \E j \in 1 .. Len(rest) : At(j) = n
    <3> SUFFICES ASSUME NEW n \in 1 .. Len(list), n # i
                 PROVE  \E j \in 1 .. Len(rest) : At(j) = n
      OBVIOUS
    <3>1. CASE n < i
      BY <3>1, <2>1, <2>3, Places
    <3>2. CASE n > i
      <4>1. n - 1 \in 1 .. Len(rest) /\ At(n - 1) = n
        BY <3>2, <2>1, <2>3, Places
      <4> QED BY <4>1
    <3> QED BY <3>1, <3>2, <2>1
  <2>7. DOMAIN rest = 1 .. Len(rest) /\ Len(rest) \in Nat
    BY <2>3, LenProperties
  <2> HIDE DEF At
  <2>8. IsInjective(rest)
    <3> SUFFICES ASSUME NEW j \in 1 .. Len(rest), NEW n \in 1 .. Len(rest), rest[j] = rest[n]
                 PROVE  j = n
      BY <2>7 DEF IsInjective
    <3>1. At(j) = At(n)
      BY <2>4, Places
    <3> QED BY <3>1, <2>4, <2>5, Places
  <2>9. ToSet(rest) = keys \ {e}
    <3>1. \A j \in 1 .. Len(rest) : rest[j] \in keys \ {e}
      BY <2>1, <2>4, Places
    <3>2. \A x \in keys \ {e} : \E j \in 1 .. Len(rest) : rest[j] = x
      BY <2>1, <2>4, <2>6, Places
    <3> QED BY <3>1, <3>2, <2>7 DEF ToSet
  <2>10. ASSUME NEW j \in 1 .. Len(rest), NEW n \in 1 .. Len(rest), j < n
         PROVE  Before(rest[j], rest[n])
    BY <2>4, <2>5, <2>10 DEF Before
  <2> QED BY <1>2, <2>2, <2>3, <2>8, <2>9, <2>10
<1> QED BY <1>1, <1>2

\* PushFront: e is the first place, the others move one place back.
LEMMA PushFront ==
  ASSUME NEW e \in Event, NEW rest \in Seq(Event),
         IsInjective(rest), e \notin ToSet(rest)
  PROVE  LET l == <<e>> \o rest IN
         /\ l \in Seq(Event) /\ Len(l) = Len(rest) + 1
         /\ l[1] = e /\ \A i \in 1 .. Len(rest) : l[i + 1] = rest[i]
         /\ ToSet(l) = {e} \cup ToSet(rest)
         /\ IsInjective(l)
<1> DEFINE l == <<e>> \o rest
<1>1. <<e>> \in Seq(Event) /\ Len(<<e>>) = 1 /\ <<e>>[1] = e
  OBVIOUS
<1>2. /\ l \in Seq(Event) /\ Len(l) = 1 + Len(rest)
      /\ \A i \in 1 .. 1 + Len(rest) : l[i] = IF i <= 1 THEN <<e>>[i] ELSE rest[i - 1]
  BY <1>1, ConcatProperties
<1> HIDE DEF l
<1>3. /\ Len(rest) \in Nat /\ DOMAIN rest = 1 .. Len(rest) /\ DOMAIN l = 1 .. Len(l)
  BY <1>2, LenProperties
<1>4. l[1] = e /\ \A i \in 1 .. Len(rest) : l[i + 1] = rest[i]
  BY <1>1, <1>2, <1>3
<1>5. \A i \in 1 .. Len(l) : i = 1 \/ (i - 1 \in 1 .. Len(rest) /\ l[i] = rest[i - 1])
  BY <1>2, <1>3
<1>6. ToSet(l) = {e} \cup ToSet(rest)
  <2>1. \A x \in ToSet(l) : x \in {e} \cup ToSet(rest)
    BY <1>3, <1>4, <1>5 DEF ToSet
  <2>2. \A x \in ToSet(rest) : x \in ToSet(l)
    <3> SUFFICES ASSUME NEW i \in 1 .. Len(rest) PROVE rest[i] \in ToSet(l)
      BY <1>3 DEF ToSet
    <3>1. i + 1 \in 1 .. Len(l) /\ l[i + 1] = rest[i]
      BY <1>2, <1>3, <1>4
    <3> QED BY <1>3, <3>1 DEF ToSet
  <2>3. e \in ToSet(l)
    BY <1>2, <1>3, <1>4 DEF ToSet
  <2> QED BY <2>1, <2>2, <2>3
<1>7. IsInjective(l)
  <2> SUFFICES ASSUME NEW i \in 1 .. Len(l), NEW j \in 1 .. Len(l), l[i] = l[j] PROVE i = j
    BY <1>3 DEF IsInjective
  <2>1. CASE i = 1 \/ j = 1
    BY <2>1, <1>3, <1>4, <1>5 DEF ToSet
  <2>2. CASE i # 1 /\ j # 1
    <3>1. i - 1 = j - 1
      BY <2>2, <1>3, <1>5 DEF IsInjective
    <3> QED BY <3>1
  <2> QED BY <2>1, <2>2
<1> QED BY <1>2, <1>3, <1>4, <1>6, <1>7 DEF l

\* A list without repetitions has as many places as elements.
LEMMA ListSize ==
  ASSUME NEW l \in Seq(Event), IsInjective(l)
  PROVE  IsFiniteSet(ToSet(l)) /\ Cardinality(ToSet(l)) = Len(l)
<1>1. Len(l) \in Nat /\ DOMAIN l = 1 .. Len(l)
  BY LenProperties
<1>2. l \in [1 .. Len(l) -> ToSet(l)]
  BY <1>1 DEF ToSet
<1>3. l \in Bijection(1 .. Len(l), ToSet(l))
  <2>1. \A i, j \in 1 .. Len(l) : l[i] = l[j] => i = j
    BY <1>1 DEF IsInjective
  <2>2. \A x \in ToSet(l) : \E i \in 1 .. Len(l) : l[i] = x
    BY <1>1 DEF ToSet
  <2> QED BY <1>2, <2>1, <2>2, Fun_IsBij
<1>4. IsFiniteSet(1 .. Len(l)) /\ Cardinality(1 .. Len(l)) = Len(l)
  BY <1>1, FS_Interval
<1> QED BY <1>3, <1>4, FS_Bijection DEF ExistsBijection

-----------------------------------------------------------------------------
\* Seen answers true: list and map still agree, on the same ids, and e has
\* moved in front of the others.
LEMMA HitEffect ==
  ASSUME CacheOK, NEW e \in Event, NEW now, Hit(e, now)
  PROVE  /\ CacheOK' /\ keys' = keys
         /\ \A a, b : Before(a, b)' => b # e /\ (a = e \/ Before(a, b))
<1> DEFINE rest == Unlink(e)
<1>1. /\ rest \in Seq(Event) /\ ToSet(rest) = keys \ {e} /\ IsInjective(rest)
      /\ Len(rest) = Len(list) - 1
      /\ \A i, j \in 1 .. Len(rest) : i < j => Before(rest[i], rest[j])
  BY UnlinkRest DEF Hit
<1> HIDE DEF rest
<1>2. /\ list' \in Seq(Event) /\ Len(list') = Len(rest) + 1 /\ list'[1] = e
      /\ \A i \in 1 .. Len(rest) : list'[i + 1] = rest[i]
      /\ ToSet(list') = {e} \cup ToSet(rest) /\ IsInjective(list')
  BY <1>1, PushFront DEF Hit, rest
<1>3. CacheOK'
  <2>1. e \in keys /\ UNCHANGED <<keys, expiresAt>>
    BY DEF Hit
  <2>2. ToSet(list') = keys
    BY <1>1, <1>2, <2>1
  <2>3. Len(list') = Len(list)
    BY <1>1, <1>2, Places
  <2> QED BY <1>2, <2>1, <2>2, <2>3 DEF CacheOK, ListMatchesMap
<1>4. ASSUME NEW a, NEW b, Before(a, b)' PROVE b # e /\ (a = e \/ Before(a, b))
  <2>1. PICK i \in 1 .. Len(list'), j \in 1 .. Len(list') :
          i < j /\ list'[i] = a /\ list'[j] = b
    BY <1>4 DEF Before
  <2>2. Len(rest) \in Nat /\ DOMAIN rest = 1 .. Len(rest)
    BY <1>1, LenProperties
  <2>3. j - 1 \in 1 .. Len(rest) /\ b = rest[j - 1] /\ b \in ToSet(rest)
    <3>1. j - 1 \in 1 .. Len(rest) /\ (j - 1) + 1 = j
      BY <1>2, <2>1, <2>2
    <3> QED BY <1>2, <2>1, <2>2, <3>1 DEF ToSet
  <2>4. CASE i = 1
    BY <1>1, <1>2, <2>1, <2>3, <2>4
  <2>5. CASE i # 1
    <3>1. i - 1 \in 1 .. Len(rest) /\ (i - 1) + 1 = i /\ i - 1 < j - 1
      BY <1>2, <2>1, <2>2, <2>5
    <3> QED BY <1>1, <1>2, <2>1, <2>3, <3>1
  <2> QED BY <2>4, <2>5
<1> QED BY <1>3, <1>4 DEF Hit

\* Seen answers false: list and map still agree, e is in front; an id is
\* dropped only from a full list that did not hold e, and only one that stood
\* behind every id that stays.
LEMMA InsertEffect ==
  ASSUME CacheOK, NEW e \in Event, NEW now \in Nat, Insert(e, now)
  PROVE  /\ CacheOK' /\ e \in keys' /\ keys' \subseteq keys \cup {e}
         /\ \A a, b : Before(a, b)' => b # e /\ (a = e \/ Before(a, b))
         /\ \/ keys \subseteq keys'
            \/ e \notin keys /\ Cardinality(keys) = Cap /\ Cardinality(keys') = Cap
         /\ \A a \in keys \ keys', b \in keys \cap keys' : Before(b, a)
<1> USE LRUAssumption
<1> DEFINE rest == Unlink(e)
           kept == IF Len(rest) < Cap THEN rest ELSE SubSeq(rest, 1, Cap - 1)
<1>1. /\ rest \in Seq(Event) /\ ToSet(rest) = keys \ {e} /\ IsInjective(rest)
      /\ Len(rest) = IF e \in keys THEN Len(list) - 1 ELSE Len(list)
      /\ \A i, j \in 1 .. Len(rest) : i < j => Before(rest[i], rest[j])
  BY UnlinkRest
<1>2. /\ list' = <<e>> \o kept /\ keys' = {e} \cup ToSet(kept)
      /\ expiresAt' = [expiresAt EXCEPT ![e] = now + Ttl]
  BY DEF Insert
<1> HIDE DEF rest
<1>3. Len(rest) \in Nat /\ DOMAIN rest = 1 .. Len(rest)
  BY <1>1, LenProperties
<1>4. /\ kept \in Seq(Event) /\ Len(kept) <= Len(rest) /\ Len(kept) < Cap
      /\ \A i \in 1 .. Len(kept) : kept[i] = rest[i]
      /\ Len(rest) < Cap => kept = rest
      /\ Len(rest) >= Cap => Len(kept) = Cap - 1
  <2>1. CASE Len(rest) < Cap
    BY <2>1, <1>1, <1>3
  <2>2. CASE Len(rest) >= Cap
    <3>1. kept = SubSeq(rest, 1, Cap - 1)
      BY <2>2, <1>3
    <3>2. \A i \in 1 .. Cap - 1 : rest[i] \in Event
      BY <2>2, <1>1, <1>3, ElementOfSeq
    <3>3. /\ SubSeq(rest, 1, Cap - 1) \in Seq(Event)
          /\ Len(SubSeq(rest, 1, Cap - 1)) = Cap - 1
          /\ \A i \in 1 .. Cap - 1 : SubSeq(rest, 1, Cap - 1)[i] = rest[i]
      BY <3>2, SubSeqProperties
    <3> QED BY <2>2, <3>1, <3>3, <1>3
  <2> QED BY <2>1, <2>2, <1>3
<1> HIDE DEF kept
<1>5. Len(kept) \in Nat /\ DOMAIN kept = 1 .. Len(kept)
  BY <1>4, LenProperties
<1>6. IsInjective(kept)
  BY <1>1, <1>3, <1>4, <1>5 DEF IsInjective
<1>7. ToSet(kept) \subseteq keys \ {e}
  <2>1. \A i \in 1 .. Len(kept) : kept[i] \in ToSet(rest)
    BY <1>3, <1>4, <1>5 DEF ToSet
  <2> QED BY <2>1, <1>1, <1>5 DEF ToSet
<1>8. /\ list' \in Seq(Event) /\ Len(list') = Len(kept) + 1 /\ list'[1] = e
      /\ \A i \in 1 .. Len(kept) : list'[i + 1] = kept[i]
      /\ ToSet(list') = {e} \cup ToSet(kept) /\ IsInjective(list')
  BY <1>2, <1>4, <1>6, <1>7, PushFront
<1>9. CacheOK'
  <2>1. expiresAt' \in [Event -> Nat]
    BY <1>2 DEF CacheOK
  <2>2. ToSet(list') = keys' /\ keys' \subseteq Event
    BY <1>2, <1>7, <1>8 DEF CacheOK
  <2>3. Len(list') <= Cap
    BY <1>4, <1>5, <1>8
  <2> QED BY <1>8, <2>1, <2>2, <2>3 DEF CacheOK, ListMatchesMap
<1>10. ASSUME NEW a, NEW b, Before(a, b)' PROVE b # e /\ (a = e \/ Before(a, b))
  <2>1. PICK i \in 1 .. Len(list'), j \in 1 .. Len(list') :
          i < j /\ list'[i] = a /\ list'[j] = b
    BY <1>10 DEF Before
  <2>2. /\ j - 1 \in 1 .. Len(kept) /\ (j - 1) + 1 = j
        /\ i = 1 \/ (i - 1 \in 1 .. Len(kept) /\ (i - 1) + 1 = i /\ i - 1 < j - 1)
    BY <1>5, <1>8, <2>1
  <2>3. b = kept[j - 1] /\ b \in ToSet(kept)
    BY <1>5, <1>8, <2>1, <2>2 DEF ToSet
  <2>4. i = 1 \/ (a = kept[i - 1] /\ Before(kept[i - 1], kept[j - 1]))
    <3>1. ASSUME i # 1
          PROVE  /\ i - 1 \in 1 .. Len(rest) /\ j - 1 \in 1 .. Len(rest) /\ i - 1 < j - 1
                 /\ kept[i - 1] = rest[i - 1] /\ kept[j - 1] = rest[j - 1]
                 /\ a = kept[i - 1]
      BY <3>1, <1>3, <1>4, <1>5, <1>8, <2>1, <2>2
    <3> QED BY <3>1, <1>1
  <2> QED BY <1>7, <1>8, <2>1, <2>3, <2>4
\* Whoever is dropped stood behind the Cap - 1 places that are kept.
<1>11. ASSUME NEW a \in keys \ keys'
       PROVE  \E j \in 1 .. Len(rest) : j > Len(kept) /\ rest[j] = a
  <2>1. a \in ToSet(rest)
    BY <1>1, <1>2
  <2>2. PICK j \in 1 .. Len(rest) : rest[j] = a
    BY <2>1, <1>3 DEF ToSet
  <2>3. j > Len(kept)
    <3> SUFFICES ASSUME j \in 1 .. Len(kept) PROVE FALSE
      BY <1>3, <1>5
    <3> QED BY <1>2, <1>4, <1>5, <2>2 DEF ToSet
  <2> QED BY <2>2, <2>3
<1>12. CASE keys \subseteq keys'
  BY <1>2, <1>7, <1>9, <1>10, <1>12
<1>13. CASE ~(keys \subseteq keys')
  <2>1. Len(kept) < Len(rest)
    BY <1>3, <1>5, <1>11, <1>13
  <2>2. e \notin keys /\ Len(rest) = Cap /\ Len(list) = Cap /\ Len(kept) = Cap - 1
    <3>1. Len(list) \in Nat /\ Len(list) <= Cap
      BY Places DEF CacheOK, ListMatchesMap
    <3> QED BY <2>1, <3>1, <1>1, <1>3, <1>4
  <2>3. Cardinality(keys) = Cap /\ Cardinality(keys') = Len(list')
    <3>1. Cardinality(keys) = Len(list)
      BY ListSize DEF CacheOK, ListMatchesMap
    <3>2. Cardinality(keys') = Len(list')
      BY <1>2, <1>8, ListSize
    <3> QED BY <3>1, <3>2, <2>2
  <2>4. Cardinality(keys') = Cap
    BY <1>8, <2>2, <2>3
  <2>5. ASSUME NEW a \in keys \ keys', NEW b \in keys \cap keys' PROVE Before(b, a)
    <3>1. PICK j \in 1 .. Len(rest) : j > Len(kept) /\ rest[j] = a
      BY <1>11
    <3>2. b \in ToSet(kept)
      BY <1>2, <2>2
    <3>3. PICK i \in 1 .. Len(kept) : kept[i] = b
      BY <1>5, <3>2 DEF ToSet
    <3>4. i \in 1 .. Len(rest) /\ i < j /\ rest[i] = b
      BY <1>3, <1>4, <1>5, <3>1, <3>3
    <3> QED BY <1>1, <3>1, <3>4
  <2> QED BY <1>2, <1>7, <1>9, <1>10, <2>2, <2>3, <2>4, <2>5
<1> QED BY <1>12, <1>13

==============================================================================
