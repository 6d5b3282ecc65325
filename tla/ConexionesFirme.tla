-------------------------- MODULE ConexionesFirme ---------------------------
(***************************************************************************)
(* What Conexiones and its view as Bazar have to do with each other: the   *)
(* bag of the messages that are written and not read, or lost, the queue   *)
(* of what Logic posted to the Router, and what each call of a socket does *)
(* to both; and Firme, what the connections of the scene and the maps of   *)
(* the Routers are while no node ends.                                     *)
(***************************************************************************)
EXTENDS ConexionesBazar

-----------------------------------------------------------------------------
(* The messages of the connections, and those that are lost, counted.      *)
LEMMA Contar ==
  /\ IsFiniteSet({}) /\ Cardinality({}) = 0
  /\ \A x : IsFiniteSet({x}) /\ Cardinality({x}) = 1
  /\ \A S : IsFiniteSet(S) => Cardinality(S) \in Nat /\ (Cardinality(S) = 0 <=> S = {})
  /\ \A S, T : IsFiniteSet(S) /\ IsFiniteSet(T) /\ S \cap T = {}
       => IsFiniteSet(S \cup T) /\ Cardinality(S \cup T) = Cardinality(S) + Cardinality(T)
<1>1. \A R : /\ FS!IsFiniteSet(R) <=> IsFiniteSet(R)
            /\ FS!Cardinality(R) = Cardinality(R)
  BY DEF FS!Cardinality, Cardinality, FS!IsFiniteSet, IsFiniteSet
<1>2. /\ IsFiniteSet({}) /\ Cardinality({}) = 0
      /\ \A S : IsFiniteSet(S) => (Cardinality(S) = 0 <=> S = {})
  BY <1>1, FS!FS_EmptySet
<1>3. \A x : IsFiniteSet({x}) /\ Cardinality({x}) = 1
  BY <1>1, FS!FS_Singleton
<1>4. ASSUME NEW S, IsFiniteSet(S)
      PROVE  Cardinality(S) \in Nat
  BY <1>1, <1>4, FS!FS_CardinalityType
<1>5. ASSUME NEW S, NEW T, IsFiniteSet(S), IsFiniteSet(T), S \cap T = {}
      PROVE  IsFiniteSet(S \cup T) /\ Cardinality(S \cup T) = Cardinality(S) + Cardinality(T)
  <2>1. /\ FS!IsFiniteSet(S \cup T)
        /\ FS!Cardinality(S \cup T)
             = FS!Cardinality(S) + FS!Cardinality(T) - FS!Cardinality(S \cap T)
    <3>1. FS!IsFiniteSet(S) /\ FS!IsFiniteSet(T)
      BY <1>1, <1>5
    <3> QED
      BY <3>1, FS!FS_Union
  <2>2. Cardinality(S) \in Nat /\ Cardinality(T) \in Nat /\ Cardinality(S \cap T) = 0
    BY <1>2, <1>4, <1>5
  <2> QED
    BY <1>1, <2>1, <2>2
<1> QED
  BY <1>2, <1>3, <1>4, <1>5

LEMMA Renombra ==
  ASSUME NEW S, IsFiniteSet(S), NEW f, DOMAIN f = S, f = [x \in S |-> f[x]],
         \A x, y \in S : f[x] = f[y] => x = y
  PROVE  IsFiniteSet({f[x] : x \in S}) /\ Cardinality({f[x] : x \in S}) = Cardinality(S)
<1> DEFINE T == {f[x] : x \in S}
<1>1. \A R : /\ FS!IsFiniteSet(R) <=> IsFiniteSet(R)
            /\ FS!Cardinality(R) = Cardinality(R)
  BY DEF FS!Cardinality, Cardinality, FS!IsFiniteSet, IsFiniteSet
<1>2. f \in FS!Bijection(S, T)
  <2>1. f \in [S -> T]
    OBVIOUS
  <2>2. \A t \in T : \E s \in S : f[s] = t
    OBVIOUS
  <2> HIDE DEF T
  <2> QED
    BY <2>1, <2>2 DEF FS!Bijection, FS!Injection, FS!Surjection, FS!IsInjective
<1> HIDE DEF T
<1>3. FS!ExistsBijection(S, T)
  BY <1>2 DEF FS!ExistsBijection
<1>4. FS!IsFiniteSet(T) /\ FS!Cardinality(T) = FS!Cardinality(S)
  BY <1>1, <1>3, FS!FS_Bijection
<1> QED
  BY <1>1, <1>4 DEF T

(* The places of the package p among the data s that are for node n.       *)
De(s, n, p) ==
  {i \in DOMAIN s : s[i].que = "mensaje" /\ [dst |-> n, tag |-> s[i].tag] = p}

LEMMA DeFinito ==
  ASSUME NEW s, EsSeq(s), NEW n, NEW p
  PROVE  IsFiniteSet(De(s, n, p)) /\ Cardinality(De(s, n, p)) \in Nat
<1>1. Len(s) \in Nat /\ DOMAIN s = 1..Len(s)
  BY SeqAppend
<1>2. De(s, n, p) \in SUBSET (1..Len(s))
  BY <1>1 DEF De
<1>3. IsFiniteSet(1..Len(s))
  BY <1>1, Intervalo
<1>4. IsFiniteSet(De(s, n, p))
  BY <1>2, <1>3, Finitos
<1> QED
  BY <1>4, Contar

LEMMA DeUno ==
  ASSUME NEW d, NEW n, NEW p
  PROVE  /\ Cardinality(De(<<d>>, n, p)) =
              IF d.que = "mensaje" /\ [dst |-> n, tag |-> d.tag] = p THEN 1 ELSE 0
         /\ Cardinality(De(<<>>, n, p)) = 0
<1>1. DOMAIN <<d>> = {1} /\ <<d>>[1] = d
  OBVIOUS
<1>2. De(<<d>>, n, p) =
        IF d.que = "mensaje" /\ [dst |-> n, tag |-> d.tag] = p THEN {1} ELSE {}
  BY <1>1 DEF De
<1>3. De(<<>>, n, p) = {}
  BY DEF De
<1> QED
  BY <1>2, <1>3, Contar

LEMMA DeAppend ==
  ASSUME NEW s, EsSeq(s), NEW d, NEW n, NEW p
  PROVE  Cardinality(De(Append(s, d), n, p)) =
           Cardinality(De(s, n, p)) + Cardinality(De(<<d>>, n, p))
<1> DEFINE t == Append(s, d)
           E == IF d.que = "mensaje" /\ [dst |-> n, tag |-> d.tag] = p
                THEN {Len(s) + 1} ELSE {}
<1>1. /\ Len(s) \in Nat /\ DOMAIN s = 1..Len(s)
      /\ DOMAIN t = 1..(Len(s) + 1)
      /\ \A i \in DOMAIN s : t[i] = s[i]
      /\ t[Len(s) + 1] = d
  BY SeqAppend DEF EsSeq
<1> HIDE DEF t
<1>2. De(t, n, p) = De(s, n, p) \cup E
  BY <1>1 DEF De
<1>3. De(s, n, p) \cap E = {}
  BY <1>1 DEF De
<1>4. IsFiniteSet(E) /\ Cardinality(E) = Cardinality(De(<<d>>, n, p))
  <2>1. CASE d.que = "mensaje" /\ [dst |-> n, tag |-> d.tag] = p
    <3>1. Cardinality(De(<<d>>, n, p)) = 1
      BY <2>1, DeUno
    <3> QED
      BY <2>1, <3>1, Contar
  <2>2. CASE ~(d.que = "mensaje" /\ [dst |-> n, tag |-> d.tag] = p)
    <3>1. Cardinality(De(<<d>>, n, p)) = 0
      BY <2>2, DeUno
    <3>2. E = {}
      BY <2>2
    <3> HIDE DEF E
    <3> QED
      BY <3>1, <3>2, Contar
  <2> QED
    BY <2>1, <2>2
<1> HIDE DEF E
<1>5. IsFiniteSet(De(s, n, p))
  BY DeFinito
<1>6. Cardinality(De(s, n, p) \cup E) = Cardinality(De(s, n, p)) + Cardinality(E)
  BY <1>3, <1>4, <1>5, Contar
<1> QED
  BY <1>2, <1>4, <1>6 DEF t

LEMMA DeTail ==
  ASSUME NEW s, EsSeq(s), s # <<>>, NEW n, NEW p
  PROVE  Cardinality(De(s, n, p)) =
           Cardinality(De(<<s[1]>>, n, p)) + Cardinality(De(Tail(s), n, p))
<1> DEFINE t == Tail(s)
           E == IF s[1].que = "mensaje" /\ [dst |-> n, tag |-> s[1].tag] = p
                THEN {1} ELSE {}
           R == De(s, n, p) \ {1}
           f == [i \in De(t, n, p) |-> i + 1]
<1>1. /\ Len(s) \in Nat \ {0} /\ DOMAIN s = 1..Len(s)
      /\ DOMAIN t = 1..(Len(s) - 1)
      /\ \A i \in DOMAIN t : t[i] = s[i + 1]
  BY SeqTail, SeqAppend DEF EsSeq
<1>2. EsSeq(t)
  BY SeqTail
<1> HIDE DEF t
<1>3. De(s, n, p) = E \cup R /\ E \cap R = {}
  BY <1>1 DEF De
<1>4. R = {f[i] : i \in De(t, n, p)}
  <2>1. ASSUME NEW i \in R
        PROVE  i - 1 \in De(t, n, p) /\ f[i - 1] = i
    BY <1>1, <2>1 DEF De
  <2>2. ASSUME NEW i \in De(t, n, p)
        PROVE  f[i] \in R
    BY <1>1, <2>2 DEF De
  <2> HIDE DEF f, R
  <2> QED
    BY <2>1, <2>2
<1>5. De(t, n, p) \subseteq Nat
  BY <1>1 DEF De
<1>6. Cardinality(R) = Cardinality(De(t, n, p)) /\ IsFiniteSet(R)
  <2>1. IsFiniteSet(De(t, n, p))
    BY <1>2, DeFinito
  <2>2. \A x, y \in De(t, n, p) : f[x] = f[y] => x = y
    BY <1>5
  <2>3. DOMAIN f = De(t, n, p) /\ f = [x \in De(t, n, p) |-> f[x]]
    OBVIOUS
  <2> HIDE DEF f, R
  <2> QED
    BY <1>4, <2>1, <2>2, <2>3, Renombra
<1>7. IsFiniteSet(E) /\ Cardinality(E) = Cardinality(De(<<s[1]>>, n, p))
  <2>1. CASE s[1].que = "mensaje" /\ [dst |-> n, tag |-> s[1].tag] = p
    <3>1. Cardinality(De(<<s[1]>>, n, p)) = 1
      BY <2>1, DeUno
    <3> QED
      BY <2>1, <3>1, Contar
  <2>2. CASE ~(s[1].que = "mensaje" /\ [dst |-> n, tag |-> s[1].tag] = p)
    <3>1. Cardinality(De(<<s[1]>>, n, p)) = 0
      BY <2>2, DeUno
    <3>2. E = {}
      BY <2>2
    <3> HIDE DEF E
    <3> QED
      BY <3>1, <3>2, Contar
  <2> QED
    BY <2>1, <2>2
<1> HIDE DEF E, R
<1>8. Cardinality(E \cup R) = Cardinality(E) + Cardinality(R)
  BY <1>3, <1>6, <1>7, Contar
<1> QED
  BY <1>3, <1>6, <1>7, <1>8 DEF t

Copias(p, b) == IF p \in DOMAIN b THEN b[p] ELSE 0

LEMMA Bolsas ==
  ASSUME NEW b, IsABag(b), NEW c, IsABag(c)
  PROVE  /\ IsABag(b (+) c)
         /\ \A p : /\ Copias(p, b) \in Nat /\ Copias(p, c) \in Nat
                   /\ Copias(p, b (+) c) = Copias(p, b) + Copias(p, c)
         /\ (\A p : Copias(p, b) = Copias(p, c)) => b = c
<1>1. \A p : /\ Copias(p, b) \in Nat /\ Copias(p, c) \in Nat
             /\ p \in DOMAIN b <=> Copias(p, b) > 0
             /\ p \in DOMAIN c <=> Copias(p, c) > 0
             /\ p \in DOMAIN b => b[p] = Copias(p, b)
             /\ p \in DOMAIN c => c[p] = Copias(p, c)
  BY DEF IsABag, Copias
<1>2. IsABag(b (+) c)
  <2>1. ASSUME NEW p \in DOMAIN (b (+) c)
        PROVE  (b (+) c)[p] \in {n \in Nat : n > 0}
    BY <2>1 DEF IsABag, (+)
  <2>2. (b (+) c) = [p \in DOMAIN (b (+) c) |-> (b (+) c)[p]]
    BY DEF (+)
  <2> QED
    BY <2>1, <2>2 DEF IsABag
<1>3. \A p : Copias(p, b (+) c) = Copias(p, b) + Copias(p, c)
  BY <1>1 DEF Copias, (+)
<1>4. ASSUME \A p : Copias(p, b) = Copias(p, c)
      PROVE  b = c
  <2>1. DOMAIN b = DOMAIN c
    BY <1>1, <1>4
  <2>2. \A p \in DOMAIN b : b[p] = c[p]
    BY <1>1, <1>4, <2>1
  <2>3. b = [p \in DOMAIN b |-> b[p]] /\ c = [p \in DOMAIN c |-> c[p]]
    BY DEF IsABag
  <2> QED
    BY <2>1, <2>2, <2>3
<1> QED
  BY <1>1, <1>2, <1>3, <1>4

LEMMA CartasEs ==
  ASSUME NEW s, EsSeq(s), NEW n
  PROVE  /\ IsABag(Cartas(s, n))
         /\ \A p : Copias(p, Cartas(s, n)) = Cardinality(De(s, n, p))
<1> DEFINE c == Cartas(s, n)
           I == {i \in DOMAIN s : s[i].que = "mensaje"}
           paq(i) == [dst |-> n, tag |-> s[i].tag]
<1>1. DOMAIN c = {paq(i) : i \in I} /\ c = [p \in DOMAIN c |-> c[p]]
  BY DEF Cartas
<1>2. ASSUME NEW p \in DOMAIN c
      PROVE  c[p] = Cardinality(De(s, n, p))
  <2>1. c[p] = Cardinality({i \in I : paq(i) = p})
    BY <1>2 DEF Cartas
  <2>2. {i \in I : paq(i) = p} = De(s, n, p)
    BY DEF De
  <2> QED
    BY <2>1, <2>2
<1>3. \A p : p \in DOMAIN c <=> De(s, n, p) # {}
  <2>1. \A p : p \in {paq(i) : i \in I} <=> De(s, n, p) # {}
    BY DEF De
  <2> QED
    BY <1>1, <2>1
<1> HIDE DEF c
<1>4. \A p : /\ Cardinality(De(s, n, p)) \in Nat
             /\ Cardinality(De(s, n, p)) = 0 <=> De(s, n, p) = {}
  BY DeFinito, Contar
<1>5. IsABag(c)
  BY <1>1, <1>2, <1>3, <1>4 DEF IsABag
<1>6. \A p : Copias(p, c) = Cardinality(De(s, n, p))
  BY <1>2, <1>3, <1>4 DEF Copias
<1> QED
  BY <1>5, <1>6 DEF c

(* The messages in the connections, and all there are of a package p.      *)
EnSobres(k, p) == {x \in Letras(k) : Sobre(k, x) = p}

Total(k, p) == Copias(p, k.perdidos) + Cardinality(EnSobres(k, p))

LetrasBien(k) == IsABag(k.perdidos) /\ \A p : IsFiniteSet(EnSobres(k, p))

LEMMA SobresEs ==
  ASSUME NEW k, NEW p, NEW x
  PROVE  x \in EnSobres(k, p) <=>
           \E c \in DOMAIN k.con, l \in 1..2 :
             \E i \in De(k.con[c].buf[l], k.con[c].nodo[l], p) : x = <<c, l, i>>
<1> DEFINE I(c, l) == {i \in DOMAIN k.con[c].buf[l] : k.con[c].buf[l][i].que = "mensaje"}
           T(c, l) == {<<c, l, i>> : i \in I(c, l)}
<1>1. Letras(k) = UNION {T(c, l) : c \in DOMAIN k.con, l \in 1..2}
  BY DEF Letras
<1>2. ASSUME x \in EnSobres(k, p)
      PROVE  \E c \in DOMAIN k.con, l \in 1..2 :
               \E i \in De(k.con[c].buf[l], k.con[c].nodo[l], p) : x = <<c, l, i>>
  <2>1. PICK c \in DOMAIN k.con, l \in 1..2 : x \in T(c, l)
    BY <1>1, <1>2 DEF EnSobres
  <2>2. PICK i \in I(c, l) : x = <<c, l, i>>
    BY <2>1
  <2>3. [dst |-> k.con[c].nodo[l], tag |-> k.con[c].buf[l][i].tag] = p
    BY <1>2, <2>2 DEF EnSobres, Sobre
  <2>4. i \in De(k.con[c].buf[l], k.con[c].nodo[l], p)
    BY <2>2, <2>3 DEF De
  <2> QED
    BY <2>1, <2>2, <2>4
<1>3. ASSUME NEW c \in DOMAIN k.con, NEW l \in 1..2,
             NEW i \in De(k.con[c].buf[l], k.con[c].nodo[l], p), x = <<c, l, i>>
      PROVE  x \in EnSobres(k, p)
  <2>1. i \in I(c, l) /\ [dst |-> k.con[c].nodo[l], tag |-> k.con[c].buf[l][i].tag] = p
    BY <1>3 DEF De
  <2>2. Sobre(k, x) = p
    BY <1>3, <2>1 DEF Sobre
  <2>3. x \in T(c, l)
    BY <1>3, <2>1
  <2> HIDE DEF T
  <2>4. x \in Letras(k)
    BY <1>1, <2>3
  <2> QED
    BY <2>2, <2>4 DEF EnSobres
<1> QED
  BY <1>2, <1>3

(* What end l of connection j has been sent changes.                       *)
Cambian(k, h, j, l) ==
  /\ j \in DOMAIN k.con /\ l \in 1..2 /\ DOMAIN k.con \subseteq DOMAIN h.con
  /\ \A c \in DOMAIN k.con : h.con[c].nodo = k.con[c].nodo
  /\ \A c \in DOMAIN h.con : \A m \in 1..2 : c # j \/ m # l =>
       h.con[c].buf[m] = IF c \in DOMAIN k.con THEN k.con[c].buf[m] ELSE <<>>

LEMMA CambiaSobres ==
  ASSUME NEW k, NEW h, NEW j, NEW l, Cambian(k, h, j, l),
         EsSeq(k.con[j].buf[l]), EsSeq(h.con[j].buf[l]),
         NEW p, IsFiniteSet(EnSobres(k, p)), NEW n, n = k.con[j].nodo[l]
  PROVE  /\ IsFiniteSet(EnSobres(h, p))
         /\ Cardinality(EnSobres(h, p)) + Cardinality(De(k.con[j].buf[l], n, p))
              = Cardinality(EnSobres(k, p)) + Cardinality(De(h.con[j].buf[l], n, p))
<1> DEFINE Esto(s) == {<<j, l, i>> : i \in De(s, n, p)}
           Demas == {x \in EnSobres(k, p) : x \notin Esto(k.con[j].buf[l])}
<1>1. ASSUME NEW s, EsSeq(s)
      PROVE  IsFiniteSet(Esto(s)) /\ Cardinality(Esto(s)) = Cardinality(De(s, n, p))
  <2> DEFINE f == [i \in De(s, n, p) |-> <<j, l, i>>]
  <2>1. Esto(s) = {f[i] : i \in De(s, n, p)}
    OBVIOUS
  <2>2. DOMAIN f = De(s, n, p) /\ f = [i \in De(s, n, p) |-> f[i]]
    OBVIOUS
  <2>3. \A x, y \in De(s, n, p) : f[x] = f[y] => x = y
    OBVIOUS
  <2>4. IsFiniteSet(De(s, n, p))
    BY <1>1, DeFinito
  <2> HIDE DEF f, Esto
  <2> QED
    BY <2>1, <2>2, <2>3, <2>4, Renombra
<1>2. EnSobres(k, p) = Demas \cup Esto(k.con[j].buf[l])
  BY SobresEs DEF Cambian
<1>3. ASSUME NEW x \in EnSobres(h, p), x \notin Esto(h.con[j].buf[l])
      PROVE  x \in Demas
  <2>1. PICK c \in DOMAIN h.con, m \in 1..2 :
          \E i \in De(h.con[c].buf[m], h.con[c].nodo[m], p) : x = <<c, m, i>>
    BY <1>3, SobresEs
  <2>2. PICK i \in De(h.con[c].buf[m], h.con[c].nodo[m], p) : x = <<c, m, i>>
    BY <2>1
  <2>3. c # j \/ m # l
    BY <1>3, <2>2 DEF Cambian
  <2>4. c \in DOMAIN k.con /\ h.con[c].buf[m] = k.con[c].buf[m]
        /\ h.con[c].nodo[m] = k.con[c].nodo[m]
    <3>1. h.con[c].buf[m] # <<>>
      BY <2>2 DEF De
    <3> QED
      BY <2>3, <3>1 DEF Cambian
  <2>5. x \in EnSobres(k, p)
    <3>1. i \in De(k.con[c].buf[m], k.con[c].nodo[m], p)
      BY <2>2, <2>4
    <3> QED
      BY <2>2, <2>4, <3>1, SobresEs
  <2>6. x \notin Esto(k.con[j].buf[l])
    BY <2>2, <2>3
  <2> QED
    BY <2>5, <2>6
<1>4. ASSUME NEW x \in Demas
      PROVE  x \in EnSobres(h, p) /\ x \notin Esto(h.con[j].buf[l])
  <2>1. PICK c \in DOMAIN k.con, m \in 1..2 :
          \E i \in De(k.con[c].buf[m], k.con[c].nodo[m], p) : x = <<c, m, i>>
    BY <1>4, SobresEs
  <2>2. PICK i \in De(k.con[c].buf[m], k.con[c].nodo[m], p) : x = <<c, m, i>>
    BY <2>1
  <2>3. c # j \/ m # l
    BY <1>4, <2>2
  <2>4. /\ c \in DOMAIN h.con /\ h.con[c].buf[m] = k.con[c].buf[m]
        /\ h.con[c].nodo[m] = k.con[c].nodo[m]
    BY <2>3 DEF Cambian
  <2>5. x \in EnSobres(h, p)
    <3>1. i \in De(h.con[c].buf[m], h.con[c].nodo[m], p)
      BY <2>2, <2>4
    <3> QED
      BY <2>2, <2>4, <3>1, SobresEs
  <2>6. x \notin Esto(h.con[j].buf[l])
    BY <2>2, <2>3
  <2> QED
    BY <2>5, <2>6
<1>5. ASSUME NEW x \in Esto(h.con[j].buf[l])
      PROVE  x \in EnSobres(h, p)
  BY <1>5, SobresEs DEF Cambian
<1>6. IsFiniteSet(Demas)
  BY Finitos
<1>7. Demas \cap Esto(k.con[j].buf[l]) = {} /\ Demas \cap Esto(h.con[j].buf[l]) = {}
  BY <1>4
<1> HIDE DEF Demas, Esto
<1>8. EnSobres(h, p) = Demas \cup Esto(h.con[j].buf[l])
  BY <1>3, <1>4, <1>5
<1>9. /\ IsFiniteSet(EnSobres(h, p))
      /\ Cardinality(EnSobres(h, p)) = Cardinality(Demas) + Cardinality(Esto(h.con[j].buf[l]))
  BY <1>1, <1>6, <1>7, <1>8, Contar
<1>10. Cardinality(EnSobres(k, p)) = Cardinality(Demas) + Cardinality(Esto(k.con[j].buf[l]))
  BY <1>1, <1>2, <1>6, <1>7, Contar
<1>11. /\ Cardinality(Esto(h.con[j].buf[l])) = Cardinality(De(h.con[j].buf[l], n, p))
       /\ Cardinality(Esto(k.con[j].buf[l])) = Cardinality(De(k.con[j].buf[l], n, p))
  BY <1>1
<1>12. /\ Cardinality(Demas) \in Nat
       /\ Cardinality(De(h.con[j].buf[l], n, p)) \in Nat
       /\ Cardinality(De(k.con[j].buf[l], n, p)) \in Nat
  BY <1>6, Contar, DeFinito
<1> QED
  BY <1>9, <1>10, <1>11, <1>12

(* The same data are on their way, and nobody has closed.                  *)
Iguales(k, h) ==
  /\ DOMAIN k.con \subseteq DOMAIN h.con
  /\ \A c \in DOMAIN k.con : h.con[c].nodo = k.con[c].nodo
  /\ \A c \in DOMAIN h.con : \A m \in 1..2 :
       h.con[c].buf[m] = IF c \in DOMAIN k.con THEN k.con[c].buf[m] ELSE <<>>

Mismos(k, h) == LetrasBien(h) /\ \A p : Total(h, p) = Total(k, p)

LEMMA BolsaVacia ==
  /\ IsABag(EmptyBag) /\ \A p : Copias(p, EmptyBag) = 0
  /\ \A b : IsABag(b) => b (+) EmptyBag = b
<1>1. IsABag(EmptyBag) /\ \A p : Copias(p, EmptyBag) = 0
  BY DEF EmptyBag, SetToBag, IsABag, Copias
<1>2. ASSUME NEW b, IsABag(b)
      PROVE  b (+) EmptyBag = b
  <2>1. /\ IsABag(b (+) EmptyBag)
        /\ \A p : Copias(p, b (+) EmptyBag) = Copias(p, b)
    BY <1>1, <1>2, Bolsas
  <2> QED
    BY <1>2, <2>1, Bolsas
<1> QED
  BY <1>1, <1>2

LEMMA TotalBien ==
  ASSUME NEW k, LetrasBien(k), NEW p
  PROVE  /\ Total(k, p) \in Nat
         /\ Copias(p, k.perdidos) \in Nat /\ Cardinality(EnSobres(k, p)) \in Nat
<1>1. Cardinality(EnSobres(k, p)) \in Nat
  BY Contar DEF LetrasBien
<1>2. Copias(p, k.perdidos) \in Nat
  BY Bolsas DEF LetrasBien
<1> QED
  BY <1>1, <1>2 DEF Total

(* The counts, where b is lost and what end l of j has been sent changes.  *)
CuentasUna(k, h, j, l, n, b) ==
  /\ LetrasBien(h)
  /\ \A p : Total(h, p) + Cardinality(De(k.con[j].buf[l], n, p))
              = Total(k, p) + Cardinality(De(h.con[j].buf[l], n, p)) + Copias(p, b)

LEMMA CuentaUna ==
  ASSUME NEW k, LetrasBien(k), NEW h, NEW j, NEW l, Cambian(k, h, j, l),
         EsSeq(k.con[j].buf[l]), EsSeq(h.con[j].buf[l]),
         NEW n, n = k.con[j].nodo[l],
         NEW b, IsABag(b), h.perdidos = k.perdidos (+) b
  PROVE  CuentasUna(k, h, j, l, n, b)
<1>1. ASSUME NEW p
      PROVE  /\ IsFiniteSet(EnSobres(h, p))
             /\ Cardinality(EnSobres(h, p)) + Cardinality(De(k.con[j].buf[l], n, p))
                  = Cardinality(EnSobres(k, p)) + Cardinality(De(h.con[j].buf[l], n, p))
  BY CambiaSobres DEF LetrasBien
<1>2. /\ IsABag(h.perdidos)
      /\ \A p : /\ Copias(p, h.perdidos) = Copias(p, k.perdidos) + Copias(p, b)
                /\ Copias(p, b) \in Nat
  <2>1. IsABag(k.perdidos)
    BY DEF LetrasBien
  <2> QED
    BY <2>1, Bolsas
<1>3. LetrasBien(h)
  BY <1>1, <1>2 DEF LetrasBien
<1>4. ASSUME NEW p
      PROVE  Total(h, p) + Cardinality(De(k.con[j].buf[l], n, p))
               = Total(k, p) + Cardinality(De(h.con[j].buf[l], n, p)) + Copias(p, b)
  <2>1. /\ Copias(p, k.perdidos) \in Nat /\ Cardinality(EnSobres(k, p)) \in Nat
        /\ Copias(p, h.perdidos) \in Nat /\ Cardinality(EnSobres(h, p)) \in Nat
        /\ Cardinality(De(k.con[j].buf[l], n, p)) \in Nat
        /\ Cardinality(De(h.con[j].buf[l], n, p)) \in Nat
        /\ Copias(p, b) \in Nat
    BY <1>2, <1>3, TotalBien, DeFinito
  <2> QED
    BY <1>1, <1>2, <2>1 DEF Total
<1> QED
  BY <1>3, <1>4 DEF CuentasUna

LEMMA CuentaIgual ==
  ASSUME NEW k, LetrasBien(k), NEW h, Iguales(k, h), NEW b, IsABag(b),
         h.perdidos = k.perdidos (+) b
  PROVE  LetrasBien(h) /\ \A p : Total(h, p) = Total(k, p) + Copias(p, b)
<1>1. ASSUME NEW p
      PROVE  EnSobres(h, p) = EnSobres(k, p)
  <2>1. ASSUME NEW x \in EnSobres(k, p)
        PROVE  x \in EnSobres(h, p)
    <3>1. PICK c \in DOMAIN k.con, m \in 1..2 :
            \E i \in De(k.con[c].buf[m], k.con[c].nodo[m], p) : x = <<c, m, i>>
      BY <2>1, SobresEs
    <3>2. /\ c \in DOMAIN h.con /\ h.con[c].buf[m] = k.con[c].buf[m]
          /\ h.con[c].nodo[m] = k.con[c].nodo[m]
      BY DEF Iguales
    <3> QED
      BY <3>1, <3>2, SobresEs
  <2>2. ASSUME NEW x \in EnSobres(h, p)
        PROVE  x \in EnSobres(k, p)
    <3>1. PICK c \in DOMAIN h.con, m \in 1..2 :
            \E i \in De(h.con[c].buf[m], h.con[c].nodo[m], p) : x = <<c, m, i>>
      BY <2>2, SobresEs
    <3>2. h.con[c].buf[m] # <<>>
      BY <3>1 DEF De
    <3>3. /\ c \in DOMAIN k.con /\ h.con[c].buf[m] = k.con[c].buf[m]
          /\ h.con[c].nodo[m] = k.con[c].nodo[m]
      BY <3>2 DEF Iguales
    <3> QED
      BY <3>1, <3>3, SobresEs
  <2> QED
    BY <2>1, <2>2
<1>2. /\ IsABag(h.perdidos)
      /\ \A p : /\ Copias(p, h.perdidos) = Copias(p, k.perdidos) + Copias(p, b)
                /\ Copias(p, b) \in Nat
  <2>1. IsABag(k.perdidos)
    BY DEF LetrasBien
  <2> QED
    BY <2>1, Bolsas
<1>3. LetrasBien(h)
  BY <1>1, <1>2 DEF LetrasBien
<1>4. ASSUME NEW p
      PROVE  Total(h, p) = Total(k, p) + Copias(p, b)
  <2>1. /\ Copias(p, k.perdidos) \in Nat /\ Cardinality(EnSobres(k, p)) \in Nat
        /\ Copias(p, b) \in Nat
    BY <1>2, TotalBien
  <2> QED
    BY <1>1, <1>2, <2>1 DEF Total
<1> QED
  BY <1>3, <1>4

LEMMA CuentaConecta ==
  ASSUME NEW S, NEW V, NEW L, NEW k, RedBien(S, V, L, k), LetrasBien(k),
         NEW n \in Node, n \in Compradores, NEW m \in Node \ Compradores, V[n], V[m],
         NEW h, h = Conecta(k, n, m)
  PROVE  Mismos(k, h)
<1> DEFINE fd == Libre(k, n)
           j == Len(k.con) + 1
<1>1. /\ h.perdidos = k.perdidos /\ Sigue(k, h, L, n)
      /\ j \in DOMAIN h.con /\ h.con[j].buf = <<<<>>, <<>>>>
      /\ \A c \in DOMAIN h.con : c # j => c \in DOMAIN k.con /\ h.con[c] = k.con[c]
  BY ConectaBien
<1>2. j \notin DOMAIN k.con
  <2>1. EsSeq(k.con)
    BY DEF RedBien, SocketsOK
  <2>2. Len(k.con) \in Nat /\ DOMAIN k.con = 1..Len(k.con)
    BY <2>1, SeqAppend
  <2> QED
    BY <2>2
<1> HIDE DEF j
<1>3. \A m_1 \in 1..2 : h.con[j].buf[m_1] = <<>>
  BY <1>1
<1>4. Iguales(k, h)
  BY <1>1, <1>2, <1>3 DEF Iguales, Sigue
<1>5. h.perdidos = k.perdidos (+) EmptyBag
  BY <1>1, BolsaVacia DEF LetrasBien
<1> QED
  BY <1>4, <1>5, BolsaVacia, CuentaIgual, TotalBien DEF Mismos

LEMMA CuentaAcepta ==
  ASSUME NEW S, NEW V, NEW L, NEW k, RedBien(S, V, L, k), LetrasBien(k),
         NEW n \in Node, NEW h, h = Acepta(k, n)
  PROVE  Mismos(k, h)
<1> DEFINE c == Min(Cola(k, n))
<1>1. {"fds", "con", "perdidos"} \subseteq DOMAIN k
  BY DEF RedBien, SocketsOK
<1>2. h.con = [k.con EXCEPT ![c].nueva = FALSE] /\ h.perdidos = k.perdidos
  BY <1>1 DEF Acepta
<1> HIDE DEF c
<1>3. Iguales(k, h)
  BY <1>2 DEF Iguales
<1>4. h.perdidos = k.perdidos (+) EmptyBag
  BY <1>2, BolsaVacia DEF LetrasBien
<1> QED
  BY <1>3, <1>4, BolsaVacia, CuentaIgual, TotalBien DEF Mismos

LEMMA PuntaSeq ==
  ASSUME NEW S, NEW V, NEW L, NEW k, RedBien(S, V, L, k), NEW n \in Node,
         NEW fd, Conectado(k, n, fd), NEW j, j = Punta(k, n, fd).con,
         NEW l, l = Punta(k, n, fd).lado
  PROVE  /\ j \in DOMAIN k.con /\ l \in 1..2 /\ 3 - l \in 1..2 /\ 3 - l # l
         /\ k.con[j].nodo[l] = n /\ k.con[j].nodo[3 - l] \in Node
         /\ EsSeq(k.con[j].buf[l]) /\ EsSeq(k.con[j].buf[3 - l])
         /\ k.con[j].buf = [x \in 1..2 |-> k.con[j].buf[x]]
         /\ {"nodo", "buf", "ve", "nueva", "rst"} \subseteq DOMAIN k.con[j]
<1>1. EsPunta(S, V, L, k, n, j, l)
  BY PuntaEs
<1>2. /\ j \in DOMAIN k.con /\ l \in 1..2 /\ k.con[j].nodo[l] = n
      /\ ConexionBien(S, V, L, j, k.con[j])
  BY <1>1 DEF EsPunta
<1>3. 3 - l \in 1..2 /\ 3 - l # l
  BY <1>2
<1>4. /\ k.con[j].nodo \in [1..2 -> Node] /\ LadoBien(S, V, k.con[j], 1)
      /\ LadoBien(S, V, k.con[j], 2) /\ k.con[j].buf = [x \in 1..2 |-> k.con[j].buf[x]]
      /\ {"nodo", "buf", "ve", "nueva", "rst"} \subseteq DOMAIN k.con[j]
  BY <1>2 DEF ConexionBien, ConexionOK
<1>5. \A x \in 1..2 : EsSeq(k.con[j].buf[x]) /\ k.con[j].nodo[x] \in Node
  <2>1. EsSeq(k.con[j].buf[1]) /\ EsSeq(k.con[j].buf[2])
    BY <1>4 DEF LadoBien
  <2>2. \A x \in 1..2 : x = 1 \/ x = 2
    OBVIOUS
  <2> QED
    BY <1>4, <2>1, <2>2
<1> QED
  BY <1>2, <1>3, <1>4, <1>5

LEMMA CuentaLee ==
  ASSUME NEW S, NEW V, NEW L, NEW k, RedBien(S, V, L, k), LetrasBien(k),
         NEW n \in Node, NEW fd, RecvDato(k, n, fd), NEW h
  PROVE  /\ h = Lee(k, n, fd) =>
              /\ LetrasBien(h)
              /\ \A p : Total(h, p) + Cardinality(De(<<Recibido(k, n, fd)[1]>>, n, p))
                          = Total(k, p)
         /\ h = Descarta(k, n, fd) => Mismos(k, h)
<1> DEFINE j == Punta(k, n, fd).con
           l == Punta(k, n, fd).lado
           s == Recibido(k, n, fd)
<1>1. Conectado(k, n, fd) /\ s # <<>> /\ s = k.con[j].buf[l]
  BY DEF RecvDato, Recibido
<1>2. /\ j \in DOMAIN k.con /\ l \in 1..2 /\ k.con[j].nodo[l] = n /\ EsSeq(k.con[j].buf[l])
      /\ k.con[j].buf = [x \in 1..2 |-> k.con[j].buf[x]]
      /\ {"nodo", "buf", "ve", "nueva", "rst"} \subseteq DOMAIN k.con[j]
  BY <1>1, PuntaSeq
<1>3. {"fds", "con", "perdidos"} \subseteq DOMAIN k
  BY DEF RedBien, SocketsOK
<1>4. EsSeq(<<>>) /\ EsSeq(s) /\ EsSeq(Tail(s))
  BY <1>1, <1>2, SeqCortas, SeqTail
<1>5. ASSUME h.con = [k.con EXCEPT ![j].buf[l] = <<>>]
      PROVE  Cambian(k, h, j, l) /\ h.con[j].buf[l] = <<>>
  <2> HIDE DEF j, l, s
  <2> QED
    BY <1>2, <1>5 DEF Cambian
<1>6. ASSUME h = Lee(k, n, fd)
      PROVE  /\ LetrasBien(h)
             /\ \A p : Total(h, p) + Cardinality(De(<<s[1]>>, n, p)) = Total(k, p)
  <2>1. /\ h.con = [k.con EXCEPT ![j].buf[l] = <<>>]
        /\ h.perdidos = k.perdidos (+) Cartas(Tail(s), n)
    BY <1>3, <1>6 DEF Lee
  <2> HIDE DEF j, l, s
  <2>2. /\ IsABag(Cartas(Tail(s), n))
        /\ \A p : Copias(p, Cartas(Tail(s), n)) = Cardinality(De(Tail(s), n, p))
    BY <1>4, CartasEs
  <2>3. /\ LetrasBien(h)
        /\ \A p : Total(h, p) + Cardinality(De(s, n, p))
                    = Total(k, p) + Cardinality(De(<<>>, n, p)) + Cardinality(De(Tail(s), n, p))
    <3>1. /\ LetrasBien(h)
          /\ \A p : Total(h, p) + Cardinality(De(k.con[j].buf[l], n, p))
                     = Total(k, p) + Cardinality(De(h.con[j].buf[l], n, p))
                         + Copias(p, Cartas(Tail(s), n))
      <4> DEFINE b == Cartas(Tail(s), n)
      <4>1. /\ Cambian(k, h, j, l) /\ n = k.con[j].nodo[l]
           /\ EsSeq(k.con[j].buf[l]) /\ EsSeq(h.con[j].buf[l])
           /\ IsABag(b) /\ h.perdidos = k.perdidos (+) b
        BY <1>2, <1>4, <1>5, <2>1, <2>2
      <4> HIDE DEF b
      <4>2. CuentasUna(k, h, j, l, n, b)
        BY <4>1, CuentaUna
      <4> QED
        BY <4>2 DEF b, CuentasUna
    <3> QED
      BY <1>1, <1>5, <2>1, <2>2, <3>1
  <2>4. ASSUME NEW p
        PROVE  Total(h, p) + Cardinality(De(<<s[1]>>, n, p)) = Total(k, p)
    <3>1. /\ Cardinality(De(s, n, p))
               = Cardinality(De(<<s[1]>>, n, p)) + Cardinality(De(Tail(s), n, p))
          /\ Cardinality(De(<<>>, n, p)) = 0
      BY <1>1, <1>4, DeTail, DeUno
    <3>2. /\ Cardinality(De(Tail(s), n, p)) \in Nat /\ Total(h, p) \in Nat
          /\ Total(k, p) \in Nat /\ Cardinality(De(<<s[1]>>, n, p)) \in Nat
      <4>1. EsSeq(<<s[1]>>)
        BY SeqCortas
      <4> QED
        BY <1>4, <2>3, <4>1, DeFinito, TotalBien
    <3> QED
      BY <2>3, <3>1, <3>2
  <2> QED
    BY <2>3, <2>4
<1>7. ASSUME h = Descarta(k, n, fd)
      PROVE  Mismos(k, h)
  <2>1. /\ h.con = [k.con EXCEPT ![j].buf[l] = <<>>]
        /\ h.perdidos = k.perdidos (+) Cartas(s, n)
    BY <1>3, <1>7 DEF Descarta
  <2> HIDE DEF j, l, s
  <2>2. /\ IsABag(Cartas(s, n))
        /\ \A p : Copias(p, Cartas(s, n)) = Cardinality(De(s, n, p))
    BY <1>4, CartasEs
  <2>3. /\ LetrasBien(h)
        /\ \A p : Total(h, p) + Cardinality(De(k.con[j].buf[l], n, p))
                   = Total(k, p) + Cardinality(De(h.con[j].buf[l], n, p))
                       + Copias(p, Cartas(s, n))
    <3> DEFINE b == Cartas(s, n)
    <3>1. /\ Cambian(k, h, j, l) /\ n = k.con[j].nodo[l]
         /\ EsSeq(k.con[j].buf[l]) /\ EsSeq(h.con[j].buf[l])
         /\ IsABag(b) /\ h.perdidos = k.perdidos (+) b
      BY <1>2, <1>4, <1>5, <2>1, <2>2
    <3> HIDE DEF b
    <3>2. CuentasUna(k, h, j, l, n, b)
      BY <3>1, CuentaUna
    <3> QED
      BY <3>2 DEF b, CuentasUna
  <2>4. ASSUME NEW p
        PROVE  Total(h, p) = Total(k, p)
    <3>1. /\ Total(h, p) \in Nat /\ Total(k, p) \in Nat
          /\ Cardinality(De(s, n, p)) \in Nat /\ Cardinality(De(<<>>, n, p)) = 0
      BY <1>4, <2>3, DeFinito, TotalBien, DeUno
    <3> QED
      BY <1>1, <1>5, <2>1, <2>2, <2>3, <3>1
  <2> QED
    BY <2>3, <2>4 DEF Mismos
<1> QED
  BY <1>6, <1>7

(* A sent datum is in the buffer of the other end, or lost.                *)
LEMMA CuentaEnvia ==
  ASSUME NEW S, NEW V, NEW L, NEW k, RedBien(S, V, L, k), LetrasBien(k),
         NEW n \in Node, NEW fd, NEW d, NEW h, h = Envia(k, n, fd, d)
  PROVE  /\ ~Conectado(k, n, fd) => Mismos(k, h)
         /\ Conectado(k, n, fd) =>
              LET o == k.con[Punta(k, n, fd).con].nodo[3 - Punta(k, n, fd).lado]
              IN  /\ LetrasBien(h)
                  /\ \A p : Total(h, p) = Total(k, p) + Cardinality(De(<<d>>, o, p))
<1>1. CASE ~Conectado(k, n, fd)
  BY <1>1 DEF Envia, Mismos
<1>2. CASE Conectado(k, n, fd)
  <2> DEFINE j == Punta(k, n, fd).con
             l == Punta(k, n, fd).lado
             a == 3 - l
             o == k.con[j].nodo[a]
  <2>1. /\ j \in DOMAIN k.con /\ l \in 1..2 /\ a \in 1..2 /\ a # l
        /\ k.con[j].nodo[l] = n /\ EsSeq(k.con[j].buf[a])
        /\ k.con[j].buf = [x \in 1..2 |-> k.con[j].buf[x]]
        /\ {"nodo", "buf", "ve", "nueva", "rst"} \subseteq DOMAIN k.con[j]
    BY <1>2, PuntaSeq
  <2>2. {"fds", "con", "perdidos"} \subseteq DOMAIN k
    BY DEF RedBien, SocketsOK
  <2>3. \/ /\ h.con = [k.con EXCEPT ![j].buf[a] = Append(@, d)]
           /\ h.perdidos = k.perdidos
        \/ /\ h.con = [k.con EXCEPT ![j].ve[l] = "roto"]
           /\ h.perdidos = k.perdidos (+) Cartas(<<d>>, o)
    BY <1>2, <2>2 DEF Envia, Ve
  <2> HIDE DEF j, l, a, o
  <2>4. CASE /\ h.con = [k.con EXCEPT ![j].buf[a] = Append(@, d)]
             /\ h.perdidos = k.perdidos
    <3> DEFINE t == Append(k.con[j].buf[a], d)
    <3>1. EsSeq(t)
      BY <2>1, SeqAppend
    <3>2. /\ Cambian(k, h, j, a) /\ h.con[j].buf[a] = t
      <4> HIDE DEF t
      <4>1. h.con = [k.con EXCEPT ![j].buf[a] = t]
        BY <2>4 DEF t
      <4> QED
        BY <2>1, <4>1 DEF Cambian
    <3>3. IsABag(EmptyBag) /\ h.perdidos = k.perdidos (+) EmptyBag
      BY <2>4, BolsaVacia DEF LetrasBien
    <3>4. /\ LetrasBien(h)
          /\ \A p : Total(h, p) + Cardinality(De(k.con[j].buf[a], o, p))
                     = Total(k, p) + Cardinality(De(h.con[j].buf[a], o, p))
                         + Copias(p, EmptyBag)
      <4> DEFINE b == EmptyBag
      <4>1. /\ Cambian(k, h, j, a) /\ o = k.con[j].nodo[a]
            /\ EsSeq(k.con[j].buf[a]) /\ EsSeq(h.con[j].buf[a])
            /\ IsABag(b) /\ h.perdidos = k.perdidos (+) b
        BY <2>1, <3>1, <3>2, <3>3 DEF o
      <4> HIDE DEF b, t
      <4>2. CuentasUna(k, h, j, a, o, b)
        BY <4>1, CuentaUna
      <4> QED
        BY <4>2 DEF b, CuentasUna
    <3>5. ASSUME NEW p
          PROVE  Total(h, p) = Total(k, p) + Cardinality(De(<<d>>, o, p))
      <4>1. /\ Copias(p, EmptyBag) = 0
            /\ Total(h, p) \in Nat /\ Total(k, p) \in Nat
        BY <3>4, BolsaVacia, TotalBien
      <4>2. /\ Cardinality(De(k.con[j].buf[a], o, p)) \in Nat
            /\ Cardinality(De(<<d>>, o, p)) \in Nat
            /\ Cardinality(De(t, o, p))
                 = Cardinality(De(k.con[j].buf[a], o, p)) + Cardinality(De(<<d>>, o, p))
        <5>1. EsSeq(<<d>>)
          BY SeqCortas
        <5> QED
          BY <2>1, <5>1, DeFinito, DeAppend
      <4> HIDE DEF t
      <4> QED
        BY <3>2, <3>4, <4>1, <4>2
    <3> QED
      BY <1>2, <3>4, <3>5 DEF j, l, a, o
  <2>5. CASE /\ h.con = [k.con EXCEPT ![j].ve[l] = "roto"]
             /\ h.perdidos = k.perdidos (+) Cartas(<<d>>, o)
    <3>1. Iguales(k, h)
      BY <2>1, <2>5 DEF Iguales
    <3>2. /\ IsABag(Cartas(<<d>>, o))
          /\ \A p : Copias(p, Cartas(<<d>>, o)) = Cardinality(De(<<d>>, o, p))
      <4>1. EsSeq(<<d>>)
        BY SeqCortas
      <4> QED
        BY <4>1, CartasEs
    <3>3. LetrasBien(h) /\ \A p : Total(h, p) = Total(k, p) + Copias(p, Cartas(<<d>>, o))
      BY <2>5, <3>1, <3>2, CuentaIgual
    <3> QED
      BY <1>2, <3>2, <3>3 DEF j, l, a, o
  <2> QED
    BY <2>3, <2>4, <2>5
<1> QED
  BY <1>1, <1>2

LEMMA CuentaCierra ==
  ASSUME NEW S, NEW V, NEW L, NEW k, RedBien(S, V, L, k), LetrasBien(k),
         NEW n \in Node, NEW fd, NEW h, h = Cierra(k, n, fd)
  PROVE  Mismos(k, h)
<1>1. CASE ~Conectado(k, n, fd)
  BY <1>1 DEF Cierra, Mismos
<1>2. CASE Conectado(k, n, fd)
  <2> DEFINE j == Punta(k, n, fd).con
             l == Punta(k, n, fd).lado
             s == Recibido(k, n, fd)
             r == CierraLado(k.con[j], l)
             b == Cartas(s, n)
  <2>1. /\ j \in DOMAIN k.con /\ l \in 1..2 /\ 3 - l \in 1..2 /\ 3 - l # l
        /\ k.con[j].nodo[l] = n /\ EsSeq(k.con[j].buf[l])
        /\ k.con[j].buf = [x \in 1..2 |-> k.con[j].buf[x]]
        /\ {"nodo", "buf", "ve", "nueva", "rst"} \subseteq DOMAIN k.con[j]
    BY <1>2, PuntaSeq
  <2>2. {"fds", "con", "perdidos"} \subseteq DOMAIN k
    BY DEF RedBien, SocketsOK
  <2>3. /\ h.con = [k.con EXCEPT ![j] = r] /\ h.perdidos = k.perdidos (+) b
        /\ s = k.con[j].buf[l]
    BY <1>2, <2>2 DEF Cierra, Recibido
  <2>4. /\ r.nodo = k.con[j].nodo /\ r.buf[l] = <<>>
        /\ \A x \in 1..2 : x # l => r.buf[x] = k.con[j].buf[x]
    <3> HIDE DEF j, l
    <3> QED
      BY <2>1 DEF CierraLado
  <2> HIDE DEF j, l, s, r
  <2>5. EsSeq(<<>>)
    BY SeqCortas
  <2>6. /\ IsABag(b)
        /\ \A p : Copias(p, b) = Cardinality(De(s, n, p))
    BY <2>1, <2>3, CartasEs
  <2> HIDE DEF b
  <2>7. Cambian(k, h, j, l) /\ h.con[j].buf[l] = <<>>
    BY <2>1, <2>3, <2>4 DEF Cambian
  <2>8. /\ LetrasBien(h)
        /\ \A p : Total(h, p) + Cardinality(De(k.con[j].buf[l], n, p))
                   = Total(k, p) + Cardinality(De(h.con[j].buf[l], n, p)) + Copias(p, b)
    <3>1. /\ Cambian(k, h, j, l) /\ n = k.con[j].nodo[l]
          /\ EsSeq(k.con[j].buf[l]) /\ EsSeq(h.con[j].buf[l])
          /\ IsABag(b) /\ h.perdidos = k.perdidos (+) b
      BY <2>1, <2>3, <2>5, <2>6, <2>7
    <3>2. CuentasUna(k, h, j, l, n, b)
      BY <3>1, CuentaUna
    <3> QED
      BY <3>2 DEF CuentasUna
  <2>9. ASSUME NEW p
        PROVE  Total(h, p) = Total(k, p)
    <3>1. /\ Total(h, p) \in Nat /\ Total(k, p) \in Nat
          /\ Cardinality(De(s, n, p)) \in Nat /\ Cardinality(De(<<>>, n, p)) = 0
      BY <2>1, <2>3, <2>8, DeFinito, TotalBien, DeUno
    <3> QED
      BY <2>3, <2>6, <2>7, <2>8, <3>1
  <2> QED
    BY <2>8, <2>9 DEF Mismos
<1> QED
  BY <1>1, <1>2

(* Induction, with a set for the predicate.                                *)
LEMMA Escalera ==
  ASSUME NEW N \in Nat, NEW G, 0 \in G, \A i \in 0..N : i # N /\ i \in G => i + 1 \in G
  PROVE  0..N \subseteq G
<1> DEFINE M == (0..N) \ G
<1>1. SUFFICES ASSUME M # {}
               PROVE  FALSE
  OBVIOUS
<1> DEFINE m == Min(M)
<1>2. M \in SUBSET Nat
  OBVIOUS
<1>3. m \in M /\ \A x \in M : m <= x
  <2> HIDE DEF M
  <2> QED
    BY <1>1, <1>2, Minimo
<1> HIDE DEF m
<1>4. m - 1 \in 0..N /\ m - 1 # N /\ m - 1 \notin M
  BY <1>3
<1> QED
  BY <1>3, <1>4

(* The function that SinAvisos(q) chooses: what is left of each prefix.    *)
EsFiltro(q, f) ==
  f = [i \in 0..Len(q) |->
         IF i = 0 THEN <<>>
         ELSE IF q[i].id \in RouterId THEN Append(f[i - 1], q[i]) ELSE f[i - 1]]

LEMMA FiltroEs ==
  ASSUME NEW q, EsSeq(q)
  PROVE  \E f : EsFiltro(q, f) /\ SinAvisos(q) = f[Len(q)]
<1> DEFINE Es(f, m) ==
             f = [i \in 0..m |->
                    IF i = 0 THEN <<>>
                    ELSE IF q[i].id \in RouterId THEN Append(f[i - 1], q[i]) ELSE f[i - 1]]
           N == Len(q)
           G == {m \in 0..N : \E f : Es(f, m)}
<1>1. N \in Nat
  BY SeqAppend
<1> HIDE DEF N
<1>2. 0 \in G
  <2> DEFINE f == [i \in 0..0 |-> <<>>]
  <2>1. Es(f, 0)
    OBVIOUS
  <2> HIDE DEF Es, f
  <2> QED
    BY <1>1, <2>1
<1>3. ASSUME NEW m \in 0..N, m # N, m \in G
      PROVE  m + 1 \in G
  <2>1. PICK f : Es(f, m)
    BY <1>3
  <2> DEFINE v == IF q[m + 1].id \in RouterId THEN Append(f[m], q[m + 1]) ELSE f[m]
             g == [i \in 0..(m + 1) |-> IF i = m + 1 THEN v ELSE f[i]]
  <2>2. Es(g, m + 1)
    <3>1. ASSUME NEW i \in 0..(m + 1)
          PROVE  g[i] = IF i = 0 THEN <<>>
                        ELSE IF q[i].id \in RouterId THEN Append(g[i - 1], q[i]) ELSE g[i - 1]
      <4>1. CASE i = m + 1
        <5>1. i # 0 /\ i - 1 = m /\ m \in 0..(m + 1) /\ m # m + 1
          BY <1>1, <4>1
        <5>2. g[i] = v /\ g[i - 1] = f[m]
          BY <4>1, <5>1
        <5> QED
          BY <4>1, <5>1, <5>2
      <4>2. CASE i # m + 1 /\ i # 0
        <5>1. i \in 0..m /\ i - 1 \in 0..m /\ i - 1 \in 0..(m + 1) /\ i - 1 # m + 1
          BY <1>1, <4>2
        <5>2. g[i] = f[i] /\ g[i - 1] = f[i - 1]
          BY <4>2, <5>1
        <5>3. f[i] = IF q[i].id \in RouterId THEN Append(f[i - 1], q[i]) ELSE f[i - 1]
          BY <2>1, <4>2, <5>1
        <5> HIDE DEF g, Es
        <5> QED
          BY <4>2, <5>2, <5>3
      <4>3. CASE i = 0
        <5>1. 0 # m + 1 /\ 0 \in 0..m
          BY <1>1
        <5>2. f[0] = <<>>
          BY <2>1, <5>1
        <5> QED
          BY <4>3, <5>1, <5>2
      <4> QED
        BY <4>1, <4>2, <4>3
    <3>2. g = [i \in 0..(m + 1) |-> g[i]]
      OBVIOUS
    <3> HIDE DEF g
    <3> QED
      BY <3>1, <3>2
  <2>3. m + 1 \in 0..N
    BY <1>1, <1>3
  <2> HIDE DEF Es, g
  <2> QED
    BY <2>2, <2>3
<1>4. N \in G
  <2>1. 0..N \subseteq G
    <3> HIDE DEF G
    <3> QED
      BY <1>1, <1>2, <1>3, Escalera
  <2>2. N \in 0..N
    BY <1>1
  <2> HIDE DEF G
  <2> QED
    BY <2>1, <2>2
<1>5. \E f : EsFiltro(q, f)
  BY <1>4 DEF EsFiltro, N
<1> DEFINE F == CHOOSE f : EsFiltro(q, f)
<1>6. EsFiltro(q, F)
  <2> HIDE DEF Es
  <2> QED
    BY <1>5
<1>7. SinAvisos(q) = F[Len(q)]
  BY DEF SinAvisos, EsFiltro
<1> QED
  BY <1>6, <1>7

LEMMA FiltroPaso ==
  ASSUME NEW q, EsSeq(q), NEW N \in Nat, N = Len(q), NEW f, EsFiltro(q, f)
  PROVE  /\ f[0] = <<>>
         /\ \A i \in 1..N : f[i] = IF q[i].id \in RouterId THEN Append(f[i - 1], q[i])
                                   ELSE f[i - 1]
         /\ \A i \in 0..N : EsSeq(f[i])
<1>1. f = [i \in 0..N |->
             IF i = 0 THEN <<>>
             ELSE IF q[i].id \in RouterId THEN Append(f[i - 1], q[i]) ELSE f[i - 1]]
  BY DEF EsFiltro
<1>2. f[0] = <<>>
  BY <1>1
<1>3. ASSUME NEW i \in 1..N
      PROVE  f[i] = IF q[i].id \in RouterId THEN Append(f[i - 1], q[i]) ELSE f[i - 1]
  <2>1. i \in 0..N /\ i # 0
    OBVIOUS
  <2> QED
    BY <1>1, <2>1
<1> DEFINE G == {i \in 0..N : EsSeq(f[i])}
<1>4. 0 \in G
  BY <1>2, SeqCortas
<1>5. ASSUME NEW i \in 0..N, i # N, i \in G
      PROVE  i + 1 \in G
  <2>1. i + 1 \in 1..N /\ (i + 1) - 1 = i /\ i + 1 \in 0..N
    BY <1>5
  <2>2. EsSeq(f[i + 1])
    BY <1>3, <1>5, <2>1, SeqAppend
  <2> QED
    BY <2>1, <2>2
<1>6. 0..N \subseteq G
  <2> HIDE DEF G
  <2> QED
    BY <1>4, <1>5, Escalera
<1> QED
  BY <1>2, <1>3, <1>6

LEMMA FiltroUnico ==
  ASSUME NEW q, EsSeq(q), NEW f, EsFiltro(q, f),
         NEW t, EsSeq(t), NEW g, EsFiltro(t, g),
         NEW M \in Nat, M <= Len(q), M <= Len(t), \A i \in 1..M : q[i] = t[i]
  PROVE  f[M] = g[M]
<1>1. Len(q) \in Nat /\ Len(t) \in Nat
  BY SeqAppend
<1>2. /\ f[0] = <<>> /\ g[0] = <<>>
      /\ \A i \in 1..Len(q) : f[i] = IF q[i].id \in RouterId THEN Append(f[i - 1], q[i])
                                     ELSE f[i - 1]
      /\ \A i \in 1..Len(t) : g[i] = IF t[i].id \in RouterId THEN Append(g[i - 1], t[i])
                                     ELSE g[i - 1]
  BY <1>1, FiltroPaso
<1> DEFINE G == {i \in 0..M : f[i] = g[i]}
<1>3. 0 \in G
  BY <1>2
<1>4. ASSUME NEW i \in 0..M, i # M, i \in G
      PROVE  i + 1 \in G
  <2> DEFINE a == Len(q)
             b == Len(t)
  <2>1. i + 1 \in 1..a /\ i + 1 \in 1..b /\ (i + 1) - 1 = i /\ i + 1 \in 1..M
        /\ i + 1 \in 0..M
    <3>1. a \in Nat /\ b \in Nat /\ M <= a /\ M <= b
      BY <1>1
    <3> HIDE DEF a, b
    <3> QED
      BY <1>4, <3>1
  <2>2. f[i + 1] = g[i + 1]
    BY <1>2, <1>4, <2>1
  <2> QED
    BY <2>1, <2>2
<1>5. 0..M \subseteq G
  <2> HIDE DEF G
  <2> QED
    BY <1>3, <1>4, Escalera
<1> QED
  BY <1>5

LEMMA SinAvisosAppend ==
  ASSUME NEW q, EsSeq(q), NEW e
  PROVE  /\ SinAvisos(<<>>) = <<>> /\ EsSeq(SinAvisos(q))
         /\ SinAvisos(Append(q, e)) =
              IF e.id \in RouterId THEN Append(SinAvisos(q), e) ELSE SinAvisos(q)
<1> DEFINE t == Append(q, e)
           N == Len(q)
<1>1. /\ N \in Nat /\ EsSeq(t) /\ Len(t) = N + 1 /\ t[N + 1] = e
      /\ \A i \in 1..N : q[i] = t[i]
  BY SeqAppend
<1>2. PICK f : EsFiltro(q, f) /\ SinAvisos(q) = f[N]
  BY FiltroEs
<1>3. PICK g : EsFiltro(t, g) /\ SinAvisos(t) = g[Len(t)]
  BY <1>1, FiltroEs
<1> HIDE DEF t, N
<1>4. f[N] = g[N]
  <2>1. N <= Len(q) /\ N <= Len(t)
    BY <1>1 DEF N
  <2> QED
    BY <1>1, <1>2, <1>3, <2>1, FiltroUnico
<1>5. g[N + 1] = IF t[N + 1].id \in RouterId THEN Append(g[N], t[N + 1]) ELSE g[N]
  <2>1. N + 1 \in Nat /\ N + 1 \in 1..(N + 1) /\ (N + 1) - 1 = N
    BY <1>1
  <2>2. \A i \in 1..(N + 1) : g[i] = IF t[i].id \in RouterId THEN Append(g[i - 1], t[i])
                                     ELSE g[i - 1]
    BY <1>1, <1>3, <2>1, FiltroPaso
  <2> QED
    BY <2>1, <2>2
<1>6. EsSeq(SinAvisos(q))
  <2>1. N = Len(q) /\ N \in 0..N
    BY <1>1 DEF N
  <2> QED
    BY <1>1, <1>2, <2>1, FiltroPaso
<1>7. SinAvisos(<<>>) = <<>>
  <2>1. EsSeq(<<>>) /\ Len(<<>>) = 0
    BY SeqCortas
  <2>2. PICK h : EsFiltro(<<>>, h) /\ SinAvisos(<<>>) = h[Len(<<>>)]
    BY <2>1, FiltroEs
  <2> QED
    BY <2>1, <2>2, FiltroPaso
<1> QED
  BY <1>1, <1>2, <1>3, <1>4, <1>5, <1>6, <1>7 DEF t

LEMMA TailAppend ==
  ASSUME NEW s, EsSeq(s), NEW e
  PROVE  /\ Append(s, e) # <<>>
         /\ s # <<>> => Head(Append(s, e)) = Head(s) /\ Tail(Append(s, e)) = Append(Tail(s), e)
         /\ s = <<>> => Head(Append(s, e)) = e /\ Tail(Append(s, e)) = <<>>
<1>1. PICK S : s \in Seq(S)
  BY DEF EsSeq
<1>2. s \in Seq(S \cup {e}) /\ Append(s, e) \in Seq(S \cup {e})
  BY <1>1
<1>3. Append(s, e) # <<>> /\ Len(Append(s, e)) = Len(s) + 1
  BY <1>2
<1>4. ASSUME s # <<>>
      PROVE  Head(Append(s, e)) = Head(s) /\ Tail(Append(s, e)) = Append(Tail(s), e)
  BY <1>2, <1>4
<1>5. ASSUME s = <<>>
      PROVE  Head(Append(s, e)) = e /\ Tail(Append(s, e)) = <<>>
  BY <1>2, <1>5
<1> QED
  BY <1>3, <1>4, <1>5

LEMMA SinAvisosTail ==
  ASSUME NEW q, EsSeq(q), q # <<>>
  PROVE  /\ Head(q).id \in RouterId =>
              /\ SinAvisos(q) # <<>> /\ Head(SinAvisos(q)) = Head(q)
              /\ SinAvisos(Tail(q)) = Tail(SinAvisos(q))
         /\ Head(q).id \notin RouterId => SinAvisos(Tail(q)) = SinAvisos(q)
<1> DEFINE t == Tail(q)
           N == Len(t)
<1>1. EsSeq(t) /\ N \in Nat /\ Len(q) = N + 1 /\ Head(q) = q[1]
      /\ \A i \in 1..N : t[i] = q[i + 1]
  <2>1. PICK S : q \in Seq(S)
    BY DEF EsSeq
  <2> QED
    BY <2>1 DEF EsSeq
<1>2. PICK f : EsFiltro(q, f) /\ SinAvisos(q) = f[Len(q)]
  BY FiltroEs
<1>3. PICK g : EsFiltro(t, g) /\ SinAvisos(t) = g[N]
  BY <1>1, FiltroEs
<1>4. /\ f[0] = <<>> /\ g[0] = <<>>
      /\ \A i \in 1..(N + 1) : f[i] = IF q[i].id \in RouterId THEN Append(f[i - 1], q[i])
                                     ELSE f[i - 1]
      /\ \A i \in 1..N : g[i] = IF t[i].id \in RouterId THEN Append(g[i - 1], t[i])
                                     ELSE g[i - 1]
      /\ \A i \in 0..(N + 1) : EsSeq(f[i])
  <2>1. N + 1 \in Nat /\ N + 1 = Len(q)
    BY <1>1
  <2>2. /\ f[0] = <<>>
        /\ \A i \in 1..(N + 1) : f[i] = IF q[i].id \in RouterId THEN Append(f[i - 1], q[i])
                                     ELSE f[i - 1]
        /\ \A i \in 0..(N + 1) : EsSeq(f[i])
    BY <1>2, <2>1, FiltroPaso
  <2>3. /\ g[0] = <<>>
        /\ \A i \in 1..N : g[i] = IF t[i].id \in RouterId THEN Append(g[i - 1], t[i])
                                     ELSE g[i - 1]
    BY <1>1, <1>3, FiltroPaso
  <2> QED
    BY <2>2, <2>3
<1> HIDE DEF t, N
<1> DEFINE Bien(u, v) ==
             IF Head(q).id \in RouterId THEN u # <<>> /\ Head(u) = Head(q) /\ Tail(u) = v
             ELSE u = v
           G == {i \in 0..N : Bien(f[i + 1], g[i])}
<1>5. 0 \in G
  <2>1. 1 \in 1..(N + 1) /\ 1 - 1 = 0 /\ 0 \in 0..N /\ 0 + 1 = 1
    BY <1>1
  <2>2. f[1] = IF q[1].id \in RouterId THEN Append(<<>>, q[1]) ELSE <<>>
    BY <1>4, <2>1
  <2>3. Bien(f[1], g[0])
    BY <1>1, <1>4, <2>2, TailAppend, SeqCortas
  <2> HIDE DEF Bien
  <2> QED
    BY <2>1, <2>3
<1>6. ASSUME NEW i \in 0..N, i # N, i \in G
      PROVE  i + 1 \in G
  <2>1. /\ i + 1 \in 1..N /\ (i + 1) - 1 = i /\ (i + 1) + 1 \in 1..(N + 1)
        /\ ((i + 1) + 1) - 1 = i + 1 /\ i + 1 \in 0..N /\ i + 1 \in 0..(N + 1)
    BY <1>1, <1>6
  <2> DEFINE e == q[(i + 1) + 1]
  <2>2. /\ f[(i + 1) + 1] = IF e.id \in RouterId THEN Append(f[i + 1], e) ELSE f[i + 1]
        /\ g[i + 1] = IF e.id \in RouterId THEN Append(g[i], e) ELSE g[i]
        /\ EsSeq(f[i + 1])
    BY <1>1, <1>4, <2>1
  <2>3. Bien(f[i + 1], g[i])
    BY <1>6
  <2> HIDE DEF e
  <2>4. Bien(f[(i + 1) + 1], g[i + 1])
    <3> DEFINE u == f[i + 1]
    <3>1. CASE e.id \in RouterId
      <4>1. f[(i + 1) + 1] = Append(u, e) /\ g[i + 1] = Append(g[i], e) /\ EsSeq(u)
        BY <2>2, <3>1
      <4> HIDE DEF u
      <4>2. Bien(u, g[i])
        BY <2>3 DEF u
      <4> QED
        BY <4>1, <4>2, TailAppend
    <3>2. CASE e.id \notin RouterId
      <4>1. f[(i + 1) + 1] = f[i + 1] /\ g[i + 1] = g[i]
        BY <2>2, <3>2
      <4> HIDE DEF Bien
      <4> QED
        BY <2>3, <4>1
    <3> QED
      BY <3>1, <3>2
  <2> HIDE DEF Bien
  <2> QED
    BY <2>1, <2>4
<1>7. N \in G
  <2>1. 0..N \subseteq G
    <3> HIDE DEF G
    <3> QED
      BY <1>1, <1>5, <1>6, Escalera
  <2>2. N \in 0..N
    BY <1>1
  <2> HIDE DEF G
  <2> QED
    BY <2>1, <2>2
<1>8. Bien(SinAvisos(q), SinAvisos(Tail(q)))
  <2>1. Bien(f[N + 1], g[N])
    BY <1>7
  <2> HIDE DEF Bien
  <2> QED
    BY <1>1, <1>2, <1>3, <2>1 DEF t
<1> QED
  BY <1>8

(* The queue of Bazar's Router, when that of the Router gains an event, or *)
(* the first one is done with.                                             *)
LEMMA ColaEs ==
  ASSUME Tipos
  PROVE  /\ \A n \in Node : EsSeq(routerEvents[n])
         /\ routerEvents = [n \in Node |-> routerEvents[n]]
  BY DEF Tipos, Colas, ColaOK

LEMMA DeLogicUno ==
  ASSUME Tipos, NEW n \in Node, NEW q, routerEvents' = [routerEvents EXCEPT ![n] = q]
  PROVE  /\ DeLogic' = [DeLogic EXCEPT ![n] = SinAvisos(q)]
         /\ SinAvisos(q) = SinAvisos(routerEvents[n]) => DeLogic' = DeLogic
<1>1. \A m \in Node : routerEvents'[m] = IF m = n THEN q ELSE routerEvents[m]
  BY ColaEs
<1>2. DeLogic' = [m \in Node |-> SinAvisos(routerEvents'[m])]
  BY DEF DeLogic
<1>3. DeLogic = [m \in Node |-> SinAvisos(routerEvents[m])]
  BY DEF DeLogic
<1>4. \A m \in Node : SinAvisos(routerEvents'[m]) =
                        IF m = n THEN SinAvisos(q) ELSE SinAvisos(routerEvents[m])
  <2>1. ASSUME NEW m \in Node, m = n
        PROVE  SinAvisos(routerEvents'[m]) = SinAvisos(q)
    BY <1>1, <2>1
  <2>2. ASSUME NEW m \in Node, m # n
        PROVE  SinAvisos(routerEvents'[m]) = SinAvisos(routerEvents[m])
    <3>1. routerEvents'[m] = routerEvents[m]
      BY <1>1, <2>2
    <3> QED
      BY <3>1
  <2> QED
    BY <2>1, <2>2
<1> QED
  BY <1>2, <1>3, <1>4

LEMMA DeLogicPostea ==
  ASSUME Tipos, NEW n \in Node, NEW e,
         routerEvents' = [routerEvents EXCEPT ![n] = Append(@, e)]
  PROVE  /\ e.id \in RouterId => DeLogic' = [DeLogic EXCEPT ![n] = Append(@, e)]
         /\ e.id \notin RouterId => DeLogic' = DeLogic
<1> DEFINE s == routerEvents[n]
           q == Append(s, e)
<1>1. routerEvents' = [routerEvents EXCEPT ![n] = q] /\ EsSeq(s)
  BY ColaEs
<1>2. SinAvisos(q) = IF e.id \in RouterId THEN Append(SinAvisos(s), e) ELSE SinAvisos(s)
  BY <1>1, SinAvisosAppend
<1>3. DeLogic[n] = SinAvisos(s)
  BY DEF DeLogic
<1> HIDE DEF q
<1>4. /\ DeLogic' = [DeLogic EXCEPT ![n] = SinAvisos(q)]
      /\ SinAvisos(q) = SinAvisos(routerEvents[n]) => DeLogic' = DeLogic
  BY <1>1, DeLogicUno
<1> QED
  BY <1>2, <1>3, <1>4

LEMMA DeLogicFin ==
  ASSUME Tipos, NEW n \in Node, routerEvents[n] # <<>>, FinRouter(n, <<>>)
  PROVE  /\ Evento(n).id \in RouterId =>
              /\ DeLogic[n] # <<>> /\ Head(DeLogic[n]) = Evento(n)
              /\ DeLogic' = [DeLogic EXCEPT ![n] = Tail(@)]
         /\ Evento(n).id \notin RouterId => DeLogic' = DeLogic
<1> DEFINE s == routerEvents[n]
           q == Tail(s)
<1>1. EsSeq(s) /\ q \o <<>> = q
  BY ColaEs, TailVacio
<1>2. routerEvents' = [routerEvents EXCEPT ![n] = q]
  BY <1>1 DEF FinRouter
<1>3. DeLogic[n] = SinAvisos(s)
  BY DEF DeLogic
<1>4. /\ Head(s).id \in RouterId =>
            /\ SinAvisos(s) # <<>> /\ Head(SinAvisos(s)) = Head(s)
            /\ SinAvisos(q) = Tail(SinAvisos(s))
      /\ Head(s).id \notin RouterId => SinAvisos(q) = SinAvisos(s)
  BY <1>1, SinAvisosTail
<1> HIDE DEF q
<1>5. /\ DeLogic' = [DeLogic EXCEPT ![n] = SinAvisos(q)]
      /\ SinAvisos(q) = SinAvisos(routerEvents[n]) => DeLogic' = DeLogic
  BY <1>2, DeLogicUno
<1> QED
  BY <1>3, <1>4, <1>5 DEF Evento

(* The Listener tells the Router of one that has closed.                   *)
Aviso(s) == s = <<>> \/ \E e : s = <<e>> /\ e.id \notin RouterId

LEMMA AvisoNoCuenta ==
  ASSUME NEW s, EsSeq(s), NEW a, Aviso(a)
  PROVE  EsSeq(s \o a) /\ SinAvisos(s \o a) = SinAvisos(s)
<1>1. CASE a = <<>>
  <2>1. PICK S : s \in Seq(S)
    BY DEF EsSeq
  <2>2. s \o a = s
    BY <1>1, <2>1
  <2> QED
    BY <2>2
<1>2. ASSUME NEW e, a = <<e>>, e.id \notin RouterId
      PROVE  EsSeq(s \o a) /\ SinAvisos(s \o a) = SinAvisos(s)
  <2>1. PICK S : s \in Seq(S)
    BY DEF EsSeq
  <2>2. s \in Seq(S \cup {e}) /\ <<e>> \in Seq(S \cup {e})
    BY <2>1
  <2>3. s \o <<e>> = Append(s, e)
    BY <2>2
  <2>4. EsSeq(Append(s, e)) /\ SinAvisos(Append(s, e)) = SinAvisos(s)
    BY <1>2, SinAvisosAppend, SeqAppend
  <2>5. s \o a = Append(s, e)
    BY <1>2, <2>3
  <2> QED
    BY <2>4, <2>5, Zenon
<1> QED
  BY <1>1, <1>2 DEF Aviso

LEMMA DeLogicAvisa ==
  ASSUME Tipos, NEW n \in Node, NEW a, Aviso(a),
         routerEvents' = [routerEvents EXCEPT ![n] = @ \o a]
  PROVE  DeLogic' = DeLogic
<1> DEFINE s == routerEvents[n]
           q == s \o a
<1>1. EsSeq(s) /\ routerEvents' = [routerEvents EXCEPT ![n] = q]
  BY ColaEs
<1>2. SinAvisos(q) = SinAvisos(s)
  BY <1>1, AvisoNoCuenta
<1> HIDE DEF q
<1> QED
  BY <1>1, <1>2, DeLogicUno

(* The bag of Bazar: the copies it has of each package.                    *)
ElRed(k) == k.perdidos (+) EnBuzones(k)

LEMMA BuzonesEs ==
  ASSUME NEW k, \A p : IsFiniteSet(EnSobres(k, p))
  PROVE  /\ IsABag(EnBuzones(k))
         /\ \A p : Copias(p, EnBuzones(k)) = Cardinality(EnSobres(k, p))
<1> DEFINE D == {Sobre(k, x) : x \in Letras(k)}
<1>1. EnBuzones(k) = [p \in D |-> Cardinality(EnSobres(k, p))]
  BY DEF EnBuzones, EnSobres
<1>2. \A p : p \in D <=> EnSobres(k, p) # {}
  BY DEF EnSobres
<1>3. \A p : /\ Cardinality(EnSobres(k, p)) \in Nat
             /\ Cardinality(EnSobres(k, p)) = 0 <=> EnSobres(k, p) = {}
  BY Contar
<1> HIDE DEF D
<1>4. IsABag(EnBuzones(k))
  <2>1. \A p \in D : Cardinality(EnSobres(k, p)) \in {n \in Nat : n > 0}
    BY <1>2, <1>3
  <2> QED
    BY <1>1, <2>1 DEF IsABag
<1> QED
  BY <1>1, <1>2, <1>3, <1>4 DEF Copias

LEMMA RedEs ==
  ASSUME NEW k, LetrasBien(k)
  PROVE  /\ IsABag(ElRed(k))
         /\ \A p : Copias(p, ElRed(k)) = Total(k, p)
<1>1. IsABag(k.perdidos) /\ \A p : IsFiniteSet(EnSobres(k, p))
  BY DEF LetrasBien
<1>2. /\ IsABag(EnBuzones(k))
      /\ \A p : Copias(p, EnBuzones(k)) = Cardinality(EnSobres(k, p))
  BY <1>1, BuzonesEs
<1>3. /\ IsABag(k.perdidos (+) EnBuzones(k))
      /\ \A p : Copias(p, k.perdidos (+) EnBuzones(k))
                  = Copias(p, k.perdidos) + Copias(p, EnBuzones(k))
  BY <1>1, <1>2, Bolsas
<1> QED
  BY <1>2, <1>3 DEF ElRed, Total

LEMMA RedMisma ==
  ASSUME NEW k, LetrasBien(k), NEW h, Mismos(k, h)
  PROVE  ElRed(h) = ElRed(k)
<1>1. LetrasBien(h) /\ \A p : Total(h, p) = Total(k, p)
  BY DEF Mismos
<1>2. /\ IsABag(ElRed(k)) /\ \A p : Copias(p, ElRed(k)) = Total(k, p)
      /\ IsABag(ElRed(h)) /\ \A p : Copias(p, ElRed(h)) = Total(h, p)
  BY <1>1, RedEs
<1>3. \A p : Copias(p, ElRed(h)) = Copias(p, ElRed(k))
  BY <1>1, <1>2
<1> QED
  BY <1>2, <1>3, Bolsas

(* One more copy of q, and one less.                                       *)
LEMMA BolsaGana ==
  ASSUME NEW b, IsABag(b), NEW q
  PROVE  /\ IsABag(B!BagAdd(b, q))
         /\ \A p : Copias(p, B!BagAdd(b, q)) = Copias(p, b) + (IF p = q THEN 1 ELSE 0)
<1> DEFINE c == [e \in DOMAIN b \cup {q} |-> Copias(e, b) + (IF e = q THEN 1 ELSE 0)]
<1>1. \A p : /\ Copias(p, b) \in Nat
             /\ p \in DOMAIN b <=> Copias(p, b) > 0
             /\ p \in DOMAIN b => b[p] = Copias(p, b)
             /\ p \notin DOMAIN b => Copias(p, b) = 0
  BY DEF IsABag, Copias
<1>2. B!BagAdd(b, q) = c
  <2>1. CASE q \in DOMAIN b
    <3>1. B!BagAdd(b, q) = [e \in DOMAIN b |-> IF e = q THEN b[e] + 1 ELSE b[e]]
      BY <2>1 DEF B!BagAdd
    <3>2. DOMAIN b \cup {q} = DOMAIN b
      BY <2>1
    <3>3. \A e \in DOMAIN b : (IF e = q THEN b[e] + 1 ELSE b[e])
                                = Copias(e, b) + (IF e = q THEN 1 ELSE 0)
      BY <1>1
    <3> QED
      BY <3>1, <3>2, <3>3
  <2>2. CASE q \notin DOMAIN b
    <3>1. B!BagAdd(b, q) = [e \in DOMAIN b \cup {q} |-> IF e = q THEN 1 ELSE b[e]]
      BY <2>2 DEF B!BagAdd
    <3>3. \A e \in DOMAIN b \cup {q} : (IF e = q THEN 1 ELSE b[e])
                                = Copias(e, b) + (IF e = q THEN 1 ELSE 0)
      BY <1>1, <2>2
    <3> QED
      BY <3>1, <3>3
  <2> QED
    BY <2>1, <2>2
<1>3. \A e \in DOMAIN b \cup {q} :
        Copias(e, b) + (IF e = q THEN 1 ELSE 0) \in {n \in Nat : n > 0}
  BY <1>1
<1>4. IsABag(c)
  BY <1>3 DEF IsABag
<1>5. \A p : Copias(p, c) = Copias(p, b) + (IF p = q THEN 1 ELSE 0)
  <2>1. ASSUME NEW p, p \in DOMAIN b \cup {q}
        PROVE  Copias(p, c) = Copias(p, b) + (IF p = q THEN 1 ELSE 0)
    <3>1. p \in DOMAIN c /\ c[p] = Copias(p, b) + (IF p = q THEN 1 ELSE 0)
      BY <2>1
    <3> HIDE DEF c
    <3>2. Copias(p, c) = c[p]
      BY <3>1 DEF Copias
    <3> QED
      BY <3>1, <3>2
  <2>2. ASSUME NEW p, p \notin DOMAIN b \cup {q}
        PROVE  Copias(p, c) = Copias(p, b) + (IF p = q THEN 1 ELSE 0)
    <3>1. p \notin DOMAIN c
      BY <2>2
    <3> HIDE DEF c
    <3>2. Copias(p, c) = 0
      BY <3>1 DEF Copias
    <3> QED
      BY <1>1, <2>2, <3>2
  <2> QED
    BY <2>1, <2>2
<1> HIDE DEF c
<1> QED
  BY <1>2, <1>4, <1>5

LEMMA BolsaPierde ==
  ASSUME NEW b, IsABag(b), NEW q, Copias(q, b) > 0
  PROVE  /\ IsABag(B!BagRemove(b, q)) /\ q \in B!BagToSet(b)
         /\ \A p : Copias(p, B!BagRemove(b, q)) = Copias(p, b) - (IF p = q THEN 1 ELSE 0)
<1> DEFINE c == B!BagRemove(b, q)
<1>1. \A p : /\ Copias(p, b) \in Nat
             /\ p \in DOMAIN b <=> Copias(p, b) > 0
             /\ p \in DOMAIN b => b[p] = Copias(p, b) /\ b[p] \in {n \in Nat : n > 0}
             /\ p \notin DOMAIN b => Copias(p, b) = 0
  BY DEF IsABag, Copias
<1>2. q \in DOMAIN b
  BY <1>1
<1>3. q \in B!BagToSet(b)
  BY <1>2 DEF B!BagToSet
<1>4. IsABag(c) /\ \A p : Copias(p, c) = Copias(p, b) - (IF p = q THEN 1 ELSE 0)
  <2>1. CASE b[q] = 1
    <3> DEFINE d == [e \in DOMAIN b \ {q} |-> b[e]]
    <3>1. c = d
      BY <1>2, <2>1 DEF B!BagRemove
    <3>2. IsABag(d)
      BY <1>1 DEF IsABag
    <3>3. \A p : Copias(p, d) = IF p = q THEN 0 ELSE Copias(p, b)
      BY DEF Copias
    <3> HIDE DEF c, d
    <3>4. \A p : Copias(p, d) = Copias(p, b) - (IF p = q THEN 1 ELSE 0)
      BY <1>1, <1>2, <2>1, <3>3
    <3> QED
      BY <3>1, <3>2, <3>4
  <2>2. CASE b[q] # 1
    <3> DEFINE d == [e \in DOMAIN b |-> IF e = q THEN b[e] - 1 ELSE b[e]]
    <3>1. c = d
      BY <1>2, <2>2 DEF B!BagRemove
    <3>2. \A e \in DOMAIN b : (IF e = q THEN b[e] - 1 ELSE b[e]) \in {n \in Nat : n > 0}
      BY <1>1, <2>2
    <3>3. IsABag(d)
      BY <3>2 DEF IsABag
    <3>4. \A p : p \in DOMAIN b => Copias(p, d) = IF p = q THEN b[p] - 1 ELSE b[p]
      BY DEF Copias
    <3>5. \A p : p \notin DOMAIN b => Copias(p, d) = 0
      BY DEF Copias
    <3> HIDE DEF c, d
    <3>6. \A p : Copias(p, d) = Copias(p, b) - (IF p = q THEN 1 ELSE 0)
      BY <1>1, <1>2, <2>2, <3>4, <3>5
    <3> QED
      BY <3>1, <3>3, <3>6
  <2> QED
    BY <2>1, <2>2
<1> QED
  BY <1>3, <1>4

LEMMA RedGana ==
  ASSUME NEW k, LetrasBien(k), NEW h, LetrasBien(h), NEW q,
         \A p : Total(h, p) = Total(k, p) + (IF p = q THEN 1 ELSE 0)
  PROVE  ElRed(h) = B!BagAdd(ElRed(k), q)
<1> DEFINE b == ElRed(k)
           c == B!BagAdd(b, q)
<1>1. /\ IsABag(b) /\ \A p : Copias(p, b) = Total(k, p)
      /\ IsABag(ElRed(h)) /\ \A p : Copias(p, ElRed(h)) = Total(h, p)
  BY RedEs
<1>2. /\ IsABag(c)
      /\ \A p : Copias(p, c) = Copias(p, b) + (IF p = q THEN 1 ELSE 0)
  <2> HIDE DEF b
  <2> QED
    BY <1>1, BolsaGana
<1> HIDE DEF c, b
<1>3. \A p : Copias(p, ElRed(h)) = Copias(p, c)
  BY <1>1, <1>2
<1>4. ElRed(h) = c
  BY <1>1, <1>2, <1>3, Bolsas
<1> QED
  BY <1>4 DEF c, b

LEMMA RedPierde ==
  ASSUME NEW k, LetrasBien(k), NEW h, LetrasBien(h), NEW q,
         \A p : Total(h, p) + (IF p = q THEN 1 ELSE 0) = Total(k, p)
  PROVE  q \in B!BagToSet(ElRed(k)) /\ ElRed(h) = B!BagRemove(ElRed(k), q)
<1> DEFINE b == ElRed(k)
           c == B!BagRemove(b, q)
<1>1. /\ IsABag(b) /\ \A p : Copias(p, b) = Total(k, p)
      /\ IsABag(ElRed(h)) /\ \A p : Copias(p, ElRed(h)) = Total(h, p)
  BY RedEs
<1>2. \A p : Total(h, p) \in Nat /\ Total(k, p) \in Nat
  BY TotalBien
<1> HIDE DEF b
<1>3. Copias(q, b) > 0
  BY <1>1, <1>2
<1>4. /\ IsABag(c) /\ q \in B!BagToSet(b)
      /\ \A p : Copias(p, c) = Copias(p, b) - (IF p = q THEN 1 ELSE 0)
  BY <1>1, <1>3, BolsaPierde
<1> HIDE DEF c
<1>5. \A p : Copias(p, ElRed(h)) = Copias(p, c)
  BY <1>1, <1>2, <1>4
<1>6. ElRed(h) = c
  BY <1>1, <1>4, <1>5, Bolsas
<1> QED
  BY <1>4, <1>6 DEF c, b

(* What the steps do to the bag, by the datum d that goes or comes.        *)
LEMMA RedDato ==
  ASSUME NEW k, LetrasBien(k), NEW h, LetrasBien(h), NEW d, NEW n
  PROVE  /\ \A x : d = SuNombre(x) \/ d = P2P_CONNECT =>
              /\ (\A p : Total(h, p) = Total(k, p) + Cardinality(De(<<d>>, n, p)))
                   => ElRed(h) = ElRed(k)
              /\ (\A p : Total(h, p) + Cardinality(De(<<d>>, n, p)) = Total(k, p))
                   => ElRed(h) = ElRed(k)
         /\ \A m : d = Carta(m) =>
              /\ (\A p : Total(h, p) = Total(k, p) + Cardinality(De(<<d>>, n, p)))
                   => ElRed(h) = B!BagAdd(ElRed(k), [dst |-> n, tag |-> m])
              /\ (\A p : Total(h, p) + Cardinality(De(<<d>>, n, p)) = Total(k, p))
                   => /\ [dst |-> n, tag |-> m] \in B!BagToSet(ElRed(k))
                      /\ ElRed(h) = B!BagRemove(ElRed(k), [dst |-> n, tag |-> m])
<1>1. \A p : Cardinality(De(<<d>>, n, p)) =
               IF d.que = "mensaje" /\ [dst |-> n, tag |-> d.tag] = p THEN 1 ELSE 0
  BY DeUno
<1>2. \A p : Total(h, p) \in Nat /\ Total(k, p) \in Nat
  BY TotalBien
<1>3. ASSUME NEW x, d = SuNombre(x) \/ d = P2P_CONNECT
      PROVE  \A p : Cardinality(De(<<d>>, n, p)) = 0
  <2>1. d.que # "mensaje"
    BY <1>3 DEF SuNombre, P2P_CONNECT
  <2> QED
    BY <1>1, <2>1
<1>4. ASSUME NEW m, d = Carta(m)
      PROVE  \A p : Cardinality(De(<<d>>, n, p)) = IF p = [dst |-> n, tag |-> m] THEN 1 ELSE 0
  <2>1. d.que = "mensaje" /\ d.tag = m
    BY <1>4 DEF Carta
  <2> QED
    BY <1>1, <2>1
<1>5. ASSUME NEW x, d = SuNombre(x) \/ d = P2P_CONNECT,
             \/ \A p : Total(h, p) = Total(k, p) + Cardinality(De(<<d>>, n, p))
             \/ \A p : Total(h, p) + Cardinality(De(<<d>>, n, p)) = Total(k, p)
      PROVE  ElRed(h) = ElRed(k)
  <2>1. \A p : Total(h, p) = Total(k, p)
    BY <1>2, <1>3, <1>5
  <2>2. Mismos(k, h)
    BY <2>1 DEF Mismos
  <2> QED
    BY <2>2, RedMisma
<1>6. ASSUME NEW m, d = Carta(m),
             \A p : Total(h, p) = Total(k, p) + Cardinality(De(<<d>>, n, p))
      PROVE  ElRed(h) = B!BagAdd(ElRed(k), [dst |-> n, tag |-> m])
  <2> DEFINE q == [dst |-> n, tag |-> m]
  <2>1. \A p : Total(h, p) = Total(k, p) + (IF p = q THEN 1 ELSE 0)
    BY <1>4, <1>6
  <2> HIDE DEF q
  <2>2. ElRed(h) = B!BagAdd(ElRed(k), q)
    BY <2>1, RedGana
  <2> QED
    BY <2>2 DEF q
<1>7. ASSUME NEW m, d = Carta(m),
             \A p : Total(h, p) + Cardinality(De(<<d>>, n, p)) = Total(k, p)
      PROVE  /\ [dst |-> n, tag |-> m] \in B!BagToSet(ElRed(k))
             /\ ElRed(h) = B!BagRemove(ElRed(k), [dst |-> n, tag |-> m])
  <2> DEFINE q == [dst |-> n, tag |-> m]
  <2>1. \A p : Total(h, p) + (IF p = q THEN 1 ELSE 0) = Total(k, p)
    BY <1>4, <1>7
  <2> HIDE DEF q
  <2>2. q \in B!BagToSet(ElRed(k)) /\ ElRed(h) = B!BagRemove(ElRed(k), q)
    BY <2>1, RedPierde
  <2> QED
    BY <2>2 DEF q
<1> QED
  BY <1>5, <1>6, <1>7

-----------------------------------------------------------------------------
(* The Logic of a node is that of Bazar: it differs only in whose queue it *)
(* posts to.                                                               *)
LEMMA CopiasDeLogica ==
  ASSUME NEW n
  PROVE  /\ \A id : B!Atiende(n, id) <=> Atiende(n, id)
         /\ B!Hecho(n) <=> Hecho(n)
         /\ \A id, m : B!HechoYPostea(n, id, m) <=> HechoYPostea(n, id, m)
         /\ \A p : B!get_stock(n, p) = get_stock(n, p)
         /\ \A p, c : B!set_stock(n, p, c) <=> set_stock(n, p, c)
         /\ \A ts : B!estadoPedido(n, ts) = estadoPedido(n, ts)
         /\ \A ts, x : B!setEstadoPedido(n, ts, x) <=> setEstadoPedido(n, ts, x)
         /\ \A x : B!Entero(x) = Entero(x)
<1>1. \A f, k, v : B!Pon(f, k, v) = Pon(f, k, v)
  BY DEF B!Pon, Pon
<1>2. \A p, c : B!set_stock(n, p, c) <=> set_stock(n, p, c)
  BY <1>1 DEF B!set_stock, set_stock
<1>3. \A ts, x : B!setEstadoPedido(n, ts, x) <=> setEstadoPedido(n, ts, x)
  BY <1>1 DEF B!setEstadoPedido, setEstadoPedido
<1>4. \A id : B!Atiende(n, id) <=> Atiende(n, id)
  BY DEF B!Atiende, Atiende
<1>5. B!Hecho(n) <=> Hecho(n)
  BY DEF B!Hecho, Hecho
<1>6. \A id, m : B!HechoYPostea(n, id, m) <=> HechoYPostea(n, id, m)
  BY DEF B!HechoYPostea, HechoYPostea
<1>7. \A p : B!get_stock(n, p) = get_stock(n, p)
  BY DEF B!get_stock, get_stock
<1>8. \A ts : B!estadoPedido(n, ts) = estadoPedido(n, ts)
  BY DEF B!estadoPedido, estadoPedido
<1>9. \A x : B!Entero(x) = Entero(x)
  BY DEF B!Entero, Entero
<1> QED
  BY <1>2, <1>3, <1>4, <1>5, <1>6, <1>7, <1>8, <1>9

LEMMA CopiasDeMensajes ==
  /\ \A m : B!Load(m) = Load(m)
  /\ \A m : B!get_next_node_name(m) = get_next_node_name(m)
  /\ \A m : B!get_creator_node_name(m) = get_creator_node_name(m)
  /\ \A m, n : B!add_nodo(m, n) = add_nodo(m, n)
  /\ \A m : B!less_nodo(m) = less_nodo(m)
  /\ \A m : B!less_hopcount(m) = less_hopcount(m)
  /\ \A p, c, ts : B!build_look_up_msg(p, c, ts) = build_look_up_msg(p, c, ts)
  /\ \A m, n : B!build_reply_msg(m, n) = build_reply_msg(m, n)
  /\ \A m : B!build_buy_msg(m) = build_buy_msg(m)
  /\ \A m : B!build_buy_reply_ok_msg(m) = build_buy_reply_ok_msg(m)
  /\ \A m : B!build_buy_reply_err_msg(m) = build_buy_reply_err_msg(m)
<1>1. \A m : B!Load(m) = Load(m)
  BY DEF B!Load, Load, B!Lectura, Lectura, B!Leido, Leido
<1>2. /\ \A m : B!get_next_node_name(m) = get_next_node_name(m)
      /\ \A m : B!get_creator_node_name(m) = get_creator_node_name(m)
      /\ \A m, n : B!add_nodo(m, n) = add_nodo(m, n)
      /\ \A m : B!less_nodo(m) = less_nodo(m)
      /\ \A m : B!less_hopcount(m) = less_hopcount(m)
  BY DEF B!get_next_node_name, get_next_node_name, B!get_creator_node_name,
         get_creator_node_name, B!add_nodo, add_nodo, B!less_nodo, less_nodo,
         B!less_hopcount, less_hopcount
<1>3. /\ \A p, c, ts : B!build_look_up_msg(p, c, ts) = build_look_up_msg(p, c, ts)
      /\ \A m, n : B!build_reply_msg(m, n) = build_reply_msg(m, n)
      /\ \A m : B!build_buy_msg(m) = build_buy_msg(m)
      /\ \A m : B!build_buy_reply_ok_msg(m) = build_buy_reply_ok_msg(m)
      /\ \A m : B!build_buy_reply_err_msg(m) = build_buy_reply_err_msg(m)
  BY DEF B!build_look_up_msg, build_look_up_msg, B!build_reply_msg, build_reply_msg,
         B!build_buy_msg, build_buy_msg, B!build_buy_reply_ok_msg, build_buy_reply_ok_msg,
         B!build_buy_reply_err_msg, build_buy_reply_err_msg
<1> QED
  BY <1>1, <1>2, <1>3

(* What is posted to the Router, or is not.                                *)
LEMMA CopiaDePostea ==
  ASSUME Tipos, NEW n \in Node
  PROVE  /\ \A id \in RouterId : \A m : PosteaRouter(n, id, m) => B!PosteaRouter(n, id, m)
         /\ UNCHANGED routerEvents => UNCHANGED DeLogic
<1>1. ASSUME NEW id \in RouterId, NEW m, PosteaRouter(n, id, m)
      PROVE  B!PosteaRouter(n, id, m)
  <2> DEFINE e == [id |-> id, tag |-> m]
  <2>1. routerEvents' = [routerEvents EXCEPT ![n] = Append(@, e)] /\ e.id \in RouterId
    BY <1>1 DEF PosteaRouter
  <2> HIDE DEF e
  <2>2. DeLogic' = [DeLogic EXCEPT ![n] = Append(@, e)]
    BY <2>1, DeLogicPostea
  <2> QED
    BY <2>2 DEF e, B!PosteaRouter
<1>2. ASSUME UNCHANGED routerEvents
      PROVE  UNCHANGED DeLogic
  BY <1>2 DEF DeLogic
<1> QED
  BY <1>1, <1>2

LEMMA LogicaSeCumple ==
  ASSUME Tipos, NEW n \in Node, LogicStep(n)
  PROVE  B!LogicStep(n)
<1>1. /\ \A id \in RouterId : \A m : PosteaRouter(n, id, m) => B!PosteaRouter(n, id, m)
      /\ UNCHANGED routerEvents => UNCHANGED DeLogic
  BY CopiaDePostea
<1>2. {"RT_FIRST_BROADCAST", "RT_BROADCAST", "RT_SEND_TO_SOCKET",
       "RT_SEND_TO_P2P_SOCKET", "RT_START_P2P_CONNECT",
       "RT_CLOSE_P2P_CONNECT"} \subseteq RouterId
  BY DEF RouterId
<1>3. set_stock_product(n) => B!set_stock_product(n)
  BY <1>1, CopiasDeLogica DEF set_stock_product, B!set_stock_product
<1>4. set_cur_prod_compra(n) => B!set_cur_prod_compra(n)
  BY <1>1, CopiasDeLogica DEF set_cur_prod_compra, B!set_cur_prod_compra
<1>5. set_cur_prod_venta(n) => B!set_cur_prod_venta(n)
  BY <1>1, CopiasDeLogica DEF set_cur_prod_venta, B!set_cur_prod_venta
<1>6. on_send_look_up(n) => B!on_send_look_up(n)
  BY <1>1, <1>2, CopiasDeLogica, CopiasDeMensajes DEF on_send_look_up, B!on_send_look_up
<1>7. on_send_look_up_forward(n) => B!on_send_look_up_forward(n)
  BY <1>1, <1>2, CopiasDeLogica, CopiasDeMensajes
     DEF on_send_look_up_forward, B!on_send_look_up_forward
<1>8. on_send_replay(n) => B!on_send_replay(n)
  BY <1>1, <1>2, CopiasDeLogica, CopiasDeMensajes DEF on_send_replay, B!on_send_replay
<1>9. on_send_replay_forward(n) => B!on_send_replay_forward(n)
  BY <1>1, <1>2, CopiasDeLogica, CopiasDeMensajes
     DEF on_send_replay_forward, B!on_send_replay_forward
<1>10. on_send_buy(n) => B!on_send_buy(n)
  BY <1>1, <1>2, CopiasDeLogica, CopiasDeMensajes DEF on_send_buy, B!on_send_buy
<1>11. on_send_buy_reply_ok(n) => B!on_send_buy_reply_ok(n)
  BY <1>1, <1>2, CopiasDeLogica, CopiasDeMensajes
     DEF on_send_buy_reply_ok, B!on_send_buy_reply_ok
<1>12. on_send_buy_reply_err(n) => B!on_send_buy_reply_err(n)
  BY <1>1, <1>2, CopiasDeLogica, CopiasDeMensajes
     DEF on_send_buy_reply_err, B!on_send_buy_reply_err
<1>13. on_client_msg(n) => B!on_client_msg(n)
  <2>1. ASSUME NEW m
        PROVE  /\ on_receive_look_up(n, m) => B!on_receive_look_up(n, m)
               /\ on_receive_replay(n, m) => B!on_receive_replay(n, m)
    BY <1>1, CopiasDeLogica, CopiasDeMensajes
       DEF on_receive_look_up, B!on_receive_look_up, on_receive_replay, B!on_receive_replay
  <2>2. ASSUME NEW m
        PROVE  on_receive_buy(n, m) => B!on_receive_buy(n, m)
    <3>1. decrement_stock(n, m.producto, m.cantidad)
            => B!decrement_stock(n, m.producto, m.cantidad)
      BY CopiasDeLogica DEF decrement_stock, B!decrement_stock
    <3> QED
      BY <1>1, <3>1, CopiasDeLogica DEF on_receive_buy, B!on_receive_buy
  <2>3. ASSUME NEW m
        PROVE  /\ on_receive_buy_reply_ok(n, m) => B!on_receive_buy_reply_ok(n, m)
               /\ on_receive_buy_reply_err(n, m) => B!on_receive_buy_reply_err(n, m)
    <3>1. increment_stock(n, m.producto, m.cantidad)
            => B!increment_stock(n, m.producto, m.cantidad)
      BY CopiasDeLogica DEF increment_stock, B!increment_stock
    <3> QED
      BY <1>1, <1>2, <3>1, CopiasDeLogica
         DEF on_receive_buy_reply_ok, B!on_receive_buy_reply_ok,
             on_receive_buy_reply_err, B!on_receive_buy_reply_err
  <2> QED
    BY <2>1, <2>2, <2>3, CopiasDeLogica, CopiasDeMensajes DEF on_client_msg, B!on_client_msg
<1> QED
  BY <1>3, <1>4, <1>5, <1>6, <1>7, <1>8, <1>9, <1>10, <1>11, <1>12, <1>13
     DEF LogicStep, B!LogicStep

-----------------------------------------------------------------------------
(* What a step of node n does to the sockets when it makes no connection:  *)
(* its descriptors of the connections of the scene stay as they are.       *)
Respeta(k, h, L, n) ==
  /\ DOMAIN h.con = DOMAIN k.con
  /\ \A fd \in Abiertos(h, n) : fd \in Abiertos(k, n) /\ Punta(h, n, fd) = Punta(k, n, fd)
  /\ \A fd \in Abiertos(k, n) : Punta(k, n, fd).con \in 1..L => fd \in Abiertos(h, n)

Obra(n, k) ==
  /\ Hasta(n, k) /\ Queda(tcp, k, Ele, n) /\ LetrasBien(k) /\ Respeta(tcp, k, Ele, n)

LEMMA RespetaTras ==
  ASSUME NEW k, NEW h, NEW g, NEW L, NEW n, Respeta(k, h, L, n), Respeta(h, g, L, n)
  PROVE  Respeta(k, g, L, n)
  BY DEF Respeta

LEMMA ObraTras ==
  ASSUME NEW n \in Node, NEW k, Obra(n, k), NEW h,
         RedBien(Conocidos, vivo, Ele, h), Sigue(k, h, Ele, n), Queda(k, h, Ele, n),
         LetrasBien(h), Respeta(k, h, Ele, n)
  PROVE  Obra(n, h)
<1>1. Hasta(n, h)
  BY HastaTras DEF Obra, Queda
<1>2. Queda(tcp, h, Ele, n)
  <2>1. DOMAIN tcp.con \subseteq DOMAIN k.con /\ Queda(tcp, k, Ele, n)
    BY DEF Obra, Hasta, Sigue
  <2> QED
    BY <2>1, QuedaTras
<1>3. Respeta(tcp, h, Ele, n)
  BY RespetaTras DEF Obra
<1> QED
  BY <1>1, <1>2, <1>3 DEF Obra

(* Reading and sending close nothing.                                      *)
LEMMA RespetaIgual ==
  ASSUME NEW k, NEW h, h.fds = k.fds, DOMAIN h.con = DOMAIN k.con, NEW L, NEW n
  PROVE  Respeta(k, h, L, n)
  BY DEF Respeta, Abiertos, Punta

LEMMA ConLee ==
  ASSUME NEW S, NEW V, NEW L, NEW k, RedBien(S, V, L, k), NEW n \in Node,
         NEW fd, NEW h, h = Lee(k, n, fd) \/ h = Descarta(k, n, fd)
  PROVE  DOMAIN h.con = DOMAIN k.con
  BY DEF Lee, Descarta, RedBien, SocketsOK

LEMMA ConEnvia ==
  ASSUME NEW S, NEW V, NEW L, NEW k, RedBien(S, V, L, k), NEW n \in Node,
         NEW fd, NEW d, NEW h, h = Envia(k, n, fd, d)
  PROVE  DOMAIN h.con = DOMAIN k.con
<1>1. CASE ~Conectado(k, n, fd)
  BY <1>1 DEF Envia
<1>2. CASE Conectado(k, n, fd) /\ Ve(k, n, fd) = "vivo"
  BY <1>2 DEF Envia, RedBien, SocketsOK
<1>3. CASE Conectado(k, n, fd) /\ Ve(k, n, fd) # "vivo"
  BY <1>3 DEF Envia, RedBien, SocketsOK
<1> QED
  BY <1>1, <1>2, <1>3

LEMMA ConCierra ==
  ASSUME NEW S, NEW V, NEW L, NEW k, RedBien(S, V, L, k), NEW n \in Node,
         NEW fd, NEW h, h = Cierra(k, n, fd)
  PROVE  DOMAIN h.con = DOMAIN k.con
  BY DEF Cierra, RedBien, SocketsOK

(* The data that come are read, and d is the first of them.                *)
LEMMA ObraLee ==
  ASSUME NEW n \in Node, NEW k, Obra(n, k), NEW fd, RecvDato(k, n, fd),
         NEW d, d = Recibido(k, n, fd)[1], NEW h, h = Lee(k, n, fd)
  PROVE  /\ Obra(n, h) /\ h.fds = k.fds
         /\ \A p : Total(h, p) + Cardinality(De(<<d>>, n, p)) = Total(k, p)
<1>1. RedBien(Conocidos, vivo, Ele, k) /\ LetrasBien(k) /\ Conectado(k, n, fd)
  BY DEF Obra, Hasta, RecvDato
<1>2. /\ LetrasBien(h)
      /\ \A p : Total(h, p) + Cardinality(De(<<d>>, n, p)) = Total(k, p)
  <2>1. h = Lee(k, n, fd) =>
              /\ LetrasBien(h)
              /\ \A p : Total(h, p) + Cardinality(De(<<Recibido(k, n, fd)[1]>>, n, p))
                          = Total(k, p)
    <3>1. RecvDato(k, n, fd)
      OBVIOUS
    <3> QED
      BY <1>1, <3>1, CuentaLee
  <2> QED
    BY <2>1
<1>3. h.fds = k.fds /\ Obra(n, h)
  <2>1. /\ RedBien(Conocidos, vivo, Ele, h) /\ Sigue(k, h, Ele, n) /\ Queda(k, h, Ele, n)
        /\ h.fds = k.fds
    BY <1>1, LeeBien
  <2>2. DOMAIN h.con = DOMAIN k.con
    BY <1>1, ConLee
  <2>3. Respeta(k, h, Ele, n)
    BY <2>1, <2>2, RespetaIgual
  <2> QED
    BY <1>2, <2>1, <2>3, ObraTras
<1> QED
  BY <1>2, <1>3

LEMMA ObraDescarta ==
  ASSUME NEW n \in Node, NEW k, Obra(n, k), NEW fd, RecvDato(k, n, fd),
         NEW h, h = Descarta(k, n, fd)
  PROVE  Obra(n, h) /\ h.fds = k.fds /\ ElRed(h) = ElRed(k)
<1>1. RedBien(Conocidos, vivo, Ele, k) /\ LetrasBien(k) /\ Conectado(k, n, fd)
  BY DEF Obra, Hasta, RecvDato
<1>2. Mismos(k, h)
  <2>1. h = Descarta(k, n, fd) => Mismos(k, h)
    <3>1. RecvDato(k, n, fd)
      OBVIOUS
    <3> QED
      BY <1>1, <3>1, CuentaLee
  <2> QED
    BY <2>1
<1>3. h.fds = k.fds /\ Obra(n, h)
  <2>1. /\ RedBien(Conocidos, vivo, Ele, h) /\ Sigue(k, h, Ele, n) /\ Queda(k, h, Ele, n)
        /\ h.fds = k.fds
    BY <1>1, LeeBien
  <2>2. DOMAIN h.con = DOMAIN k.con
    BY <1>1, ConLee
  <2>3. Respeta(k, h, Ele, n)
    BY <2>1, <2>2, RespetaIgual
  <2> QED
    BY <1>2, <2>1, <2>3, ObraTras DEF Mismos
<1>4. ElRed(h) = ElRed(k)
  BY <1>1, <1>2, RedMisma
<1> QED
  BY <1>3, <1>4

(* A datum is sent to the other end of fd, node o.                         *)
Callado(d) == (\E x : d = SuNombre(x)) \/ d = P2P_CONNECT
EsOtro(k, n, fd, o) == k.con[Punta(k, n, fd).con].nodo[3 - Punta(k, n, fd).lado] = o

LEMMA ObraEnvia ==
  ASSUME NEW n \in Node, vivo[n], NEW k, Obra(n, k), NEW fd, NEW d, NEW o,
         Conectado(k, n, fd) => EsOtro(k, n, fd, o) /\ DatoBien(Conocidos, o, d),
         NEW h, h = Envia(k, n, fd, d)
  PROVE  /\ Obra(n, h) /\ h.fds = k.fds
         /\ ~Conectado(k, n, fd) => ElRed(h) = ElRed(k)
         /\ Callado(d) => ElRed(h) = ElRed(k)
         /\ \A m : d = Carta(m) /\ Conectado(k, n, fd) =>
              ElRed(h) = B!BagAdd(ElRed(k), [dst |-> o, tag |-> m])
<1>1. RedBien(Conocidos, vivo, Ele, k) /\ LetrasBien(k)
  BY DEF Obra, Hasta
<1>2. /\ RedBien(Conocidos, vivo, Ele, h) /\ Sigue(k, h, Ele, n) /\ Queda(k, h, Ele, n)
      /\ h.fds = k.fds
  <2>1. Conectado(k, n, fd) =>
          DatoBien(Conocidos, k.con[Punta(k, n, fd).con].nodo[3 - Punta(k, n, fd).lado], d)
    BY DEF EsOtro
  <2> QED
    BY <1>1, <2>1, EnviaBien
<1>3. /\ ~Conectado(k, n, fd) => Mismos(k, h)
      /\ Conectado(k, n, fd) =>
           LET x == k.con[Punta(k, n, fd).con].nodo[3 - Punta(k, n, fd).lado]
           IN  /\ LetrasBien(h)
               /\ \A p : Total(h, p) = Total(k, p) + Cardinality(De(<<d>>, x, p))
  BY <1>1, CuentaEnvia
<1>4. Conectado(k, n, fd) =>
        /\ LetrasBien(h)
        /\ \A p : Total(h, p) = Total(k, p) + Cardinality(De(<<d>>, o, p))
  BY <1>3 DEF EsOtro
<1>5. ~Conectado(k, n, fd) => Mismos(k, h)
  BY <1>3
<1>6. LetrasBien(h)
  BY <1>4, <1>5 DEF Mismos
<1>7. Obra(n, h)
  <2>1. DOMAIN h.con = DOMAIN k.con
    BY <1>1, ConEnvia
  <2>2. Respeta(k, h, Ele, n)
    BY <1>2, <2>1, RespetaIgual
  <2> QED
    BY <1>2, <1>6, <2>2, ObraTras
<1>8. ~Conectado(k, n, fd) => ElRed(h) = ElRed(k)
  BY <1>1, <1>5, RedMisma
<1>9. Conectado(k, n, fd) /\ Callado(d) => ElRed(h) = ElRed(k)
  BY <1>1, <1>4, <1>6, RedDato DEF Callado
<1>10. ASSUME NEW m, d = Carta(m), Conectado(k, n, fd)
       PROVE  ElRed(h) = B!BagAdd(ElRed(k), [dst |-> o, tag |-> m])
  BY <1>1, <1>4, <1>6, <1>10, RedDato
<1> QED
  BY <1>2, <1>7, <1>8, <1>9, <1>10

LEMMA ObraCierra ==
  ASSUME NEW n \in Node, NEW k, Obra(n, k), NEW fd,
         Conectado(k, n, fd) => Punta(k, n, fd).con > Ele,
         NEW h, h = Cierra(k, n, fd)
  PROVE  /\ Obra(n, h) /\ ElRed(h) = ElRed(k)
         /\ Conectado(k, n, fd) => fd \notin Abiertos(h, n)
<1>1. RedBien(Conocidos, vivo, Ele, k) /\ LetrasBien(k) /\ Ele \in Nat
  BY DEF Obra, Hasta, RedBien
<1>2. /\ RedBien(Conocidos, vivo, Ele, h) /\ Sigue(k, h, Ele, n)
      /\ Queda(k, h, Ele, n)
      /\ \A y \in Abiertos(h, n) : y \in Abiertos(k, n) /\ Punta(h, n, y) = Punta(k, n, y)
      /\ Abiertos(h, n) = Abiertos(k, n) \ (IF Conectado(k, n, fd) THEN {fd} ELSE {})
  BY <1>1, CierraBien
<1>3. Mismos(k, h)
  BY <1>1, CuentaCierra
<1>4. DOMAIN h.con = DOMAIN k.con
  BY <1>1, ConCierra
<1>5. Respeta(k, h, Ele, n)
  <2>1. ASSUME NEW x \in Abiertos(k, n), Punta(k, n, x).con \in 1..Ele
        PROVE  x \in Abiertos(h, n)
    <3>1. CASE Conectado(k, n, fd)
      <4>1. x # fd
        BY <1>1, <2>1, <3>1
      <4> QED
        BY <1>2, <3>1, <4>1
    <3>2. CASE ~Conectado(k, n, fd)
      BY <1>2, <3>2
    <3> QED
      BY <3>1, <3>2
  <2> QED
    BY <1>2, <1>4, <2>1 DEF Respeta
<1>6. Obra(n, h)
  BY <1>2, <1>3, <1>5, ObraTras DEF Mismos
<1>7. ElRed(h) = ElRed(k)
  BY <1>1, <1>3, RedMisma
<1> QED
  BY <1>2, <1>6, <1>7

-----------------------------------------------------------------------------
(* What holds while no node ends: the connections of the scene stay up,    *)
(* and the Routers know which they are.                                    *)

(* Descriptor fd of node n stands for a connection of the scene with x.    *)
Vecinal(k, n, fd, x) ==
  fd \in Abiertos(k, n) /\ Punta(k, n, fd).con \in 1..Ele /\ EsOtro(k, n, fd, x)

(* The maps of the Router of node n: its neighbours, the names they have,  *)
(* and the nodes whose neighbour it is.                                    *)
VecinosFirmes(k, n, r) ==
  \A i \in 1..2 :
    IF Vecino[n][i] = Nadie THEN r.vecino[i] = SOCK_ERRONEO
    ELSE /\ Vecinal(k, n, r.vecino[i], Vecino[n][i])
         /\ Nombres(r.cliente, r.vecino[i]) =
              IF i = 1 /\ Vecino[n][1] = Vecino[n][2] THEN {} ELSE {Vecino[n][i]}

ServidorFirme(k, n, r) ==
  \A x : IF x \in Node /\ n \in {Vecino[x][1], Vecino[x][2]}
         THEN x \in DOMAIN r.servidor /\ Vecinal(k, n, r.servidor[x], x)
         ELSE x \in DOMAIN r.servidor => r.servidor[x] = 0

MapasFirmes(k, n, r) == VecinosFirmes(k, n, r) /\ ServidorFirme(k, n, r)

(* The direct connection that it enters is with the seller.                *)
CursoFirme(k, n, r, q) ==
  r.paso \in Entrando /\ Conectado(k, n, r.fd)
    => EsOtro(k, n, r.fd, Head(q).tag.vendedor)

(* The connection that has just been accepted announces itself.            *)
Anunciada(s) == s # <<>> /\ s[1] = P2P_CONNECT

ListenerFirme(k, n, l) ==
  l.paso = "nombre" /\ Conectado(k, n, l.newfd) => Anunciada(Recibido(k, n, l.newfd))

(* No connection of the scene closes, and none is added to it.             *)
AvisoFirme(P, e) ==
  /\ e.id # "RT_ADD_NODO_SERVIDOR"
  /\ e.id = "RT_RM_NODO_SERVIDOR" => e.fd \in P

AvisosFirmes(P, q) == \A i \in DOMAIN q : AvisoFirme(P, q[i])

NodoFirme(n) ==
  /\ MapasFirmes(tcp, n, router[n])
  /\ CursoFirme(tcp, n, router[n], routerEvents[n])
  /\ ListenerFirme(tcp, n, listener[n])
  /\ AvisosFirmes(Directos(tcp, Ele, n), routerEvents[n])
  /\ 0 \notin Abiertos(tcp, n)

RedFirme(k) ==
  /\ LetrasBien(k)
  /\ \A j \in 1..Ele : k.con[j].ve = Vivos
  /\ \A j \in DOMAIN k.con : k.con[j].nueva => Anunciada(k.con[j].buf[2])

Firme == RedFirme(tcp) /\ \A n \in Node : NodoFirme(n)

-----------------------------------------------------------------------------
(* What a step of node n leaves.                                           *)
LEMMA DeLaEscena ==
  ASSUME NEW S, NEW V, NEW L, NEW k, RedBien(S, V, L, k)
  PROVE  1..L \subseteq DOMAIN k.con
<1>1. EsSeq(k.con) /\ L \in Nat /\ L <= Len(k.con)
  BY DEF RedBien, SocketsOK
<1>2. Len(k.con) \in Nat /\ DOMAIN k.con = 1..Len(k.con)
  BY <1>1, SeqAppend
<1> QED
  BY <1>1, <1>2

Guarda(k, h, n) ==
  \A fd \in Abiertos(k, n) : Punta(k, n, fd).con \in 1..Ele =>
    fd \in Abiertos(h, n) /\ Punta(h, n, fd) = Punta(k, n, fd)

LEMMA VecinalQueda ==
  ASSUME NEW S, NEW V, NEW k, RedBien(S, V, Ele, k), NEW h, NEW n \in Node,
         Sigue(k, h, Ele, n), NEW m \in Node, m = n => Guarda(k, h, n)
  PROVE  \A fd, x : Vecinal(k, m, fd, x) => Vecinal(h, m, fd, x)
<1> SUFFICES ASSUME NEW fd, NEW x, Vecinal(k, m, fd, x)
             PROVE  Vecinal(h, m, fd, x)
  OBVIOUS
<1>1. fd \in Abiertos(h, m) /\ Punta(h, m, fd) = Punta(k, m, fd)
  <2>1. CASE m = n
    BY <2>1 DEF Vecinal, Guarda
  <2>2. CASE m # n
    <3>1. h.fds[m] = k.fds[m]
      BY <2>2 DEF Sigue
    <3> QED
      BY <3>1 DEF Vecinal, Abiertos, Punta
  <2> QED
    BY <2>1, <2>2
<1>2. Punta(k, m, fd).con \in DOMAIN k.con
  BY DeLaEscena DEF Vecinal
<1>3. h.con[Punta(k, m, fd).con].nodo = k.con[Punta(k, m, fd).con].nodo
  BY <1>2 DEF Sigue
<1> QED
  BY <1>1, <1>3 DEF Vecinal, EsOtro

LEMMA MapasQuedan ==
  ASSUME NEW k, NEW h, NEW n,
         \A fd, x : Vecinal(k, n, fd, x) => Vecinal(h, n, fd, x)
  PROVE  /\ \A r : VecinosFirmes(k, n, r) => VecinosFirmes(h, n, r)
         /\ \A r : ServidorFirme(k, n, r) => ServidorFirme(h, n, r)
         /\ \A r : MapasFirmes(k, n, r) => MapasFirmes(h, n, r)
<1>1. ASSUME NEW r, VecinosFirmes(k, n, r)
      PROVE  VecinosFirmes(h, n, r)
  <2>1. ASSUME NEW i \in 1..2, Vecino[n][i] # Nadie
        PROVE  Vecinal(h, n, r.vecino[i], Vecino[n][i])
    BY <1>1, <2>1 DEF VecinosFirmes
  <2> QED
    BY <1>1, <2>1 DEF VecinosFirmes
<1>2. ASSUME NEW r, ServidorFirme(k, n, r)
      PROVE  ServidorFirme(h, n, r)
  BY <1>2 DEF ServidorFirme
<1> QED
  BY <1>1, <1>2 DEF MapasFirmes

LEMMA MapasIguales ==
  ASSUME NEW k, NEW n, NEW r, MapasFirmes(k, n, r), NEW s,
         s.vecino = r.vecino, s.cliente = r.cliente, s.servidor = r.servidor
  PROVE  MapasFirmes(k, n, s)
<1>1. VecinosFirmes(k, n, s)
  BY DEF MapasFirmes, VecinosFirmes
<1>2. ServidorFirme(k, n, s)
  BY DEF MapasFirmes, ServidorFirme
<1> QED
  BY <1>1, <1>2 DEF MapasFirmes

LEMMA AvisosQuedan ==
  ASSUME NEW P, NEW Q, P \subseteq Q, NEW q, EsSeq(q), AvisosFirmes(P, q)
  PROVE  /\ AvisosFirmes(Q, q)
         /\ q # <<>> => AvisosFirmes(Q, Tail(q))
         /\ \A e : AvisoFirme(Q, e) => AvisosFirmes(Q, Append(q, e))
<1>1. AvisosFirmes(Q, q)
  BY DEF AvisosFirmes, AvisoFirme
<1>2. ASSUME q # <<>>
      PROVE  AvisosFirmes(Q, Tail(q))
  <2>1. \A i \in DOMAIN Tail(q) : i + 1 \in DOMAIN q /\ Tail(q)[i] = q[i + 1]
    BY <1>2, SeqTail
  <2> QED
    BY <1>1, <2>1 DEF AvisosFirmes
<1>3. ASSUME NEW e, AvisoFirme(Q, e)
      PROVE  AvisosFirmes(Q, Append(q, e))
  <2>1. /\ Len(q) \in Nat /\ DOMAIN q = 1..Len(q)
        /\ DOMAIN Append(q, e) = 1..(Len(q) + 1)
        /\ \A i \in DOMAIN q : Append(q, e)[i] = q[i]
        /\ Append(q, e)[Len(q) + 1] = e
    BY SeqAppend
  <2>2. \A i \in 1..(Len(q) + 1) : i \in 1..Len(q) \/ i = Len(q) + 1
    BY <2>1
  <2> QED
    BY <1>1, <1>3, <2>1, <2>2 DEF AvisosFirmes
<1> QED
  BY <1>1, <1>2, <1>3

LEMMA OtroFirme ==
  ASSUME Tipos, Negocios, Firme, NEW n \in Node, Sigue(tcp, tcp', Ele, n), UNCHANGED Ele,
         NEW m \in Node, m # n, router'[m] = router[m], listener'[m] = listener[m],
         routerEvents'[m] = routerEvents[m]
  PROVE  NodoFirme(m)'
<1> DEFINE k == tcp
           h == tcp'
<1>1. RedBien(Conocidos, vivo, Ele, k) /\ NodoFirme(m)
  BY DEF Negocios, Red, Firme
<1>2. /\ Abiertos(h, m) = Abiertos(k, m)
      /\ \A fd : Punta(h, m, fd) = Punta(k, m, fd)
  BY <1>1, OtrosSiguen
<1>3. \A fd : Conectado(h, m, fd) =>
         /\ Conectado(k, m, fd)
         /\ Punta(k, m, fd).con \in DOMAIN k.con /\ Punta(k, m, fd).lado \in 1..2
         /\ k.con[Punta(k, m, fd).con].nodo[Punta(k, m, fd).lado] = m
         /\ h.con[Punta(k, m, fd).con].nodo = k.con[Punta(k, m, fd).con].nodo
  <2> SUFFICES ASSUME NEW fd, Conectado(h, m, fd)
               PROVE  /\ Conectado(k, m, fd)
                      /\ Punta(k, m, fd).con \in DOMAIN k.con /\ Punta(k, m, fd).lado \in 1..2
                      /\ k.con[Punta(k, m, fd).con].nodo[Punta(k, m, fd).lado] = m
                      /\ h.con[Punta(k, m, fd).con].nodo = k.con[Punta(k, m, fd).con].nodo
    OBVIOUS
  <2>1. Conectado(k, m, fd)
    BY <1>2 DEF Conectado
  <2>2. /\ Punta(k, m, fd).con \in DOMAIN k.con /\ Punta(k, m, fd).lado \in 1..2
        /\ k.con[Punta(k, m, fd).con].nodo[Punta(k, m, fd).lado] = m
    <3> HIDE DEF k
    <3>1. EsPunta(Conocidos, vivo, Ele, k, m, Punta(k, m, fd).con, Punta(k, m, fd).lado)
      BY <1>1, <2>1, PuntaEs
    <3> QED
      BY <3>1 DEF EsPunta
  <2> QED
    BY <2>1, <2>2 DEF Sigue
<1>4. MapasFirmes(h, m, router[m])
  <2>1. \A fd, x : Vecinal(k, m, fd, x) => Vecinal(h, m, fd, x)
    BY <1>1, VecinalQueda
  <2> HIDE DEF h, k
  <2> QED
    BY <1>1, <2>1, MapasQuedan DEF NodoFirme, k
<1>5. CursoFirme(h, m, router[m], routerEvents[m])
  BY <1>1, <1>2, <1>3 DEF NodoFirme, CursoFirme, EsOtro
<1>6. ListenerFirme(h, m, listener[m])
  <2> DEFINE fd == listener[m].newfd
             e == Punta(k, m, fd)
  <2> SUFFICES ASSUME listener[m].paso = "nombre", Conectado(h, m, fd)
               PROVE  Anunciada(Recibido(h, m, fd))
    BY DEF ListenerFirme
  <2>1. m \notin Compradores /\ fd \in Directos(k, Ele, m)
    BY DEF Negocios, Nodo, ListenerBien, Saludando
  <2>2. Conectado(k, m, fd) /\ Anunciada(k.con[e.con].buf[e.lado])
    BY <1>1, <1>3 DEF NodoFirme, ListenerFirme, Recibido
  <2>3. e.lado = 2
    <3> HIDE DEF fd
    <3> QED
      BY <1>1, <2>1, <2>2, DirectoEs
  <2>4. e.con \in DOMAIN k.con /\ k.con[e.con].nodo[2] # n
    BY <1>3, <2>3
  <2>5. h.con[e.con].buf[2] # <<>> /\ h.con[e.con].buf[2][1] = k.con[e.con].buf[2][1]
    BY <2>2, <2>3, <2>4 DEF Sigue, Anunciada
  <2>6. Recibido(h, m, fd) = h.con[e.con].buf[2]
    BY <1>2, <2>3 DEF Recibido
  <2> QED
    BY <2>2, <2>3, <2>5, <2>6 DEF Anunciada
<1>7. AvisosFirmes(Directos(h, Ele, m), routerEvents[m])
  <2>1. Directos(k, Ele, m) \subseteq Directos(h, Ele, m)
    BY DirectosCrecen
  <2>2. EsSeq(routerEvents[m])
    BY DEF Tipos, Colas, ColaOK
  <2> QED
    BY <1>1, <2>1, <2>2, AvisosQuedan DEF NodoFirme
<1>8. Directos(tcp, Ele, m)' = Directos(h, Ele, m)
  OBVIOUS
<1>9. Vecinal(tcp, m, 0, 0)' = Vecinal(h, m, 0, 0)
  BY DEF Vecinal
<1>10. MapasFirmes(tcp, m, router[m])'
  BY <1>4 DEF MapasFirmes, VecinosFirmes, ServidorFirme, Vecinal
<1> QED
  BY <1>1, <1>2, <1>5, <1>6, <1>7, <1>8, <1>10 DEF NodoFirme

LEMMA ObraRed ==
  ASSUME Negocios, RedFirme(tcp), NEW n \in Node, NEW k, Obra(n, k)
  PROVE  RedFirme(k)
<1>1. RedBien(Conocidos, vivo, Ele, tcp) /\ 1..Ele \subseteq DOMAIN tcp.con /\ Ele \in Nat
  BY DeLaEscena DEF Negocios, Red, RedBien
<1>2. /\ Sigue(tcp, k, Ele, n) /\ Queda(tcp, k, Ele, n) /\ LetrasBien(k)
      /\ DOMAIN k.con = DOMAIN tcp.con
  BY DEF Obra, Hasta, Respeta
<1>3. ASSUME NEW j \in 1..Ele
      PROVE  k.con[j].ve = Vivos
  <2>1. j \in DOMAIN tcp.con /\ j <= Ele /\ tcp.con[j].ve = Vivos
    BY <1>1 DEF RedFirme
  <2> QED
    BY <1>2, <2>1 DEF Queda
<1>4. ASSUME NEW j \in DOMAIN k.con, k.con[j].nueva
      PROVE  Anunciada(k.con[j].buf[2])
  <2>1. j \in DOMAIN tcp.con /\ tcp.con[j].nueva
    BY <1>2, <1>4 DEF Sigue
  <2>2. Anunciada(tcp.con[j].buf[2])
    BY <2>1 DEF RedFirme
  <2>3. k.con[j].buf[2] # <<>> /\ k.con[j].buf[2][1] = tcp.con[j].buf[2][1]
    BY <1>2, <1>4, <2>1, <2>2 DEF Sigue, Anunciada
  <2> QED
    BY <2>2, <2>3 DEF Anunciada
<1> QED
  BY <1>2, <1>3, <1>4 DEF RedFirme

(* Nothing is read of what a connection announces itself with.             *)
Conserva(k) ==
  \A j \in DOMAIN tcp.con : Anunciada(tcp.con[j].buf[2]) => Anunciada(k.con[j].buf[2])

LEMMA ObraNodo ==
  ASSUME Negocios, Firme, NEW n \in Node, NEW k, Obra(n, k)
  PROVE  /\ \A r : MapasFirmes(tcp, n, r) => MapasFirmes(k, n, r)
         /\ \A r, q : CursoFirme(tcp, n, r, q) => CursoFirme(k, n, r, q)
         /\ Directos(tcp, Ele, n) \subseteq Directos(k, Ele, n)
         /\ 0 \notin Abiertos(k, n)
         /\ Conserva(k) => ListenerFirme(k, n, listener[n])
<1>1. /\ RedBien(Conocidos, vivo, Ele, tcp) /\ Sigue(tcp, k, Ele, n) /\ Respeta(tcp, k, Ele, n)
      /\ NodoFirme(n)
  BY DEF Negocios, Red, Obra, Hasta, Firme
<1>2. \A r : MapasFirmes(tcp, n, r) => MapasFirmes(k, n, r)
  <2>1. Guarda(tcp, k, n)
    <3>1. ASSUME NEW fd \in Abiertos(tcp, n), Punta(tcp, n, fd).con \in 1..Ele
          PROVE  fd \in Abiertos(k, n) /\ Punta(k, n, fd) = Punta(tcp, n, fd)
      <4>1. fd \in Abiertos(k, n)
        BY <1>1, <3>1 DEF Respeta
      <4> QED
        BY <1>1, <4>1 DEF Respeta
    <3> QED
      BY <3>1 DEF Guarda
  <2>2. \A fd, x : Vecinal(tcp, n, fd, x) => Vecinal(k, n, fd, x)
    BY <1>1, <2>1, VecinalQueda
  <2> QED
    BY <2>2, MapasQuedan
<1>3. \A fd : Conectado(k, n, fd) =>
        /\ Conectado(tcp, n, fd) /\ Punta(k, n, fd) = Punta(tcp, n, fd)
        /\ Punta(tcp, n, fd).con \in DOMAIN tcp.con
        /\ k.con[Punta(tcp, n, fd).con].nodo = tcp.con[Punta(tcp, n, fd).con].nodo
  <2> SUFFICES ASSUME NEW fd, Conectado(k, n, fd)
               PROVE  /\ Conectado(tcp, n, fd) /\ Punta(k, n, fd) = Punta(tcp, n, fd)
                      /\ Punta(tcp, n, fd).con \in DOMAIN tcp.con
                      /\ k.con[Punta(tcp, n, fd).con].nodo = tcp.con[Punta(tcp, n, fd).con].nodo
    OBVIOUS
  <2>1. Conectado(tcp, n, fd) /\ Punta(k, n, fd) = Punta(tcp, n, fd)
    BY <1>1 DEF Respeta, Conectado
  <2>2. EsPunta(Conocidos, vivo, Ele, tcp, n, Punta(tcp, n, fd).con, Punta(tcp, n, fd).lado)
    BY <1>1, <2>1, PuntaEs
  <2> QED
    BY <1>1, <2>1, <2>2 DEF EsPunta, Sigue
<1>4. \A r, q : CursoFirme(tcp, n, r, q) => CursoFirme(k, n, r, q)
  BY <1>3 DEF CursoFirme, EsOtro
<1>5. Directos(tcp, Ele, n) \subseteq Directos(k, Ele, n)
  BY <1>1, DirectosCrecen
<1>6. 0 \notin Abiertos(k, n)
  BY <1>1 DEF Respeta, NodoFirme
<1>7. ASSUME Conserva(k)
      PROVE  ListenerFirme(k, n, listener[n])
  <2> DEFINE fd == listener[n].newfd
             e == Punta(tcp, n, fd)
  <2> SUFFICES ASSUME listener[n].paso = "nombre", Conectado(k, n, fd)
               PROVE  Anunciada(Recibido(k, n, fd))
    BY DEF ListenerFirme
  <2>1. n \notin Compradores /\ fd \in Directos(tcp, Ele, n)
    BY DEF Negocios, Nodo, ListenerBien, Saludando
  <2>2. Conectado(tcp, n, fd) /\ Anunciada(tcp.con[e.con].buf[e.lado])
    BY <1>1, <1>3 DEF NodoFirme, ListenerFirme, Recibido
  <2>3. e.lado = 2
    <3> HIDE DEF fd
    <3> QED
      BY <1>1, <2>1, <2>2, DirectoEs
  <2>4. Anunciada(k.con[e.con].buf[2])
    BY <1>3, <1>7, <2>2, <2>3 DEF Conserva
  <2>5. Recibido(k, n, fd) = k.con[e.con].buf[2]
    BY <1>3, <2>3 DEF Recibido
  <2> QED
    BY <2>4, <2>5
<1> QED
  BY <1>2, <1>4, <1>5, <1>6, <1>7

LEMMA FirmeDe ==
  ASSUME Tipos, Apagados, Negocios, Firme, NEW n \in Node, Solo(n), UNCHANGED Ele,
         Sigue(tcp, tcp', Ele, n), RedFirme(tcp'),
         MapasFirmes(tcp', n, router'[n]),
         CursoFirme(tcp', n, router'[n], routerEvents'[n]),
         ListenerFirme(tcp', n, listener'[n]),
         AvisosFirmes(Directos(tcp', Ele, n), routerEvents'[n]),
         0 \notin Abiertos(tcp', n)
  PROVE  Firme'
<1>1. \A m \in Node : m # n => NodoFirme(m)'
  <2>1. \A m \in Node : m # n => /\ router'[m] = router[m] /\ listener'[m] = listener[m]
                                 /\ routerEvents'[m] = routerEvents[m]
    BY DEF Solo
  <2> QED
    BY <2>1, OtroFirme
<1>2. NodoFirme(n)'
  <2>1. Directos(tcp, Ele, n)' = Directos(tcp', Ele, n)
    OBVIOUS
  <2>2. MapasFirmes(tcp, n, router[n])'
    BY DEF MapasFirmes, VecinosFirmes, ServidorFirme, Vecinal
  <2> QED
    BY <2>1, <2>2 DEF NodoFirme
<1>3. RedFirme(tcp)'
  BY DEF RedFirme
<1> QED
  BY <1>1, <1>2, <1>3 DEF Firme

LEMMA PasoFirme ==
  ASSUME Tipos, Apagados, Negocios, Firme, NEW n \in Node, Toca(n),
         UNCHANGED <<cuenta, vivo>>, Obra(n, tcp'),
         MapasFirmes(tcp, n, router'[n]),
         CursoFirme(tcp, n, router'[n], routerEvents'[n]),
         listener'[n].paso = "nombre" => /\ Conserva(tcp') /\ listener[n].paso = "nombre"
                                         /\ listener'[n].newfd = listener[n].newfd,
         AvisosFirmes(Directos(tcp', Ele, n), routerEvents'[n])
  PROVE  Firme'
<1>1. Solo(n)
  BY ElVivo
<1>2. UNCHANGED Ele
  BY DEF Ele
<1>3. Sigue(tcp, tcp', Ele, n)
  BY DEF Obra, Hasta
<1>4. RedFirme(tcp')
  BY ObraRed DEF Firme
<1>5. /\ MapasFirmes(tcp', n, router'[n])
      /\ CursoFirme(tcp', n, router'[n], routerEvents'[n])
      /\ 0 \notin Abiertos(tcp', n)
      /\ Conserva(tcp') => ListenerFirme(tcp', n, listener[n])
  BY ObraNodo
<1>6. ListenerFirme(tcp', n, listener'[n])
  BY <1>5 DEF ListenerFirme
<1> QED
  BY <1>1, <1>2, <1>3, <1>4, <1>5, <1>6, FirmeDe

(* The Router is done with its event.                                      *)
LEMMA FinFirme ==
  ASSUME Tipos, Apagados, Negocios, Firme, NEW n \in Node, RouterStep(n),
         routerEvents[n] # <<>>, FinRouter(n, <<>>),
         UNCHANGED <<cuenta, vivo>>, Obra(n, tcp'), n \in Compradores \/ Conserva(tcp'),
         MapasFirmes(tcp, n, router'[n]), router'[n].paso = "libre",
         listener'[n].paso = listener[n].paso, listener'[n].newfd = listener[n].newfd
  PROVE  Firme'
<1>1. Toca(n)
  BY TocaRouter
<1>2. CursoFirme(tcp, n, router'[n], routerEvents'[n])
  BY DEF CursoFirme, Entrando
<1>3. listener[n].paso = "nombre" => n \notin Compradores
  BY DEF Negocios, Nodo, ListenerBien, Saludando
<1>4. AvisosFirmes(Directos(tcp', Ele, n), routerEvents'[n])
  <2>1. routerEvents'[n] = Tail(routerEvents[n])
    BY FinEs
  <2>2. AvisosFirmes(Directos(tcp, Ele, n), routerEvents[n]) /\ EsSeq(routerEvents[n])
    BY DEF Firme, NodoFirme, Tipos, Colas, ColaOK
  <2>3. Directos(tcp, Ele, n) \subseteq Directos(tcp', Ele, n)
    BY ObraNodo
  <2> QED
    BY <2>1, <2>2, <2>3, AvisosQuedan
<1> QED
  BY <1>1, <1>2, <1>3, <1>4, PasoFirme
=============================================================================
