---------------------------- MODULE DelegatesProofs ----------------------------
(***************************************************************************)
(* That the tables of the accounts are those of the chain, that votes are  *)
(* for delegates, that second signatures are honoured, and that every fee   *)
(* is accounted for, for any accounts, names, transactions and bounds; and  *)
(* that the list of a round has every elected delegate once.                *)
(*                                                                          *)
(* The invariant is a history of the tables: each block leads from those    *)
(* below it to its own by transactions that fit, which is what makes an     *)
(* undo the inverse of an apply.                                            *)
(***************************************************************************)
EXTENDS Delegates, DelegateList, ListsProofs

-----------------------------------------------------------------------------
(* Types *)

\* What clients and other nodes can send.
Sent == UNION Offers

Amounts == [Account -> Int]
OneOffs == SUBSET [of : Account \cup Name, kind : Kind]
Tables == [balance : Amounts, isDelegate : SUBSET Account,
           username : [Account -> Name \cup {NoName}], secondSignature : SUBSET Account,
           delegates : [Account -> SUBSET Account]]

\* What transactions are applied to.
States == [acc : Tables, u_balance : Amounts, oneoff : OneOffs, pool : Seq(Sent), kept : Amounts]

\* The parts of a transaction.
LEMMA SentTypes ==
  ASSUME NEW t \in Sent
  PROVE  /\ t.sender \in Account /\ t.kind \in Kind /\ t.name \in Name
         /\ t.adds \in SUBSET Account /\ t.removes \in SUBSET Account
         /\ t.adds \cap t.removes = {}
         /\ t.id \in Nat /\ t.signed \in Account \cup {Nobody}
<1>1. t \in Transaction /\ t.adds \cap t.removes = {}
  BY ConstantsAssumption DEF Sent
<1> QED BY <1>1 DEF Transaction

\* The parts of a state.
LEMMA StateTypes ==
  ASSUME NEW s \in States
  PROVE  /\ s.acc \in Tables /\ s.u_balance \in Amounts /\ s.oneoff \in OneOffs
         /\ s.pool \in Seq(Sent) /\ s.kept \in Amounts
  BY DEF States

\* The tables.
LEMMA TableTypes ==
  ASSUME NEW x \in Tables
  PROVE  /\ x.balance \in Amounts /\ x.isDelegate \in SUBSET Account
         /\ x.username \in [Account -> Name \cup {NoName}]
         /\ x.secondSignature \in SUBSET Account
         /\ x.delegates \in [Account -> SUBSET Account]
  BY DEF Tables

\* The keys of a transaction.
LEMMA KeyTypes ==
  ASSUME NEW t \in Sent
  PROVE  Keys(t) \in OneOffs /\ Released(t) \in OneOffs /\ IdKey(t) \in Keys(t)
<1>1. t.sender \in Account \cup Name /\ t.name \in Account \cup Name /\ t.kind \in Kind
  BY SentTypes
<1>2. IdKey(t) \in [of : Account \cup Name, kind : Kind] /\ NameKey(t) \in [of : Account \cup Name, kind : Kind]
  BY <1>1 DEF IdKey, NameKey
<1> DEFINE R == [of : Account \cup Name, kind : Kind]
<1>3. IdKey(t) \in R /\ NameKey(t) \in R
  BY <1>2
<1> HIDE DEF R
<1>4. Keys(t) \in SUBSET R /\ Released(t) \in SUBSET R /\ IdKey(t) \in Keys(t)
  BY <1>3 DEF Keys, Released
<1> QED BY <1>4 DEF R, OneOffs

\* An amount is changed for one account.
LEMMA ChangedIs ==
  ASSUME NEW f \in Amounts, NEW a \in Account, NEW n \in Int
  PROVE  /\ Changed(f, a, n) \in Amounts
         /\ \A c \in Account : Changed(f, a, n)[c] = IF c = a THEN f[c] + n ELSE f[c]
<1>1. f[a] + n \in Int
  BY DEF Amounts
<1> QED BY <1>1 DEF Changed, Amounts

\* By one or back.
LEMMA ChangedAt ==
  ASSUME NEW f \in Amounts, NEW a \in Account
  PROVE  \A c \in Account :
           /\ Changed(f, a, 1)[c] = IF c = a THEN f[c] + 1 ELSE f[c]
           /\ Changed(f, a, -1)[c] = IF c = a THEN f[c] + (-1) ELSE f[c]
<1>1. 1 \in Int /\ -1 \in Int
  OBVIOUS
<1>2. \A c \in Account : Changed(f, a, 1)[c] = IF c = a THEN f[c] + 1 ELSE f[c]
  BY <1>1, ChangedIs
<1> DEFINE m == -1
<1>3. m \in Int
  OBVIOUS
<1> HIDE DEF m
<1>4. \A c \in Account : Changed(f, a, m)[c] = IF c = a THEN f[c] + m ELSE f[c]
  BY <1>3, ChangedIs
<1> QED BY <1>2, <1>4 DEF m

\* The value of a is v.
Put(f, a, v) == [f EXCEPT ![a] = v]

\* Tables are equal if all columns are.
LEMMA TablesEqual ==
  ASSUME NEW x \in Tables, NEW y \in Tables, x.balance = y.balance, x.isDelegate = y.isDelegate,
         x.username = y.username, x.secondSignature = y.secondSignature, x.delegates = y.delegates
  PROVE  x = y
  BY DEF Tables

\* One column or two are set, and the others stay.
LEMMA ColumnsSet ==
  ASSUME NEW x \in Tables, NEW m \in Amounts, NEW d \in SUBSET Account,
         NEW u \in [Account -> Name \cup {NoName}], NEW v \in [Account -> SUBSET Account]
  PROVE  /\ [x EXCEPT !.balance = m] \in Tables
         /\ [x EXCEPT !.secondSignature = d] \in Tables
         /\ [x EXCEPT !.isDelegate = d, !.username = u] \in Tables
         /\ [x EXCEPT !.delegates = v] \in Tables
<1>1. [x EXCEPT !.balance = m] \in Tables
  BY DEF Tables
<1>2. [x EXCEPT !.secondSignature = d] \in Tables
  BY DEF Tables
<1>3. [x EXCEPT !.isDelegate = d, !.username = u] \in Tables
  BY DEF Tables
<1>4. [x EXCEPT !.delegates = v] \in Tables
  BY DEF Tables
<1> QED BY <1>1, <1>2, <1>3, <1>4

\* What apply makes of the columns.
LEMMA ApplyIs ==
  ASSUME NEW acc \in Tables, NEW t \in Sent, NEW r, r = Apply(acc, t)
  PROVE  /\ r \in Tables /\ r.balance = Changed(acc.balance, t.sender, -1)
         /\ r.isDelegate = IF t.kind = "delegate" THEN acc.isDelegate \cup {t.sender}
                           ELSE acc.isDelegate
         /\ r.username = IF t.kind = "delegate" THEN Put(acc.username, t.sender, t.name)
                         ELSE acc.username
         /\ r.secondSignature = IF t.kind = "signature" THEN acc.secondSignature \cup {t.sender}
                                ELSE acc.secondSignature
         /\ r.delegates = IF t.kind = "vote" THEN Put(acc.delegates, t.sender, (acc.delegates[t.sender] \ t.removes) \cup t.adds)
                          ELSE acc.delegates
<1> DEFINE m == Changed(acc.balance, t.sender, -1)
           paid == [acc EXCEPT !.balance = m]
           d == acc.isDelegate \cup {t.sender}
           u == Put(acc.username, t.sender, t.name)
           s == acc.secondSignature \cup {t.sender}
           v == Put(acc.delegates, t.sender, (acc.delegates[t.sender] \ t.removes) \cup t.adds)
<1>1. /\ acc.balance \in Amounts /\ acc.isDelegate \in SUBSET Account
      /\ acc.username \in [Account -> Name \cup {NoName}]
      /\ acc.secondSignature \in SUBSET Account
      /\ acc.delegates \in [Account -> SUBSET Account]
  BY TableTypes
<1>2. /\ t.sender \in Account /\ t.kind \in {"signature", "delegate", "vote"} /\ t.name \in Name
      /\ t.adds \in SUBSET Account /\ t.removes \in SUBSET Account
  BY SentTypes DEF Kind
<1>3. m \in Amounts
  BY <1>1, <1>2, ChangedIs
<1>4. d \in SUBSET Account /\ s \in SUBSET Account
  BY <1>1, <1>2
<1>5. u \in [Account -> Name \cup {NoName}]
  BY <1>1, <1>2 DEF Put
<1>6. v \in [Account -> SUBSET Account]
  BY <1>1, <1>2 DEF Put
<1> HIDE DEF m
<1>7. paid \in Tables /\ paid.balance = m
      /\ paid.isDelegate = acc.isDelegate /\ paid.username = acc.username
      /\ paid.secondSignature = acc.secondSignature /\ paid.delegates = acc.delegates
  BY <1>3 DEF Tables
<1> HIDE DEF d, u, s, v
<1>8. CASE t.kind = "signature"
  <2>1. r = [paid EXCEPT !.secondSignature = s]
    BY <1>7, <1>8 DEF Apply, m, s
  <2> HIDE DEF paid
  <2>2. r \in Tables /\ r.secondSignature = s /\ r.balance = m /\ r.isDelegate = acc.isDelegate
        /\ r.username = acc.username /\ r.delegates = acc.delegates
    BY <1>4, <1>7, <2>1 DEF Tables
  <2> QED BY <1>8, <2>2 DEF m, s
<1>9. CASE t.kind = "delegate"
  <2>1. r = [paid EXCEPT !.isDelegate = d, !.username = u]
    BY <1>7, <1>9 DEF Apply, m, d, u, Put
  <2> HIDE DEF paid
  <2>2. r \in Tables /\ r.secondSignature = acc.secondSignature /\ r.balance = m /\ r.isDelegate = d
        /\ r.username = u /\ r.delegates = acc.delegates
    BY <1>4, <1>5, <1>7, <2>1 DEF Tables
  <2> QED BY <1>9, <2>2 DEF m, d, u
<1>10. CASE t.kind = "vote"
  <2>1. r = [paid EXCEPT !.delegates = v]
    <3> DEFINE w == [paid.delegates EXCEPT ![t.sender] = (acc.delegates[t.sender] \ t.removes) \cup t.adds]
    <3>1. r = [paid EXCEPT !.delegates = w]
      BY <1>10 DEF Apply, m
    <3>2. w = v
      <4> DEFINE k == t.sender
                 g == paid.delegates
      <4>1. g = acc.delegates
        BY <1>7
      <4> HIDE DEF paid
      <4> QED BY <4>1 DEF v, Put
    <3> HIDE DEF w, paid
    <3> QED BY <3>1, <3>2
  <2> HIDE DEF paid
  <2>2. r \in Tables /\ r.secondSignature = acc.secondSignature /\ r.balance = m /\ r.isDelegate = acc.isDelegate
        /\ r.username = acc.username /\ r.delegates = v
    BY <1>6, <1>7, <2>1 DEF Tables
  <2> QED BY <1>10, <2>2 DEF m, v
<1> QED BY <1>2, <1>8, <1>9, <1>10

\* What undo makes of the columns.
LEMMA UndoIs ==
  ASSUME NEW acc \in Tables, NEW t \in Sent, NEW r, r = Undo(acc, t)
  PROVE  /\ r \in Tables /\ r.balance = Changed(acc.balance, t.sender, 1)
         /\ r.isDelegate = IF t.kind = "delegate" THEN acc.isDelegate \ {t.sender}
                           ELSE acc.isDelegate
         /\ r.username = IF t.kind = "delegate" THEN Put(acc.username, t.sender, NoName)
                         ELSE acc.username
         /\ r.secondSignature = IF t.kind = "signature" THEN acc.secondSignature \ {t.sender}
                                ELSE acc.secondSignature
         /\ r.delegates = IF t.kind = "vote" THEN Put(acc.delegates, t.sender, (acc.delegates[t.sender] \ t.adds) \cup t.removes)
                          ELSE acc.delegates
<1> DEFINE m == Changed(acc.balance, t.sender, 1)
           paid == [acc EXCEPT !.balance = m]
           d == acc.isDelegate \ {t.sender}
           u == Put(acc.username, t.sender, NoName)
           s == acc.secondSignature \ {t.sender}
           v == Put(acc.delegates, t.sender, (acc.delegates[t.sender] \ t.adds) \cup t.removes)
<1>1. /\ acc.balance \in Amounts /\ acc.isDelegate \in SUBSET Account
      /\ acc.username \in [Account -> Name \cup {NoName}]
      /\ acc.secondSignature \in SUBSET Account
      /\ acc.delegates \in [Account -> SUBSET Account]
  BY TableTypes
<1>2. /\ t.sender \in Account /\ t.kind \in {"signature", "delegate", "vote"} /\ t.name \in Name
      /\ t.adds \in SUBSET Account /\ t.removes \in SUBSET Account
  BY SentTypes DEF Kind
<1>3. m \in Amounts
  BY <1>1, <1>2, ChangedIs
<1>4. d \in SUBSET Account /\ s \in SUBSET Account
  BY <1>1, <1>2
<1>5. u \in [Account -> Name \cup {NoName}]
  BY <1>1, <1>2 DEF Put
<1>6. v \in [Account -> SUBSET Account]
  BY <1>1, <1>2 DEF Put
<1> HIDE DEF m
<1>7. paid \in Tables /\ paid.balance = m
      /\ paid.isDelegate = acc.isDelegate /\ paid.username = acc.username
      /\ paid.secondSignature = acc.secondSignature /\ paid.delegates = acc.delegates
  BY <1>3 DEF Tables
<1> HIDE DEF d, u, s, v
<1>8. CASE t.kind = "signature"
  <2>1. r = [paid EXCEPT !.secondSignature = s]
    BY <1>7, <1>8 DEF Undo, m, s
  <2> HIDE DEF paid
  <2>2. r \in Tables /\ r.secondSignature = s /\ r.balance = m /\ r.isDelegate = acc.isDelegate
        /\ r.username = acc.username /\ r.delegates = acc.delegates
    BY <1>4, <1>7, <2>1 DEF Tables
  <2> QED BY <1>8, <2>2 DEF m, s
<1>9. CASE t.kind = "delegate"
  <2>1. r = [paid EXCEPT !.isDelegate = d, !.username = u]
    BY <1>7, <1>9 DEF Undo, m, d, u, Put
  <2> HIDE DEF paid
  <2>2. r \in Tables /\ r.secondSignature = acc.secondSignature /\ r.balance = m /\ r.isDelegate = d
        /\ r.username = u /\ r.delegates = acc.delegates
    BY <1>4, <1>5, <1>7, <2>1 DEF Tables
  <2> QED BY <1>9, <2>2 DEF m, d, u
<1>10. CASE t.kind = "vote"
  <2>1. r = [paid EXCEPT !.delegates = v]
    <3> DEFINE w == [paid.delegates EXCEPT ![t.sender] = (acc.delegates[t.sender] \ t.adds) \cup t.removes]
    <3>1. r = [paid EXCEPT !.delegates = w]
      BY <1>10 DEF Undo, m
    <3>2. w = v
      <4> DEFINE k == t.sender
                 g == paid.delegates
      <4>1. g = acc.delegates
        BY <1>7
      <4> HIDE DEF paid
      <4> QED BY <4>1 DEF v, Put
    <3> HIDE DEF w, paid
    <3> QED BY <3>1, <3>2
  <2> HIDE DEF paid
  <2>2. r \in Tables /\ r.secondSignature = acc.secondSignature /\ r.balance = m /\ r.isDelegate = acc.isDelegate
        /\ r.username = acc.username /\ r.delegates = v
    BY <1>6, <1>7, <2>1 DEF Tables
  <2> QED BY <1>10, <2>2 DEF m, v
<1> QED BY <1>2, <1>8, <1>9, <1>10
-----------------------------------------------------------------------------
(* One transaction *)

\* What apply relies on, and undo takes back.
Fits(acc, t) ==
  /\ Signer(t) \in acc.secondSignature => t.signed # Nobody
  /\ t.kind = "signature" => t.sender \notin acc.secondSignature
  /\ t.kind = "delegate" => t.sender \notin acc.isDelegate /\ acc.username[t.sender] = NoName
  /\ t.kind = "vote" => t.adds \cap acc.delegates[t.sender] = {} /\ t.removes \subseteq acc.delegates[t.sender]

\* undo takes back what apply did.
LEMMA UndoApply ==
  ASSUME NEW acc \in Tables, NEW t \in Sent, Fits(acc, t)
  PROVE  Undo(Apply(acc, t), t) = acc
<1> DEFINE x == Apply(acc, t)
           y == Undo(x, t)
           vs == acc.delegates[t.sender]
           ws == (vs \ t.removes) \cup t.adds
<1>1. /\ acc.balance \in Amounts /\ acc.isDelegate \in SUBSET Account
      /\ acc.username \in [Account -> Name \cup {NoName}]
      /\ acc.secondSignature \in SUBSET Account
      /\ acc.delegates \in [Account -> SUBSET Account]
  BY TableTypes
<1>2. /\ t.sender \in Account /\ t.kind \in {"signature", "delegate", "vote"} /\ t.name \in Name
      /\ t.adds \in SUBSET Account /\ t.removes \in SUBSET Account /\ t.adds \cap t.removes = {}
  BY SentTypes DEF Kind
<1>3. /\ x \in Tables /\ x.balance = Changed(acc.balance, t.sender, -1)
      /\ x.isDelegate = IF t.kind = "delegate" THEN acc.isDelegate \cup {t.sender}
                        ELSE acc.isDelegate
      /\ x.username = IF t.kind = "delegate" THEN Put(acc.username, t.sender, t.name)
                      ELSE acc.username
      /\ x.secondSignature = IF t.kind = "signature" THEN acc.secondSignature \cup {t.sender}
                             ELSE acc.secondSignature
      /\ x.delegates = IF t.kind = "vote" THEN Put(acc.delegates, t.sender, ws) ELSE acc.delegates
  BY ApplyIs
<1> HIDE DEF x
<1>4. /\ y \in Tables /\ y.balance = Changed(x.balance, t.sender, 1)
      /\ y.isDelegate = IF t.kind = "delegate" THEN x.isDelegate \ {t.sender} ELSE x.isDelegate
      /\ y.username = IF t.kind = "delegate" THEN Put(x.username, t.sender, NoName)
                      ELSE x.username
      /\ y.secondSignature = IF t.kind = "signature" THEN x.secondSignature \ {t.sender}
                             ELSE x.secondSignature
      /\ y.delegates = IF t.kind = "vote" THEN Put(x.delegates, t.sender, (x.delegates[t.sender] \ t.adds) \cup t.removes)
                       ELSE x.delegates
  BY <1>3, UndoIs
<1> HIDE DEF y
<1>5. y.balance = acc.balance
  <2>1. \A a \in Account : acc.balance[a] \in Int
    BY <1>1 DEF Amounts
  <2>2. /\ x.balance \in Amounts
        /\ \A a \in Account : x.balance[a] = IF a = t.sender THEN acc.balance[a] + (-1)
                                             ELSE acc.balance[a]
    BY <1>1, <1>2, <1>3, ChangedIs
  <2>3. /\ y.balance \in Amounts
        /\ \A a \in Account : y.balance[a] = IF a = t.sender THEN x.balance[a] + 1
                                             ELSE x.balance[a]
    BY <1>2, <1>4, <2>2, ChangedIs
  <2>4. \A a \in Account : y.balance[a] = acc.balance[a]
    BY <2>1, <2>2, <2>3
  <2> QED BY <1>1, <2>3, <2>4 DEF Amounts
<1>6. y.isDelegate = acc.isDelegate
  BY <1>3, <1>4 DEF Fits
<1>7. y.secondSignature = acc.secondSignature
  BY <1>3, <1>4 DEF Fits
<1>8. y.username = acc.username
  <2>1. CASE t.kind = "delegate"
    <3>1. NoName = acc.username[t.sender]
      BY <2>1 DEF Fits
    <3>2. NoName \in Name \cup {NoName} /\ t.name \in Name \cup {NoName}
      BY <1>2
    <3>3. y.username = Put(Put(acc.username, t.sender, t.name), t.sender, NoName)
      BY <1>3, <1>4, <2>1
    <3> DEFINE S == Name \cup {NoName}
               f == acc.username
               a == t.sender
               v == t.name
    <3>4. f \in [Account -> S] /\ a \in Account /\ v \in S /\ NoName \in S /\ NoName = f[a]
      BY <1>1, <1>2, <3>1, <3>2
    <3> HIDE DEF S, f, a, v
    <3>5. Put(Put(f, a, v), a, NoName) = f
      BY <3>4 DEF Put
    <3> QED BY <3>3, <3>5 DEF f, a, v
  <2>2. CASE t.kind # "delegate"
    BY <1>3, <1>4, <2>2
  <2> QED BY <2>1, <2>2
<1>9. y.delegates = acc.delegates
  <2>1. CASE t.kind = "vote"
    <3>1. t.adds \cap vs = {} /\ t.removes \subseteq vs /\ vs \in SUBSET Account
      BY <1>1, <1>2, <2>1 DEF Fits
    <3> HIDE DEF vs
    <3>2. (ws \ t.adds) \cup t.removes = vs /\ ws \in SUBSET Account
      BY <1>2, <3>1
    <3>3. x.delegates = Put(acc.delegates, t.sender, ws)
      BY <1>3, <2>1
    <3> HIDE DEF ws
    <3> DEFINE S == SUBSET Account
               f == acc.delegates
               a == t.sender
    <3>4. f \in [Account -> S] /\ a \in Account /\ ws \in S /\ vs \in S /\ vs = f[a]
      BY <1>1, <1>2, <3>1, <3>2 DEF vs
    <3>5. x.delegates = Put(f, a, ws)
      BY <3>3
    <3>6. y.delegates = Put(x.delegates, a, (x.delegates[a] \ t.adds) \cup t.removes)
      BY <1>4, <2>1
    <3> HIDE DEF S, f, a
    <3> DEFINE v == ws
               w == vs
    <3>9. v \in S /\ w \in S /\ w = f[a]
      BY <3>4
    <3> HIDE DEF v, w
    <3>10. Put(f, a, v)[a] = v /\ Put(Put(f, a, v), a, w) = f
      BY <3>4, <3>9 DEF Put
    <3>7. Put(f, a, ws)[a] = ws /\ Put(Put(f, a, ws), a, vs) = f
      BY <3>10 DEF v, w
    <3>8. y.delegates = Put(Put(f, a, ws), a, vs)
      BY <3>2, <3>5, <3>6, <3>7
    <3> QED BY <3>7, <3>8 DEF f
  <2>2. CASE t.kind # "vote"
    BY <1>3, <1>4, <2>2
  <2> QED BY <2>1, <2>2
<1>10. y = acc
  BY <1>4, <1>5, <1>6, <1>7, <1>8, <1>9, TablesEqual
<1> QED BY <1>10 DEF x, y

\* The parts of a state that are set, and the others.
LEMMA PartsSet ==
  ASSUME NEW s \in States, NEW x \in Tables, NEW m \in Amounts, NEW o \in OneOffs,
         NEW p \in Seq(Sent)
  PROVE  /\ [s EXCEPT !.u_balance = m] \in States
         /\ [s EXCEPT !.oneoff = o] \in States
         /\ [s EXCEPT !.kept = m] \in States
         /\ [s EXCEPT !.pool = p] \in States
         /\ [s EXCEPT !.acc = x] \in States
         /\ [s EXCEPT !.acc = x, !.pool = p] \in States
         /\ [s EXCEPT !.u_balance = m, !.oneoff = o] \in States
<1>1. [s EXCEPT !.u_balance = m] \in States /\ [s EXCEPT !.oneoff = o] \in States
  BY DEF States
<1>2. [s EXCEPT !.kept = m] \in States /\ [s EXCEPT !.pool = p] \in States
  BY DEF States
<1>3. [s EXCEPT !.acc = x] \in States /\ [s EXCEPT !.acc = x, !.pool = p] \in States
  BY DEF States
<1>4. [s EXCEPT !.u_balance = m, !.oneoff = o] \in States
  BY DEF States
<1> QED BY <1>1, <1>2, <1>3, <1>4

\* applyUnconfirmed takes the fee, or keeps it, and notes the keys.
LEMMA HoldIs ==
  ASSUME NEW s \in States, NEW t \in Sent, NEW r, r = Hold(s, t)
  PROVE  /\ r \in States /\ r.acc = s.acc /\ r.pool = s.pool
         /\ r.oneoff = IF Holds(s, t) THEN s.oneoff \cup Keys(t) ELSE s.oneoff
         /\ r.u_balance = IF Payable(s, t) THEN Changed(s.u_balance, t.sender, -1)
                          ELSE s.u_balance
         /\ r.kept = IF Payable(s, t) /\ ~Holds(s, t) THEN Changed(s.kept, t.sender, 1)
                     ELSE s.kept
<1> DEFINE m == Changed(s.u_balance, t.sender, -1)
           k == Changed(s.kept, t.sender, 1)
           o == s.oneoff \cup Keys(t)
           p == [s EXCEPT !.u_balance = m]
<1>1. m \in Amounts /\ k \in Amounts
  BY SentTypes, StateTypes, ChangedIs
<1>2. o \in OneOffs
  BY KeyTypes, StateTypes DEF OneOffs
<1> HIDE DEF m, k, o
<1>3. /\ p \in States /\ p.u_balance = m /\ p.acc = s.acc /\ p.pool = s.pool
      /\ p.oneoff = s.oneoff
      /\ p.kept = s.kept
  BY <1>1 DEF States
<1> HIDE DEF p
<1>4. Pay(s, t) = p
  BY DEF Pay, m, p
<1>5. CASE ~Payable(s, t)
  BY <1>5 DEF Hold, Holds
<1>6. CASE Payable(s, t) /\ Admitted(s, t)
  <2>1. r = [p EXCEPT !.oneoff = o]
    BY <1>3, <1>4, <1>6 DEF Hold, o
  <2>2. /\ r \in States /\ r.u_balance = m /\ r.acc = s.acc /\ r.pool = s.pool /\ r.oneoff = o
        /\ r.kept = s.kept
    BY <1>2, <1>3, <2>1 DEF States
  <2> QED BY <1>6, <2>2 DEF Holds, m, o
<1>7. CASE Payable(s, t) /\ ~Admitted(s, t)
  <2>1. r = [p EXCEPT !.kept = k]
    BY <1>3, <1>4, <1>7 DEF Hold, k
  <2>2. /\ r \in States /\ r.u_balance = m /\ r.acc = s.acc /\ r.pool = s.pool /\ r.oneoff = s.oneoff
        /\ r.kept = k
    BY <1>1, <1>3, <2>1 DEF States
  <2> QED BY <1>7, <2>2 DEF Holds, m, k
<1> QED BY <1>5, <1>6, <1>7

\* undoUnconfirmed gives the fee back.
LEMMA ReleaseIs ==
  ASSUME NEW s \in States, NEW t \in Sent, NEW r, r = Release(s, t)
  PROVE  /\ r \in States /\ r.acc = s.acc /\ r.pool = s.pool /\ r.kept = s.kept
         /\ r.u_balance = Changed(s.u_balance, t.sender, 1)
<1> DEFINE m == Changed(s.u_balance, t.sender, 1)
           o == s.oneoff \ Released(t)
<1>1. m \in Amounts
  BY SentTypes, StateTypes, ChangedIs
<1>2. o \in OneOffs
  BY StateTypes DEF OneOffs
<1>3. r = [s EXCEPT !.u_balance = m, !.oneoff = o]
  BY DEF Release
<1> HIDE DEF m, o
<1>4. r \in States /\ r.acc = s.acc /\ r.pool = s.pool /\ r.kept = s.kept /\ r.u_balance = m
  BY <1>1, <1>2, <1>3 DEF States
<1> QED BY <1>4 DEF m

\* In a block, it does so and is applied.
LEMMA ApplyBothIs ==
  ASSUME NEW s \in States, NEW t \in Sent, NEW r, r = ApplyBoth(s, t)
  PROVE  /\ r \in States /\ r.acc = Apply(s.acc, t) /\ r.pool = s.pool
         /\ r.oneoff = Hold(s, t).oneoff
         /\ r.u_balance = Hold(s, t).u_balance
         /\ r.kept = Hold(s, t).kept
<1> DEFINE h == Hold(s, t)
           x == Apply(s.acc, t)
<1>1. h \in States /\ h.acc = s.acc /\ h.pool = s.pool
  BY HoldIs
<1>2. x \in Tables
  BY ApplyIs, StateTypes
<1> HIDE DEF h
<1>3. r = [h EXCEPT !.acc = x]
  BY <1>1 DEF ApplyBoth, h
<1> HIDE DEF x
<1>4. /\ r \in States /\ r.acc = x /\ r.pool = h.pool /\ r.oneoff = h.oneoff
      /\ r.u_balance = h.u_balance /\ r.kept = h.kept
  BY <1>1, <1>2, <1>3 DEF States
<1> QED BY <1>1, <1>4 DEF h, x

\* When the block is popped, the fee is given back twice, and it leaves the pool.
LEMMA UndoBothIs ==
  ASSUME NEW s \in States, NEW t \in Sent, NEW r, r = UndoBoth(s, t)
  PROVE  /\ r \in States /\ r.acc = Undo(s.acc, t) /\ r.pool = Without(s.pool, {t})
         /\ r.kept = s.kept
         /\ r.u_balance = Changed(s.u_balance, t.sender, 1)
<1> DEFINE h == Release(s, t)
           x == Undo(s.acc, t)
           p == Without(s.pool, {t})
<1>1. /\ h \in States /\ h.acc = s.acc /\ h.pool = s.pool /\ h.kept = s.kept
      /\ h.u_balance = Changed(s.u_balance, t.sender, 1)
  BY ReleaseIs
<1>2. x \in Tables
  BY UndoIs, StateTypes
<1>3. p \in Seq(Sent)
  <2>1. p \in Seq(Sent \ {t})
    BY StateTypes, WithoutIs
  <2> QED BY <2>1
<1> HIDE DEF h
<1>4. r = [h EXCEPT !.acc = x, !.pool = p]
  BY <1>1 DEF UndoBoth, h
<1> HIDE DEF x, p
<1>5. /\ r \in States /\ r.acc = x /\ r.pool = p /\ r.kept = h.kept /\ r.u_balance = h.u_balance
  BY <1>1, <1>2, <1>3, <1>4 DEF States
<1> QED BY <1>1, <1>5 DEF x, p
-----------------------------------------------------------------------------
(* Transactions of an account *)

\* How many of a set are of an account, with one more.
LEMMA OfAccountIs ==
  ASSUME NEW S, IsFiniteSet(S), NEW x, x \notin S, NEW a
  PROVE  /\ OfAccount({}, a) = 0 /\ OfAccount(S, a) \in Nat
         /\ OfAccount(S \cup {x}, a) = IF x.sender = a THEN OfAccount(S, a) + 1
                                       ELSE OfAccount(S, a)
<1> DEFINE R == {t \in S : t.sender = a}
           Q == {t \in S \cup {x} : t.sender = a}
<1>1. R \in SUBSET S /\ x \notin R
  OBVIOUS
<1>2. IsFiniteSet(R) /\ Cardinality(R) \in Nat
  BY <1>1, FS_Subset, FS_CardinalityType
<1>3. {t \in {} : t.sender = a} = {}
  OBVIOUS
<1>4. OfAccount({}, a) = 0
  BY <1>3, FS_EmptySet DEF OfAccount
<1>5. CASE x.sender = a
  <2>1. Q = R \cup {x}
    BY <1>5
  <2>2. Cardinality(R \cup {x}) = Cardinality(R) + 1
    BY <1>1, <1>2, FS_AddElement
  <2> QED BY <1>2, <1>4, <1>5, <2>1, <2>2 DEF OfAccount
<1>6. CASE x.sender # a
  <2>1. Q = R
    BY <1>6
  <2> QED BY <1>2, <1>4, <1>6, <2>1 DEF OfAccount
<1> QED BY <1>5, <1>6

\* Those in X and those that are not.
LEMMA OfAccountBoth ==
  ASSUME NEW S, IsFiniteSet(S), NEW X \in SUBSET S, NEW a
  PROVE  /\ OfAccount(S, a) = OfAccount(S \ X, a) + OfAccount(X, a)
         /\ OfAccount(X, a) \in Nat /\ OfAccount(S \ X, a) \in Nat
<1> DEFINE R == {t \in X : t.sender = a}
           Q == {t \in S \ X : t.sender = a}
           U == {t \in S : t.sender = a}
<1>1. R \in SUBSET S /\ Q \in SUBSET S /\ R \cap Q = {} /\ U = R \cup Q
  OBVIOUS
<1>2. IsFiniteSet(R) /\ IsFiniteSet(Q)
  BY <1>1, FS_Subset
<1>3. Cardinality(R) \in Nat /\ Cardinality(Q) \in Nat
  BY <1>2, FS_CardinalityType
<1>4. Cardinality(R \cap Q) = 0
  BY <1>1, FS_EmptySet
<1>5. Cardinality(R \cup Q) = Cardinality(R) + Cardinality(Q) - Cardinality(R \cap Q)
  <2> HIDE DEF R, Q
  <2> QED BY <1>2, FS_Union
<1>6. OfAccount(S, a) = Cardinality(U) /\ OfAccount(X, a) = Cardinality(R) /\ OfAccount(S \ X, a) = Cardinality(Q)
  BY DEF OfAccount
<1> HIDE DEF R, Q, U
<1> QED BY <1>1, <1>3, <1>4, <1>5, <1>6

\* One more of a list is of its account.
LEMMA FirstOfAccount ==
  ASSUME NEW l \in Seq(Sent), IsInjective(l), NEW i \in 1 .. Len(l), NEW a
  PROVE  /\ OfAccount(First(l, i - 1), a) \in Nat
         /\ OfAccount(First(l, i), a) = IF l[i].sender = a THEN OfAccount(First(l, i - 1), a) + 1
                                        ELSE OfAccount(First(l, i - 1), a)
<1> DEFINE S == First(l, i - 1)
           x == l[i]
<1>1. First(l, i) = S \cup {x} /\ x \notin S
  BY FirstIs
<1>2. IsFiniteSet(S)
  <2>1. i - 1 \in 0 .. Len(l)
    OBVIOUS
  <2> QED BY <2>1, FirstFinite
<1> HIDE DEF S, x
<1>3. /\ OfAccount(S, a) \in Nat
      /\ OfAccount(S \cup {x}, a) = IF x.sender = a THEN OfAccount(S, a) + 1 ELSE OfAccount(S, a)
  BY <1>1, <1>2, OfAccountIs
<1> QED BY <1>1, <1>3 DEF S, x
-----------------------------------------------------------------------------
(* Lists of transactions *)

\* The pool is undone one by one.
LEMMA ReleaseFold ==
  ASSUME NEW s \in States, NEW l \in Seq(Sent), NEW J, s \in J[0],
         \A i \in 1 .. Len(l) : \A x \in States : x \in J[i - 1] => Release(x, l[i]) \in J[i]
  PROVE  FoldLeft(Release, s, l) \in States /\ FoldLeft(Release, s, l) \in J[Len(l)]
<1> DEFINE One(x, t) == Release(x, t)
           G == [p \in States \X Sent |-> One(p[1], p[2])]
           Body(it) == [P \in SUBSET (DOMAIN l) |->
                         IF P = {} THEN s ELSE One(it[P \ {Max(P)}], l[Max(P)])]
           it == CHOOSE it : it = Body(it)
<1>1. \A x \in States, t \in Sent : One(x, t) \in States
  BY ReleaseIs
<1>2. FoldLeft(Release, s, l) = it[DOMAIN l]
  BY DEF FoldLeft, MapThenFoldSet
<1>3. \A i \in 1 .. Len(l) : \A x \in States : x \in J[i - 1] => One(x, l[i]) \in J[i]
  OBVIOUS
<1> HIDE DEF One
<1>4. G \in [States \X Sent -> States] /\ \A x \in States, t \in Sent : G[<<x, t>>] = One(x, t)
  BY <1>1
<1> HIDE DEF G
<1>5. PICK jt : IsFold(jt, s, G, l, States, Sent)
  BY <1>4, FoldExists
<1>6. jt = Body(jt)
  BY <1>4, <1>5 DEF IsFold
<1>7. it = Body(it)
  BY <1>6
<1> HIDE DEF it
<1>8. Follows(it, s, G, l, States)
  <2>1. ASSUME NEW P \in SUBSET (DOMAIN l), P # {}, it[P \ {Max(P)}] \in States
        PROVE  it[P] = G[<<it[P \ {Max(P)}], l[Max(P)]>>]
    <3>1. l[Max(P)] \in Sent
      BY <1>5, <2>1 DEF IsFold
    <3>2. it[P] = One(it[P \ {Max(P)}], l[Max(P)])
      BY <1>7, <2>1
    <3> QED BY <1>4, <2>1, <3>1, <3>2
  <2>2. it[{}] = s
    BY <1>7
  <2> QED BY <2>1, <2>2 DEF Follows
<1>9. Keeps(G, l, States, J)
  BY <1>3, <1>4 DEF Keeps
<1>10. it[DOMAIN l] \in States /\ it[DOMAIN l] \in J[Len(l)]
  BY <1>4, <1>8, <1>9, FoldWithin
<1> QED BY <1>2, <1>10

\* A block is undone one by one.
LEMMA UndoFold ==
  ASSUME NEW s \in States, NEW l \in Seq(Sent), NEW J, s \in J[0],
         \A i \in 1 .. Len(l) : \A x \in States : x \in J[i - 1] => UndoBoth(x, l[i]) \in J[i]
  PROVE  FoldLeft(UndoBoth, s, l) \in States /\ FoldLeft(UndoBoth, s, l) \in J[Len(l)]
<1> DEFINE One(x, t) == UndoBoth(x, t)
           G == [p \in States \X Sent |-> One(p[1], p[2])]
           Body(it) == [P \in SUBSET (DOMAIN l) |->
                         IF P = {} THEN s ELSE One(it[P \ {Max(P)}], l[Max(P)])]
           it == CHOOSE it : it = Body(it)
<1>1. \A x \in States, t \in Sent : One(x, t) \in States
  BY UndoBothIs
<1>2. FoldLeft(UndoBoth, s, l) = it[DOMAIN l]
  BY DEF FoldLeft, MapThenFoldSet
<1>3. \A i \in 1 .. Len(l) : \A x \in States : x \in J[i - 1] => One(x, l[i]) \in J[i]
  OBVIOUS
<1> HIDE DEF One
<1>4. G \in [States \X Sent -> States] /\ \A x \in States, t \in Sent : G[<<x, t>>] = One(x, t)
  BY <1>1
<1> HIDE DEF G
<1>5. PICK jt : IsFold(jt, s, G, l, States, Sent)
  BY <1>4, FoldExists
<1>6. jt = Body(jt)
  BY <1>4, <1>5 DEF IsFold
<1>7. it = Body(it)
  BY <1>6
<1> HIDE DEF it
<1>8. Follows(it, s, G, l, States)
  <2>1. ASSUME NEW P \in SUBSET (DOMAIN l), P # {}, it[P \ {Max(P)}] \in States
        PROVE  it[P] = G[<<it[P \ {Max(P)}], l[Max(P)]>>]
    <3>1. l[Max(P)] \in Sent
      BY <1>5, <2>1 DEF IsFold
    <3>2. it[P] = One(it[P \ {Max(P)}], l[Max(P)])
      BY <1>7, <2>1
    <3> QED BY <1>4, <2>1, <3>1, <3>2
  <2>2. it[{}] = s
    BY <1>7
  <2> QED BY <2>1, <2>2 DEF Follows
<1>9. Keeps(G, l, States, J)
  BY <1>3, <1>4 DEF Keeps
<1>10. it[DOMAIN l] \in States /\ it[DOMAIN l] \in J[Len(l)]
  BY <1>4, <1>8, <1>9, FoldWithin
<1> QED BY <1>2, <1>10

\* The states of receiveTransactions, and of applyBlock.
Receivings == [going : BOOLEAN, s : States]
Processings == [s : States, applied : SUBSET Sent, failed : SUBSET Sent]

\* A step of receiveTransactions: it goes on while what is fresh is added.
LEMMA ReceiveOneIs ==
  ASSUME NEW x \in Receivings, NEW t \in Sent, NEW made, NEW r, r = ReceiveOne(x, t, made)
  PROVE  /\ r \in Receivings /\ x.s \in States
         /\ r.s = IF x.going /\ Fresh(x.s, t, made) THEN Add(x.s, t) ELSE x.s
<1> DEFINE h == Hold(x.s, t)
           p == Append(h.pool, t)
           y == Add(x.s, t)
<1>1. x.s \in States /\ x.going \in BOOLEAN
  BY DEF Receivings
<1>2. h \in States
  BY <1>1, HoldIs
<1> HIDE DEF h
<1>3. p \in Seq(Sent)
  BY <1>2, StateTypes, AppendIs
<1>4. y = IF Holds(x.s, t) THEN [h EXCEPT !.pool = p] ELSE h
  BY DEF Add, h
<1>5. y \in States
  <2> HIDE DEF p, y
  <2>1. [h EXCEPT !.pool = p] \in States
    BY <1>2, <1>3 DEF States
  <2> QED BY <1>2, <1>4, <2>1
<1> HIDE DEF y
<1>6. CASE x.going /\ Fresh(x.s, t, made)
  <2> DEFINE b == Holds(x.s, t)
  <2>1. r = [s |-> y, going |-> b]
    BY <1>6 DEF ReceiveOne, y
  <2>2. b \in BOOLEAN
    BY DEF Holds
  <2> HIDE DEF b
  <2>3. r \in Receivings /\ r.s = y
    BY <1>5, <2>1, <2>2 DEF Receivings
  <2> QED BY <1>1, <1>6, <2>3 DEF y
<1>7. CASE ~(x.going /\ Fresh(x.s, t, made))
  <2>1. r = [x EXCEPT !.going = FALSE]
    BY <1>7 DEF ReceiveOne
  <2>2. r \in Receivings /\ r.s = x.s
    BY <2>1 DEF Receivings
  <2> QED BY <1>1, <1>7, <2>2
<1> QED BY <1>6, <1>7

\* A step of applyBlock from x to r: it goes on while nothing has failed.
IsStep(x, t, r) ==
  /\ x.failed # {} => r = x
  /\ x.failed = {} => \/ /\ Holds(x.s, t) /\ x.s.acc.balance[t.sender] >= 1
                         /\ r.s = ApplyBoth(x.s, t) /\ r.applied = x.applied \cup {t}
                         /\ r.failed = {}
                      \/ r.failed = {t} /\ r.applied = x.applied /\ r.s = Hold(x.s, t)

\* It is a step of this kind.
LEMMA ProcessOneIs ==
  ASSUME NEW x \in Processings, NEW t \in Sent, NEW r, r = ProcessOne(x, t)
  PROVE  r \in Processings /\ IsStep(x, t, r)
<1> DEFINE h == Hold(x.s, t)
           y == ApplyBoth(x.s, t)
           u == x.applied \cup {t}
           f == {t}
<1>1. x.s \in States /\ x.applied \in SUBSET Sent /\ x.failed \in SUBSET Sent
  BY DEF Processings
<1>2. h \in States /\ y \in States
  BY <1>1, HoldIs, ApplyBothIs
<1>3. u \in SUBSET Sent /\ f \in SUBSET Sent /\ f # {}
  BY <1>1
<1>4. CASE x.failed # {}
  BY <1>1, <1>4 DEF ProcessOne, IsStep
<1>5. CASE x.failed = {} /\ Holds(x.s, t) /\ x.s.acc.balance[t.sender] >= 1
  <2>1. r = [x EXCEPT !.s = y, !.applied = u]
    BY <1>5 DEF ProcessOne
  <2> HIDE DEF y, u
  <2>2. r \in Processings /\ r.s = y /\ r.applied = u /\ r.failed = x.failed
    BY <1>2, <1>3, <2>1 DEF Processings
  <2> QED BY <1>1, <1>5, <2>2 DEF y, u, IsStep
<1>6. CASE x.failed = {} /\ ~(Holds(x.s, t) /\ x.s.acc.balance[t.sender] >= 1)
  <2>1. r = [x EXCEPT !.s = h, !.failed = f]
    BY <1>6 DEF ProcessOne
  <2> HIDE DEF h, f
  <2>2. r \in Processings /\ r.s = h /\ r.applied = x.applied /\ r.failed = f
    BY <1>2, <1>3, <2>1 DEF Processings
  <2> QED BY <1>1, <1>6, <2>2 DEF h, f, IsStep
<1> QED BY <1>4, <1>5, <1>6

\* A list is received one by one.
LEMMA ReceiveFold ==
  ASSUME NEW s \in Receivings, NEW l \in Seq(Sent), NEW J, s \in J[0], NEW made,
         \A i \in 1 .. Len(l) : \A x \in Receivings : x \in J[i - 1] => ReceiveOne(x, l[i], made) \in J[i]
  PROVE  ReceiveEach(s, l, made) \in Receivings /\ ReceiveEach(s, l, made) \in J[Len(l)]
<1> DEFINE One(x, t) == ReceiveOne(x, t, made)
           G == [p \in Receivings \X Sent |-> One(p[1], p[2])]
           Body(it) == [P \in SUBSET (DOMAIN l) |->
                         IF P = {} THEN s ELSE One(it[P \ {Max(P)}], l[Max(P)])]
           it == CHOOSE it : it = Body(it)
<1>1. \A x \in Receivings, t \in Sent : One(x, t) \in Receivings
  BY ReceiveOneIs
<1>2. ReceiveEach(s, l, made) = it[DOMAIN l]
  BY DEF FoldLeft, MapThenFoldSet, ReceiveEach
<1>3. \A i \in 1 .. Len(l) : \A x \in Receivings : x \in J[i - 1] => One(x, l[i]) \in J[i]
  OBVIOUS
<1> HIDE DEF One
<1>4. G \in [Receivings \X Sent -> Receivings] /\ \A x \in Receivings, t \in Sent : G[<<x, t>>] = One(x, t)
  BY <1>1
<1> HIDE DEF G
<1>5. PICK jt : IsFold(jt, s, G, l, Receivings, Sent)
  BY <1>4, FoldExists
<1>6. jt = Body(jt)
  BY <1>4, <1>5 DEF IsFold
<1>7. it = Body(it)
  BY <1>6
<1> HIDE DEF it
<1>8. Follows(it, s, G, l, Receivings)
  <2>1. ASSUME NEW P \in SUBSET (DOMAIN l), P # {}, it[P \ {Max(P)}] \in Receivings
        PROVE  it[P] = G[<<it[P \ {Max(P)}], l[Max(P)]>>]
    <3>1. l[Max(P)] \in Sent
      BY <1>5, <2>1 DEF IsFold
    <3>2. it[P] = One(it[P \ {Max(P)}], l[Max(P)])
      BY <1>7, <2>1
    <3> QED BY <1>4, <2>1, <3>1, <3>2
  <2>2. it[{}] = s
    BY <1>7
  <2> QED BY <2>1, <2>2 DEF Follows
<1>9. Keeps(G, l, Receivings, J)
  BY <1>3, <1>4 DEF Keeps
<1>10. it[DOMAIN l] \in Receivings /\ it[DOMAIN l] \in J[Len(l)]
  BY <1>4, <1>8, <1>9, FoldWithin
<1> QED BY <1>2, <1>10

\* A block is processed one by one.
LEMMA ProcessFold ==
  ASSUME NEW s \in Processings, NEW l \in Seq(Sent), NEW J, s \in J[0],
         \A i \in 1 .. Len(l) : \A x \in Processings : x \in J[i - 1] => ProcessOne(x, l[i]) \in J[i]
  PROVE  FoldLeft(ProcessOne, s, l) \in Processings /\ FoldLeft(ProcessOne, s, l) \in J[Len(l)]
<1> DEFINE One(x, t) == ProcessOne(x, t)
           G == [p \in Processings \X Sent |-> One(p[1], p[2])]
           Body(it) == [P \in SUBSET (DOMAIN l) |->
                         IF P = {} THEN s ELSE One(it[P \ {Max(P)}], l[Max(P)])]
           it == CHOOSE it : it = Body(it)
<1>1. \A x \in Processings, t \in Sent : One(x, t) \in Processings
  BY ProcessOneIs
<1>2. FoldLeft(ProcessOne, s, l) = it[DOMAIN l]
  BY DEF FoldLeft, MapThenFoldSet
<1>3. \A i \in 1 .. Len(l) : \A x \in Processings : x \in J[i - 1] => One(x, l[i]) \in J[i]
  OBVIOUS
<1> HIDE DEF One
<1>4. G \in [Processings \X Sent -> Processings] /\ \A x \in Processings, t \in Sent : G[<<x, t>>] = One(x, t)
  BY <1>1
<1> HIDE DEF G
<1>5. PICK jt : IsFold(jt, s, G, l, Processings, Sent)
  BY <1>4, FoldExists
<1>6. jt = Body(jt)
  BY <1>4, <1>5 DEF IsFold
<1>7. it = Body(it)
  BY <1>6
<1> HIDE DEF it
<1>8. Follows(it, s, G, l, Processings)
  <2>1. ASSUME NEW P \in SUBSET (DOMAIN l), P # {}, it[P \ {Max(P)}] \in Processings
        PROVE  it[P] = G[<<it[P \ {Max(P)}], l[Max(P)]>>]
    <3>1. l[Max(P)] \in Sent
      BY <1>5, <2>1 DEF IsFold
    <3>2. it[P] = One(it[P \ {Max(P)}], l[Max(P)])
      BY <1>7, <2>1
    <3> QED BY <1>4, <2>1, <3>1, <3>2
  <2>2. it[{}] = s
    BY <1>7
  <2> QED BY <2>1, <2>2 DEF Follows
<1>9. Keeps(G, l, Processings, J)
  BY <1>3, <1>4 DEF Keeps
<1>10. it[DOMAIN l] \in Processings /\ it[DOMAIN l] \in J[Len(l)]
  BY <1>4, <1>8, <1>9, FoldWithin
<1> QED BY <1>2, <1>10

\* The tables of a block are those of its transactions, applied one by one.
LEMMA ApplyFold ==
  ASSUME NEW s \in Tables, NEW l \in Seq(Sent), NEW J, s \in J[0],
         \A i \in 1 .. Len(l) : \A x \in Tables : x \in J[i - 1] => Apply(x, l[i]) \in J[i]
  PROVE  FoldLeft(Apply, s, l) \in Tables /\ FoldLeft(Apply, s, l) \in J[Len(l)]
<1> DEFINE One(x, t) == Apply(x, t)
           G == [p \in Tables \X Sent |-> One(p[1], p[2])]
           Body(it) == [P \in SUBSET (DOMAIN l) |->
                         IF P = {} THEN s ELSE One(it[P \ {Max(P)}], l[Max(P)])]
           it == CHOOSE it : it = Body(it)
<1>1. \A x \in Tables, t \in Sent : One(x, t) \in Tables
  BY ApplyIs
<1>2. FoldLeft(Apply, s, l) = it[DOMAIN l]
  BY DEF FoldLeft, MapThenFoldSet
<1>3. \A i \in 1 .. Len(l) : \A x \in Tables : x \in J[i - 1] => One(x, l[i]) \in J[i]
  OBVIOUS
<1> HIDE DEF One
<1>4. G \in [Tables \X Sent -> Tables] /\ \A x \in Tables, t \in Sent : G[<<x, t>>] = One(x, t)
  BY <1>1
<1> HIDE DEF G
<1>5. PICK jt : IsFold(jt, s, G, l, Tables, Sent)
  BY <1>4, FoldExists
<1>6. jt = Body(jt)
  BY <1>4, <1>5 DEF IsFold
<1>7. it = Body(it)
  BY <1>6
<1> HIDE DEF it
<1>8. Follows(it, s, G, l, Tables)
  <2>1. ASSUME NEW P \in SUBSET (DOMAIN l), P # {}, it[P \ {Max(P)}] \in Tables
        PROVE  it[P] = G[<<it[P \ {Max(P)}], l[Max(P)]>>]
    <3>1. l[Max(P)] \in Sent
      BY <1>5, <2>1 DEF IsFold
    <3>2. it[P] = One(it[P \ {Max(P)}], l[Max(P)])
      BY <1>7, <2>1
    <3> QED BY <1>4, <2>1, <3>1, <3>2
  <2>2. it[{}] = s
    BY <1>7
  <2> QED BY <2>1, <2>2 DEF Follows
<1>9. Keeps(G, l, Tables, J)
  BY <1>3, <1>4 DEF Keeps
<1>10. it[DOMAIN l] \in Tables /\ it[DOMAIN l] \in J[Len(l)]
  BY <1>4, <1>8, <1>9, FoldWithin
<1> QED BY <1>2, <1>10

\* A block applied to tables gives tables.
LEMMA ApplyAllType ==
  ASSUME NEW x \in Tables, NEW b \in Seq(Sent)
  PROVE  ApplyAll(x, b) \in Tables
<1> DEFINE J == [i \in 0 .. Len(b) |-> Tables]
<1>1. Len(b) \in Nat /\ x \in J[0]
  OBVIOUS
<1>2. ASSUME NEW i \in 1 .. Len(b), NEW y \in Tables, y \in J[i - 1]
      PROVE  Apply(y, b[i]) \in J[i]
  <2>1. b[i] \in Sent /\ i \in 0 .. Len(b)
    BY <1>1
  <2>2. Apply(y, b[i]) \in Tables
    BY <2>1, ApplyIs
  <2> QED BY <2>1, <2>2
<1> HIDE DEF J
<1>3. FoldLeft(Apply, x, b) \in Tables
  BY <1>1, <1>2, ApplyFold
<1> QED BY <1>3 DEF ApplyAll

\* The tables of the chain are those of its blocks, applied one by one.
LEMMA ApplyAllFold ==
  ASSUME NEW s \in Tables, NEW l \in Seq(Seq(Sent)), NEW J, s \in J[0],
         \A i \in 1 .. Len(l) : \A x \in Tables : x \in J[i - 1] => ApplyAll(x, l[i]) \in J[i]
  PROVE  FoldLeft(ApplyAll, s, l) \in Tables /\ FoldLeft(ApplyAll, s, l) \in J[Len(l)]
<1> DEFINE One(x, t) == ApplyAll(x, t)
           G == [p \in Tables \X Seq(Sent) |-> One(p[1], p[2])]
           Body(it) == [P \in SUBSET (DOMAIN l) |->
                         IF P = {} THEN s ELSE One(it[P \ {Max(P)}], l[Max(P)])]
           it == CHOOSE it : it = Body(it)
<1>1. \A x \in Tables, t \in Seq(Sent) : One(x, t) \in Tables
  BY ApplyAllType
<1>2. FoldLeft(ApplyAll, s, l) = it[DOMAIN l]
  BY DEF FoldLeft, MapThenFoldSet
<1>3. \A i \in 1 .. Len(l) : \A x \in Tables : x \in J[i - 1] => One(x, l[i]) \in J[i]
  OBVIOUS
<1> HIDE DEF One
<1>4. G \in [Tables \X Seq(Sent) -> Tables] /\ \A x \in Tables, t \in Seq(Sent) : G[<<x, t>>] = One(x, t)
  BY <1>1
<1> HIDE DEF G
<1>5. PICK jt : IsFold(jt, s, G, l, Tables, Seq(Sent))
  BY <1>4, FoldExists
<1>6. jt = Body(jt)
  BY <1>4, <1>5 DEF IsFold
<1>7. it = Body(it)
  BY <1>6
<1> HIDE DEF it
<1>8. Follows(it, s, G, l, Tables)
  <2>1. ASSUME NEW P \in SUBSET (DOMAIN l), P # {}, it[P \ {Max(P)}] \in Tables
        PROVE  it[P] = G[<<it[P \ {Max(P)}], l[Max(P)]>>]
    <3>1. l[Max(P)] \in Seq(Sent)
      BY <1>5, <2>1 DEF IsFold
    <3>2. it[P] = One(it[P \ {Max(P)}], l[Max(P)])
      BY <1>7, <2>1
    <3> QED BY <1>4, <2>1, <3>1, <3>2
  <2>2. it[{}] = s
    BY <1>7
  <2> QED BY <2>1, <2>2 DEF Follows
<1>9. Keeps(G, l, Tables, J)
  BY <1>3, <1>4 DEF Keeps
<1>10. it[DOMAIN l] \in Tables /\ it[DOMAIN l] \in J[Len(l)]
  BY <1>4, <1>8, <1>9, FoldWithin
<1> QED BY <1>2, <1>10
-----------------------------------------------------------------------------
(* What is taken from the unconfirmed balances *)

\* The pool of s has transactions of O, each once, and what is taken from an unconfirmed
\* balance is their fees and those that are kept.
IsBooked(s, O) ==
  /\ IsInjective(s.pool) /\ ToSet(s.pool) \subseteq O
  /\ \A a \in Account :
       /\ s.u_balance[a] = s.acc.balance[a] - OfAccount(ToSet(s.pool), a) - s.kept[a]
       /\ s.u_balance[a] >= 0 /\ s.kept[a] >= 0

\* The amounts of a state.
LEMMA AmountTypes ==
  ASSUME NEW s \in States, NEW a \in Account
  PROVE  /\ s.u_balance[a] \in Int /\ s.kept[a] \in Int /\ s.acc.balance[a] \in Int
         /\ OfAccount(ToSet(s.pool), a) \in Nat
<1>1. s.u_balance \in Amounts /\ s.kept \in Amounts /\ s.acc.balance \in Amounts
  BY StateTypes, TableTypes
<1>2. OfAccount(ToSet(s.pool), a) \in Nat
  <2> DEFINE S == ToSet(s.pool)
  <2>1. s.pool \in Seq(Sent) /\ Len(s.pool) \in 0 .. Len(s.pool)
    BY StateTypes
  <2>2. IsFiniteSet(S)
    BY <2>1, FirstFinite
  <2> HIDE DEF S
  <2>3. {} \in SUBSET S /\ S \ {} = S
    OBVIOUS
  <2>4. OfAccount(S \ {}, a) \in Nat
    BY <2>2, <2>3, OfAccountBoth
  <2> QED BY <2>3, <2>4 DEF S
<1> QED BY <1>1, <1>2 DEF Amounts

\* No transaction is of an account in an empty pool.
LEMMA EmptyPool ==
  ASSUME NEW a
  PROVE  ToSet(<<>>) = {} /\ IsInjective(<<>>) /\ OfAccount({}, a) = 0 /\ <<>> \in Seq(Sent)
<1>1. {t \in {} : t.sender = a} = {}
  OBVIOUS
<1>2. OfAccount({}, a) = 0
  BY <1>1, FS_EmptySet DEF OfAccount
<1>3. DOMAIN <<>> = {}
  OBVIOUS
<1>4. ToSet(<<>>) = {} /\ IsInjective(<<>>)
  BY <1>3 DEF ToSet, IsInjective
<1> QED BY <1>2, <1>4

\* Undoing the pool gives back the fees of what is in it.
LEMMA UndoPoolKeeps ==
  ASSUME NEW s \in States, NEW O, IsBooked(s, O), NEW r, r = UndoPool(s)
  PROVE  /\ r \in States /\ r.acc = s.acc /\ r.pool = <<>> /\ r.kept = s.kept
         /\ IsBooked(r, {})
<1> DEFINE e == [s EXCEPT !.pool = <<>>]
           l == s.pool
           Given(x, i) == /\ x.acc = s.acc /\ x.pool = <<>> /\ x.kept = s.kept
                          /\ \A a \in Account : x.u_balance[a] = s.u_balance[a] + OfAccount(First(l, i), a)
           J == [i \in 0 .. Len(l) |-> {x \in States : Given(x, i)}]
<1>1. l \in Seq(Sent) /\ Len(l) \in Nat /\ IsInjective(l)
  BY StateTypes DEF IsBooked
<1>2. First(l, 0) = {} /\ First(l, Len(l)) = ToSet(l)
  BY <1>1, FirstIs
<1>3. \A a \in Account : s.u_balance[a] \in Int
  BY AmountTypes
<1>4. e \in States /\ e.acc = s.acc /\ e.pool = <<>> /\ e.kept = s.kept /\ e.u_balance = s.u_balance
  <2> DEFINE n == <<>>
             f == [s EXCEPT !.pool = n]
  <2>1. n \in Seq(Sent)
    OBVIOUS
  <2> HIDE DEF n
  <2>2. f \in States /\ f.acc = s.acc /\ f.pool = n /\ f.kept = s.kept /\ f.u_balance = s.u_balance
    BY <2>1 DEF States
  <2> QED BY <2>2 DEF n
<1> HIDE DEF e, l
<1>5. e \in J[0]
  <2>1. Given(e, 0)
    <3> SUFFICES ASSUME NEW a \in Account PROVE e.u_balance[a] = s.u_balance[a] + OfAccount(First(l, 0), a)
      BY <1>4
    <3>1. OfAccount(First(l, 0), a) = 0
      BY <1>2, EmptyPool
    <3> QED BY <1>3, <1>4, <3>1
  <2>2. 0 \in 0 .. Len(l)
    BY <1>1
  <2> HIDE DEF Given
  <2> QED BY <1>4, <2>1, <2>2
<1>6. ASSUME NEW i \in 1 .. Len(l), NEW x \in States, x \in J[i - 1]
      PROVE  Release(x, l[i]) \in J[i]
  <2> DEFINE t == l[i]
             y == Release(x, t)
  <2>1. t \in Sent /\ i \in 0 .. Len(l) /\ i - 1 \in 0 .. Len(l)
    BY <1>1
  <2>2. Given(x, i - 1)
    <3> HIDE DEF Given
    <3> QED BY <1>6, <2>1
  <2>3. /\ y \in States /\ y.acc = x.acc /\ y.pool = x.pool /\ y.kept = x.kept
        /\ y.u_balance = Changed(x.u_balance, t.sender, 1)
    BY <2>1, ReleaseIs
  <2>4. t.sender \in Account /\ x.u_balance \in Amounts
    BY <2>1, SentTypes, StateTypes
  <2>5. \A a \in Account :
          Changed(x.u_balance, t.sender, 1)[a] = IF a = t.sender THEN x.u_balance[a] + 1
                                                 ELSE x.u_balance[a]
    BY <2>4, ChangedAt
  <2>6. ASSUME NEW a \in Account
        PROVE  y.u_balance[a] = s.u_balance[a] + OfAccount(First(l, i), a)
    <3>1. y.u_balance[a] = IF a = t.sender THEN x.u_balance[a] + 1 ELSE x.u_balance[a]
      BY <2>3, <2>5
    <3>2. x.u_balance[a] = s.u_balance[a] + OfAccount(First(l, i - 1), a)
      BY <2>2
    <3>3. /\ OfAccount(First(l, i - 1), a) \in Nat
          /\ OfAccount(First(l, i), a) = IF t.sender = a THEN OfAccount(First(l, i - 1), a) + 1
                                         ELSE OfAccount(First(l, i - 1), a)
      BY <1>1, FirstOfAccount
    <3>4. s.u_balance[a] \in Int
      BY <1>3
    <3> HIDE DEF t, y
    <3> QED BY <3>1, <3>2, <3>3, <3>4
  <2>7. Given(y, i)
    BY <2>2, <2>3, <2>6
  <2> HIDE DEF Given, y
  <2>8. y \in J[i]
    BY <2>1, <2>3, <2>7
  <2> QED BY <2>8 DEF y
<1> HIDE DEF J
<1>7. FoldLeft(Release, e, l) \in States /\ FoldLeft(Release, e, l) \in J[Len(l)]
  BY <1>1, <1>4, <1>5, <1>6, ReleaseFold
<1>8. r = FoldLeft(Release, e, l)
  BY DEF UndoPool, e, l
<1>9. r \in States /\ Given(r, Len(l))
  <2>1. Len(l) \in 0 .. Len(l)
    BY <1>1
  <2> HIDE DEF Given
  <2> QED BY <1>7, <1>8, <2>1 DEF J
<1>10. IsBooked(r, {})
  <2>1. IsInjective(r.pool) /\ ToSet(r.pool) \subseteq {}
    BY <1>9, EmptyPool
  <2>2. ASSUME NEW a \in Account
        PROVE  /\ r.u_balance[a] = r.acc.balance[a] - OfAccount(ToSet(r.pool), a) - r.kept[a]
               /\ r.u_balance[a] >= 0 /\ r.kept[a] >= 0
    <3>1. r.u_balance[a] = s.u_balance[a] + OfAccount(ToSet(l), a)
      BY <1>2, <1>9
    <3>2. r.acc.balance[a] = s.acc.balance[a] /\ r.kept[a] = s.kept[a]
      BY <1>9
    <3>3. /\ s.u_balance[a] = s.acc.balance[a] - OfAccount(ToSet(l), a) - s.kept[a]
          /\ s.u_balance[a] >= 0 /\ s.kept[a] >= 0
      BY DEF IsBooked, l
    <3>4. /\ s.u_balance[a] \in Int /\ s.kept[a] \in Int /\ s.acc.balance[a] \in Int
          /\ OfAccount(ToSet(l), a) \in Nat
      BY AmountTypes DEF l
    <3>5. OfAccount(ToSet(r.pool), a) = 0
      BY <1>9, EmptyPool
    <3> QED BY <3>1, <3>2, <3>3, <3>4, <3>5
  <2> QED BY <2>1, <2>2 DEF IsBooked
<1> QED BY <1>9, <1>10

\* What is held and added to the pool has its fee taken, what is refused has it kept.
LEMMA AddKeeps ==
  ASSUME NEW s \in States, NEW O, IsBooked(s, O), NEW t \in Sent, t \in O, t \notin ToSet(s.pool),
         NEW r, r = Add(s, t)
  PROVE  r \in States /\ r.acc = s.acc /\ IsBooked(r, O)
<1> DEFINE h == Hold(s, t)
           p == Append(s.pool, t)
           S == ToSet(s.pool)
<1>1. /\ h \in States /\ h.acc = s.acc /\ h.pool = s.pool
      /\ h.u_balance = IF Payable(s, t) THEN Changed(s.u_balance, t.sender, -1) ELSE s.u_balance
      /\ h.kept = IF Payable(s, t) /\ ~Holds(s, t) THEN Changed(s.kept, t.sender, 1) ELSE s.kept
  BY HoldIs
<1>2. /\ s.pool \in Seq(Sent) /\ IsInjective(s.pool) /\ S \subseteq O
      /\ t.sender \in Account /\ s.u_balance \in Amounts /\ s.kept \in Amounts
  BY SentTypes, StateTypes DEF IsBooked
<1>3. p \in Seq(Sent) /\ ToSet(p) = S \cup {t} /\ IsInjective(p)
  BY <1>2, AppendIs
<1>4. r = IF Holds(s, t) THEN [h EXCEPT !.pool = p] ELSE h
  BY <1>1 DEF Add
<1> HIDE DEF h, p
<1>5. /\ r \in States /\ r.acc = s.acc /\ r.u_balance = h.u_balance /\ r.kept = h.kept
      /\ r.pool = IF Holds(s, t) THEN p ELSE s.pool
  <2>1. CASE Holds(s, t)
    <3>1. r = [h EXCEPT !.pool = p]
      BY <1>4, <2>1
    <3>2. r \in States /\ r.acc = h.acc /\ r.u_balance = h.u_balance /\ r.kept = h.kept /\ r.pool = p
      BY <1>1, <1>3, <3>1 DEF States
    <3> QED BY <1>1, <2>1, <3>2
  <2>2. CASE ~Holds(s, t)
    BY <1>1, <1>4, <2>2
  <2> QED BY <2>1, <2>2
<1>6. IsInjective(r.pool) /\ ToSet(r.pool) \subseteq O
  BY <1>2, <1>3, <1>5
<1>7. ASSUME NEW a \in Account
      PROVE  /\ r.u_balance[a] = r.acc.balance[a] - OfAccount(ToSet(r.pool), a) - r.kept[a]
             /\ r.u_balance[a] >= 0 /\ r.kept[a] >= 0
  <2>1. /\ s.u_balance[a] = s.acc.balance[a] - OfAccount(S, a) - s.kept[a]
        /\ s.u_balance[a] >= 0 /\ s.kept[a] >= 0
    BY DEF IsBooked
  <2>2. /\ s.u_balance[a] \in Int /\ s.kept[a] \in Int /\ s.acc.balance[a] \in Int
        /\ OfAccount(S, a) \in Nat
    BY AmountTypes
  <2>3. /\ Changed(s.u_balance, t.sender, -1)[a] = IF a = t.sender THEN s.u_balance[a] + (-1)
                                                   ELSE s.u_balance[a]
        /\ Changed(s.kept, t.sender, 1)[a] = IF a = t.sender THEN s.kept[a] + 1 ELSE s.kept[a]
    <3>1. Changed(s.u_balance, t.sender, -1)[a] = IF a = t.sender THEN s.u_balance[a] + (-1)
                                                  ELSE s.u_balance[a]
      BY <1>2, ChangedAt
    <3>2. Changed(s.kept, t.sender, 1)[a] = IF a = t.sender THEN s.kept[a] + 1 ELSE s.kept[a]
      BY <1>2, ChangedAt
    <3> QED BY <3>1, <3>2
  <2>4. OfAccount(S \cup {t}, a) = IF t.sender = a THEN OfAccount(S, a) + 1 ELSE OfAccount(S, a)
    <3>1. Len(s.pool) \in 0 .. Len(s.pool)
      BY <1>2
    <3>2. IsFiniteSet(S)
      BY <1>2, <3>1, FirstFinite
    <3> QED BY <3>2, OfAccountIs
  <2>5. Payable(s, t) => s.u_balance[t.sender] >= 1
    BY DEF Payable
  <2>6. Holds(s, t) => Payable(s, t)
    BY DEF Holds
  <2>7. r.acc.balance[a] = s.acc.balance[a]
    BY <1>5
  <2> HIDE DEF S
  <2>8. CASE Holds(s, t)
    <3>1. r.u_balance[a] = Changed(s.u_balance, t.sender, -1)[a] /\ r.kept[a] = s.kept[a]
          /\ OfAccount(ToSet(r.pool), a) = OfAccount(S \cup {t}, a)
      BY <1>1, <1>3, <1>5, <2>6, <2>8
    <3> QED BY <2>1, <2>2, <2>3, <2>4, <2>5, <2>6, <2>7, <2>8, <3>1
  <2>9. CASE ~Holds(s, t) /\ Payable(s, t)
    <3>1. r.u_balance[a] = Changed(s.u_balance, t.sender, -1)[a] /\ r.kept[a] = Changed(s.kept, t.sender, 1)[a]
          /\ OfAccount(ToSet(r.pool), a) = OfAccount(S, a)
      BY <1>1, <1>5, <2>9 DEF S
    <3> QED BY <2>1, <2>2, <2>3, <2>5, <2>7, <2>9, <3>1
  <2>10. CASE ~Payable(s, t)
    <3>1. r.u_balance[a] = s.u_balance[a] /\ r.kept[a] = s.kept[a]
          /\ OfAccount(ToSet(r.pool), a) = OfAccount(S, a)
      BY <1>1, <1>5, <2>6, <2>10 DEF S
    <3> QED BY <2>1, <2>2, <2>7, <3>1
  <2> QED BY <2>8, <2>9, <2>10
<1>8. IsBooked(r, O)
  BY <1>6, <1>7 DEF IsBooked
<1> QED BY <1>5, <1>8

\* What of a list may go into the pool is in O.
MayGo(l, made, O) == \A t \in ToSet(l) : ~Confirmed(t) /\ t \notin made => t \in O

\* Receiving a list keeps the books.
LEMMA ReceiveAllKeeps ==
  ASSUME NEW s \in States, NEW O, IsBooked(s, O), NEW l \in Seq(Sent), NEW made,
         MayGo(l, made, O), NEW r, r = ReceiveAll(s, l, made)
  PROVE  r \in States /\ r.acc = s.acc /\ IsBooked(r, O)
<1> DEFINE e == [going |-> TRUE, s |-> s]
           Good(x) == x.s.acc = s.acc /\ IsBooked(x.s, O)
           J == [i \in 0 .. Len(l) |-> {x \in Receivings : Good(x)}]
<1>1. Len(l) \in Nat /\ DOMAIN l = 1 .. Len(l)
  OBVIOUS
<1>2. e \in Receivings /\ e.s = s
  BY DEF Receivings
<1> HIDE DEF e
<1>3. e \in J[0]
  <2>1. Good(e) /\ 0 \in 0 .. Len(l)
    BY <1>1, <1>2
  <2> HIDE DEF Good
  <2> QED BY <1>2, <2>1
<1>4. ASSUME NEW i \in 1 .. Len(l), NEW x \in Receivings, x \in J[i - 1]
      PROVE  ReceiveOne(x, l[i], made) \in J[i]
  <2> DEFINE t == l[i]
             y == ReceiveOne(x, t, made)
  <2>1. t \in Sent /\ t \in ToSet(l) /\ i \in 0 .. Len(l) /\ i - 1 \in 0 .. Len(l)
    BY <1>1 DEF ToSet
  <2>2. Good(x)
    <3> HIDE DEF Good
    <3> QED BY <1>4, <2>1
  <2>3. /\ y \in Receivings /\ x.s \in States
        /\ y.s = IF x.going /\ Fresh(x.s, t, made) THEN Add(x.s, t) ELSE x.s
    BY <2>1, ReceiveOneIs
  <2> HIDE DEF y, t
  <2>4. Good(y)
    <3>1. CASE x.going /\ Fresh(x.s, t, made)
      <4>1. t \notin ToSet(x.s.pool) /\ t \in O
        BY <2>1, <3>1 DEF Fresh, MayGo
      <4>2. y.s = Add(x.s, t)
        BY <2>3, <3>1
      <4>3. y.s.acc = x.s.acc /\ IsBooked(y.s, O)
        BY <2>1, <2>2, <2>3, <4>1, <4>2, AddKeeps
      <4> QED BY <2>2, <4>3
    <3>2. CASE ~(x.going /\ Fresh(x.s, t, made))
      BY <2>2, <2>3, <3>2
    <3> QED BY <3>1, <3>2
  <2> HIDE DEF Good
  <2>5. y \in J[i]
    BY <2>1, <2>3, <2>4
  <2> QED BY <2>5 DEF y, t
<1> HIDE DEF J
<1>5. ReceiveEach(e, l, made) \in Receivings /\ ReceiveEach(e, l, made) \in J[Len(l)]
  BY <1>2, <1>3, <1>4, ReceiveFold
<1>6. r = ReceiveEach(e, l, made).s
  BY DEF ReceiveAll, e
<1>7. ReceiveEach(e, l, made) \in Receivings /\ Good(ReceiveEach(e, l, made))
  <2>1. Len(l) \in 0 .. Len(l)
    BY <1>1
  <2> HIDE DEF Good
  <2> QED BY <1>5, <2>1 DEF J
<1> QED BY <1>6, <1>7 DEF Receivings
-----------------------------------------------------------------------------
(* What a block makes of the tables *)

\* Nobody has paid more than he had, and votes are for delegates.
Sound(acc) ==
  \A a \in Account : /\ acc.balance[a] \in 0 .. Funds
                     /\ acc.delegates[a] \subseteq acc.isDelegate
                     /\ Cardinality(acc.delegates[a]) <= MaxVotes
                     /\ a \notin acc.isDelegate => acc.username[a] = NoName

\* What was verified of a vote, as the tables are when it is applied.
MayVote(acc, t) ==
  t.kind = "vote" => /\ t.adds \subseteq acc.isDelegate
                     /\ Cardinality((acc.delegates[t.sender] \ t.removes) \cup t.adds) <= MaxVotes

\* A transaction that is paid and fits leaves sound tables.
LEMMA ApplyKeeps ==
  ASSUME NEW acc \in Tables, NEW t \in Sent, Sound(acc), Fits(acc, t), MayVote(acc, t),
         acc.balance[t.sender] >= 1, NEW r, r = Apply(acc, t)
  PROVE  r \in Tables /\ Sound(r)
<1>1. /\ acc.balance \in Amounts /\ acc.isDelegate \in SUBSET Account
      /\ acc.username \in [Account -> Name \cup {NoName}]
      /\ acc.delegates \in [Account -> SUBSET Account]
  BY TableTypes
<1>2. /\ t.sender \in Account /\ t.kind \in {"signature", "delegate", "vote"}
      /\ t.adds \in SUBSET Account /\ t.removes \in SUBSET Account
  BY SentTypes DEF Kind
<1>3. /\ r \in Tables /\ r.balance = Changed(acc.balance, t.sender, -1)
      /\ r.isDelegate = IF t.kind = "delegate" THEN acc.isDelegate \cup {t.sender}
                        ELSE acc.isDelegate
      /\ r.username = IF t.kind = "delegate" THEN Put(acc.username, t.sender, t.name)
                      ELSE acc.username
      /\ r.delegates = IF t.kind = "vote" THEN Put(acc.delegates, t.sender, (acc.delegates[t.sender] \ t.removes) \cup t.adds)
                       ELSE acc.delegates
  BY ApplyIs
<1>4. ASSUME NEW a \in Account PROVE r.balance[a] \in 0 .. Funds
  <2>1. r.balance[a] = IF a = t.sender THEN acc.balance[a] + (-1) ELSE acc.balance[a]
    BY <1>1, <1>2, <1>3, ChangedAt
  <2>2. acc.balance[a] \in 0 .. Funds /\ Funds \in Nat
    BY ConstantsAssumption DEF Sound
  <2> QED BY <2>1, <2>2
<1>5. ASSUME NEW a \in Account
      PROVE  r.delegates[a] \subseteq r.isDelegate /\ Cardinality(r.delegates[a]) <= MaxVotes
  <2>1. acc.isDelegate \subseteq r.isDelegate
    BY <1>3
  <2>2. CASE t.kind = "vote" /\ a = t.sender
    <3> DEFINE v == (acc.delegates[t.sender] \ t.removes) \cup t.adds
    <3>1. v \subseteq acc.isDelegate /\ Cardinality(v) <= MaxVotes
      BY <1>2, <2>2 DEF Sound, MayVote
    <3>2. r.delegates = Put(acc.delegates, t.sender, v)
      BY <1>3, <2>2
    <3> HIDE DEF v
    <3>3. r.delegates[a] = v
      BY <1>1, <2>2, <3>2 DEF Put
    <3> QED BY <2>1, <3>1, <3>3
  <2>3. CASE ~(t.kind = "vote" /\ a = t.sender)
    <3>1. r.delegates[a] = acc.delegates[a]
      BY <1>1, <1>3, <2>3 DEF Put
    <3> QED BY <2>1, <3>1 DEF Sound
  <2> QED BY <2>2, <2>3
<1>6. ASSUME NEW a \in Account, a \notin r.isDelegate PROVE r.username[a] = NoName
  <2>1. a \notin acc.isDelegate /\ (t.kind = "delegate" => a # t.sender)
    BY <1>3, <1>6
  <2>2. r.username[a] = acc.username[a]
    BY <1>1, <1>3, <2>1 DEF Put
  <2> QED BY <2>1, <2>2 DEF Sound
<1>7. Sound(r)
  BY <1>4, <1>5, <1>6 DEF Sound
<1> QED BY <1>3, <1>7

\* tr are the tables after each of the first i transactions of b.
IsTrace(tr, first, b, i, last) ==
  /\ tr \in [0 .. i -> Tables] /\ tr[0] = first /\ tr[i] = last
  /\ \A j \in 1 .. i : Fits(tr[j - 1], b[j]) /\ tr[j] = Apply(tr[j - 1], b[j])

\* The first i transactions of b lead from the tables first to last.
Leads(first, b, i, last) == \E tr : IsTrace(tr, first, b, i, last)

\* None leads nowhere.
LEMMA LeadsNone ==
  ASSUME NEW x \in Tables, NEW b
  PROVE  Leads(x, b, 0, x)
<1> DEFINE tr == [i \in 0 .. 0 |-> x]
<1>1. tr \in [0 .. 0 -> Tables] /\ tr[0] = x
  OBVIOUS
<1> HIDE DEF tr
<1>2. IsTrace(tr, x, b, 0, x)
  BY <1>1 DEF IsTrace
<1> QED BY <1>2 DEF Leads

\* One more leads on.
LEMMA LeadsOn ==
  ASSUME NEW first, NEW b \in Seq(Sent), NEW i \in 1 .. Len(b), NEW x \in Tables,
         Leads(first, b, i - 1, x), Fits(x, b[i]), NEW y, y = Apply(x, b[i])
  PROVE  Leads(first, b, i, y)
<1>1. PICK tr : IsTrace(tr, first, b, i - 1, x)
  BY DEF Leads
<1> DEFINE ur == [j \in 0 .. i |-> IF j = i THEN y ELSE tr[j]]
<1>2. i \in Nat /\ i - 1 \in Nat /\ i # 0 /\ b[i] \in Sent
  OBVIOUS
<1>3. y \in Tables
  BY <1>2, ApplyIs
<1>4. tr \in [0 .. i - 1 -> Tables] /\ tr[0] = first /\ tr[i - 1] = x
  BY <1>1 DEF IsTrace
<1>5. \A j \in 0 .. i : j # i => j \in 0 .. i - 1
  BY <1>2
<1>6. ur \in [0 .. i -> Tables]
  BY <1>3, <1>4, <1>5
<1>7. ur[0] = first /\ ur[i] = y /\ ur[i - 1] = x
  BY <1>2, <1>4
<1>8. ASSUME NEW j \in 1 .. i PROVE Fits(ur[j - 1], b[j]) /\ ur[j] = Apply(ur[j - 1], b[j])
  <2>1. CASE j = i
    BY <1>7, <2>1
  <2>2. CASE j # i
    <3>1. j \in 1 .. i - 1 /\ j \in 0 .. i /\ j - 1 \in 0 .. i /\ j - 1 # i
      BY <1>2, <2>2
    <3>2. ur[j] = tr[j] /\ ur[j - 1] = tr[j - 1]
      BY <2>2, <3>1
    <3> QED BY <1>1, <3>1, <3>2 DEF IsTrace
  <2> QED BY <2>1, <2>2
<1> HIDE DEF ur
<1>9. IsTrace(ur, first, b, i, y)
  BY <1>6, <1>7, <1>8 DEF IsTrace
<1> QED BY <1>9 DEF Leads

\* The tables are what applying the block makes of the first ones.
LEMMA LeadsForth ==
  ASSUME NEW first \in Tables, NEW b \in Seq(Sent), NEW last, Leads(first, b, Len(b), last)
  PROVE  ApplyAll(first, b) = last
<1>1. PICK tr : IsTrace(tr, first, b, Len(b), last)
  BY DEF Leads
<1> DEFINE J == [i \in 0 .. Len(b) |-> {tr[i]}]
<1>2. Len(b) \in Nat
  OBVIOUS
<1>3. first \in J[0]
  BY <1>1, <1>2 DEF IsTrace
<1>4. ASSUME NEW i \in 1 .. Len(b), NEW x \in Tables, x \in J[i - 1]
      PROVE  Apply(x, b[i]) \in J[i]
  <2>1. i \in 0 .. Len(b) /\ i - 1 \in 0 .. Len(b)
    BY <1>2
  <2>2. x = tr[i - 1]
    BY <1>4, <2>1
  <2>3. Apply(x, b[i]) = tr[i]
    BY <1>1, <2>2 DEF IsTrace
  <2> QED BY <2>1, <2>3
<1>5. Len(b) \in 0 .. Len(b)
  BY <1>2
<1> HIDE DEF J
<1>6. FoldLeft(Apply, first, b) \in J[Len(b)]
  BY <1>3, <1>4, ApplyFold
<1>7. FoldLeft(Apply, first, b) = tr[Len(b)]
  BY <1>5, <1>6 DEF J
<1> QED BY <1>1, <1>7 DEF ApplyAll, IsTrace

\* A transaction that is not in the pool is undone.
LEMMA UndoBothKeeps ==
  ASSUME NEW s \in States, NEW O, IsBooked(s, O), NEW t \in Sent, t \notin O,
         NEW x \in Tables, Fits(x, t), s.acc = Apply(x, t), NEW r, r = UndoBoth(s, t)
  PROVE  r \in States /\ r.acc = x /\ IsBooked(r, O)
<1>1. /\ r \in States /\ r.acc = Undo(s.acc, t) /\ r.pool = Without(s.pool, {t})
      /\ r.kept = s.kept
      /\ r.u_balance = Changed(s.u_balance, t.sender, 1)
  BY UndoBothIs
<1>2. r.acc = x
  BY <1>1, UndoApply
<1>3. /\ s.pool \in Seq(Sent) /\ IsInjective(s.pool) /\ t \notin ToSet(s.pool)
      /\ ToSet(s.pool) \subseteq O
      /\ t.sender \in Account /\ s.u_balance \in Amounts /\ x.balance \in Amounts
  BY StateTypes, SentTypes, TableTypes DEF IsBooked
<1>4. ToSet(r.pool) = ToSet(s.pool) /\ IsInjective(r.pool)
  <2> DEFINE X == {t}
             p == s.pool
  <2>1. p \in Seq(Sent) /\ IsInjective(p) /\ ToSet(p) \ X = ToSet(p) /\ r.pool = Without(p, X)
    BY <1>1, <1>3
  <2> HIDE DEF X, p
  <2>2. ToSet(Without(p, X)) = ToSet(p) \ X /\ IsInjective(Without(p, X))
    BY <2>1, WithoutIs
  <2> QED BY <2>1, <2>2 DEF p
<1>5. s.acc.balance = Changed(x.balance, t.sender, -1)
  BY ApplyIs
<1>6. ASSUME NEW a \in Account
      PROVE  /\ r.u_balance[a] = r.acc.balance[a] - OfAccount(ToSet(r.pool), a) - r.kept[a]
             /\ r.u_balance[a] >= 0 /\ r.kept[a] >= 0
  <2>1. /\ s.u_balance[a] = s.acc.balance[a] - OfAccount(ToSet(s.pool), a) - s.kept[a]
        /\ s.u_balance[a] >= 0 /\ s.kept[a] >= 0
    BY DEF IsBooked
  <2>2. /\ s.u_balance[a] \in Int /\ s.kept[a] \in Int /\ x.balance[a] \in Int
        /\ OfAccount(ToSet(s.pool), a) \in Nat
    <3>1. x.balance[a] \in Int
      BY <1>3 DEF Amounts
    <3> QED BY <3>1, AmountTypes
  <2>3. r.u_balance[a] = IF a = t.sender THEN s.u_balance[a] + 1 ELSE s.u_balance[a]
    BY <1>1, <1>3, ChangedAt
  <2>4. s.acc.balance[a] = IF a = t.sender THEN x.balance[a] + (-1) ELSE x.balance[a]
    BY <1>3, <1>5, ChangedAt
  <2>5. r.acc.balance[a] = x.balance[a] /\ r.kept[a] = s.kept[a] /\ ToSet(r.pool) = ToSet(s.pool)
    BY <1>1, <1>2, <1>4
  <2> QED BY <2>1, <2>2, <2>3, <2>4, <2>5
<1>7. IsBooked(r, O)
  BY <1>3, <1>4, <1>6 DEF IsBooked
<1> QED BY <1>1, <1>2, <1>7

\* A block is undone from its end.
UndoBlock(s, b) == FoldLeft(UndoBoth, s, Reverse(b))

\* s has the tables x.
Has(s, x) == s.acc = x

\* None of b is in O.
NoneOf(b, O) == \A t \in O : t \notin ToSet(b)

\* This leads back.
LEMMA LeadsBack ==
  ASSUME NEW s \in States, NEW O, IsBooked(s, O), NEW b \in Seq(Sent), NoneOf(b, O),
         NEW first, Leads(first, b, Len(b), s.acc), NEW r, r = UndoBlock(s, b)
  PROVE  r \in States /\ Has(r, first) /\ IsBooked(r, O)
<1>1. PICK tr : IsTrace(tr, first, b, Len(b), s.acc)
  BY DEF Leads
<1> DEFINE n == Len(b)
           l == Reverse(b)
           Back(x, i) == x.acc = tr[n - i] /\ IsBooked(x, O)
           J == [i \in 0 .. Len(l) |-> {x \in States : Back(x, i)}]
<1>2. /\ n \in Nat /\ l \in Seq(Sent) /\ Len(l) = n /\ DOMAIN b = 1 .. n
      /\ \A i \in 1 .. n : l[i] = b[(n - i) + 1] /\ (n - i) + 1 \in 1 .. n
  <2>1. l \in Seq(Sent)
    BY ReverseIs
  <2>2. n \in Nat /\ DOMAIN b = 1 .. n
    OBVIOUS
  <2>3. l = [i \in 1 .. n |-> b[(n - i) + 1]]
    BY DEF Reverse
  <2>4. Len(l) = n
    <3> HIDE DEF n
    <3>1. DOMAIN l = 1 .. n
      BY <2>3
    <3> HIDE DEF l
    <3> QED BY <2>1, <2>2, <3>1
  <2>5. \A i \in 1 .. n : l[i] = b[(n - i) + 1] /\ (n - i) + 1 \in 1 .. n
    <3> HIDE DEF n, l
    <3> QED BY <2>2, <2>3
  <2> QED BY <2>1, <2>2, <2>4, <2>5
<1>3. s \in J[0]
  <2>1. n - 0 = n
    BY <1>2
  <2>2. Back(s, 0)
    BY <1>1, <2>1 DEF IsTrace
  <2>3. 0 \in 0 .. Len(l)
    BY <1>2
  <2> HIDE DEF Back, l
  <2> QED BY <2>2, <2>3
<1> HIDE DEF n, l
<1>4. ASSUME NEW i \in 1 .. Len(l), NEW x \in States, x \in J[i - 1]
      PROVE  UndoBoth(x, l[i]) \in J[i]
  <2> DEFINE k == (n - i) + 1
             t == l[i]
             y == UndoBoth(x, t)
             z == tr[k - 1]
  <2>1. /\ i \in 1 .. n /\ i \in 0 .. Len(l) /\ i - 1 \in 0 .. Len(l) /\ k \in 1 .. n
        /\ n - (i - 1) = k /\ k - 1 = n - i /\ k - 1 \in 0 .. n
    BY <1>2
  <2>2. t = b[k] /\ t \in Sent /\ t \in ToSet(b)
    BY <1>2, <2>1 DEF ToSet
  <2>3. Back(x, i - 1)
    <3> HIDE DEF Back
    <3> QED BY <1>4, <2>1
  <2>4. x.acc = tr[k] /\ IsBooked(x, O)
    BY <2>1, <2>3
  <2>5. z \in Tables /\ Fits(z, t) /\ tr[k] = Apply(z, t)
    BY <1>1, <1>2, <2>1, <2>2 DEF IsTrace, n
  <2>6. t \notin O
    BY <2>2 DEF NoneOf
  <2> HIDE DEF k, t, y, z
  <2>7. y \in States /\ y.acc = z /\ IsBooked(y, O)
    BY <2>2, <2>4, <2>5, <2>6, UndoBothKeeps DEF y
  <2>8. Back(y, i)
    BY <2>1, <2>7 DEF z
  <2> HIDE DEF Back
  <2>9. y \in J[i]
    BY <2>1, <2>7, <2>8
  <2> QED BY <2>9 DEF y, t
<1> HIDE DEF J
<1>5. FoldLeft(UndoBoth, s, l) \in States /\ FoldLeft(UndoBoth, s, l) \in J[Len(l)]
  BY <1>2, <1>3, <1>4, UndoFold
<1>6. r = FoldLeft(UndoBoth, s, l)
  BY DEF l, UndoBlock
<1>7. r \in States /\ Back(r, n)
  <2>1. Len(l) \in 0 .. Len(l) /\ Len(l) = n
    BY <1>2
  <2> HIDE DEF Back
  <2> QED BY <1>5, <1>6, <2>1 DEF J
<1>8. n - n = 0 /\ tr[0] = first
  BY <1>1, <1>2 DEF IsTrace
<1> QED BY <1>7, <1>8 DEF Has
-----------------------------------------------------------------------------
(* A block *)

\* Delegates and second signatures of x are in y, too.
Grown(x, y) == x.isDelegate \subseteq y.isDelegate /\ x.secondSignature \subseteq y.secondSignature

\* Who signs t and has a second key on first has used it.
IsSigned(first, t) ==
  Signer(t) \in first.secondSignature =>
    t.signed # Nobody /\ (t.requester = Nobody => t.signed = t.sender)

\* What first does not have, t gives to last, and a second signature is on it.
IsNew(first, t, last) ==
  /\ t.kind = "delegate" => t.sender \notin first.isDelegate /\ t.sender \in last.isDelegate
  /\ t.kind = "signature" => t.sender \notin first.secondSignature /\ t.sender \in last.secondSignature
  /\ IsSigned(first, t)

\* The first i transactions of b have no keys in common, and are new on top of first.
IsApart(b, i) == \A j, k \in 1 .. i : j # k => Keys(b[j]) \cap Keys(b[k]) = {}
AreNew(first, b, i, last) == \A j \in 1 .. i : IsNew(first, b[j], last)

\* The votes of who has no vote among the keys are still those of first.
VoteKey(a) == [of |-> a, kind |-> "vote"]
VotesKept(first, x) ==
  \A a \in Account : VoteKey(a) \notin x.oneoff => x.acc.delegates[a] = first.delegates[a]

\* x is what the first i transactions of b, applied to first, have come to.
IsApplied(first, b, i, x) ==
  /\ Leads(first, b, i, x.s.acc) /\ Sound(x.s.acc) /\ IsBooked(x.s, {})
  /\ \A j \in 1 .. i : Keys(b[j]) \subseteq x.s.oneoff
  /\ IsApart(b, i) /\ AreNew(first, b, i, x.s.acc) /\ Grown(first, x.s.acc)
  /\ VotesKept(first, x.s)
  /\ x.applied = First(b, i)
IsProcessed(first, b, i, x) ==
  /\ x.applied \subseteq ToSet(b) /\ x.failed \subseteq ToSet(b)
  /\ x.failed = {} => IsApplied(first, b, i, x)

\* What a transaction that is held finds in the tables, and what it leaves there.
LEMMA AppliedFits ==
  ASSUME NEW s \in States, NEW first \in Tables,
         NEW t \in Sent, Sound(s.acc), Grown(first, s.acc),
         VotesKept(first, s), Verify(t, first), Holds(s, t)
  PROVE  Fits(s.acc, t) /\ MayVote(s.acc, t)
<1>1. /\ t.sender \in Account /\ t.kind \in {"signature", "delegate", "vote"}
      /\ s.acc.secondSignature \in SUBSET Account
  BY SentTypes, StateTypes, TableTypes DEF Kind
<1>2. /\ Signer(t) \in s.acc.secondSignature => t.signed # Nobody
      /\ Keys(t) \cap s.oneoff = {}
      /\ t.kind = "delegate" => t.sender \notin s.acc.isDelegate
      /\ t.kind = "signature" => t.sender \notin s.acc.secondSignature
  BY DEF Holds, Payable, Admitted
<1>3. CASE t.kind = "signature"
  BY <1>2, <1>3 DEF Fits, MayVote
<1>4. CASE t.kind = "delegate"
  <2>1. s.acc.username[t.sender] = NoName
    BY <1>1, <1>2, <1>4 DEF Sound
  <2> QED BY <1>2, <1>4, <2>1 DEF Fits, MayVote
<1>5. CASE t.kind = "vote"
  <2>1. IdKey(t) = VoteKey(t.sender)
    BY <1>5 DEF IdKey, VoteKey
  <2>2. VoteKey(t.sender) \notin s.oneoff
    BY <1>2, <2>1, KeyTypes
  <2>3. s.acc.delegates[t.sender] = first.delegates[t.sender]
    BY <1>1, <2>2 DEF VotesKept
  <2>4. /\ t.adds \cup t.removes \subseteq first.isDelegate
        /\ t.adds \cap first.delegates[t.sender] = {}
        /\ t.removes \subseteq first.delegates[t.sender]
        /\ Cardinality((first.delegates[t.sender] \ t.removes) \cup t.adds) <= MaxVotes
    BY <1>5 DEF Verify, CheckDelegates
  <2>5. t.adds \subseteq s.acc.isDelegate
    BY <2>4 DEF Grown
  <2> QED BY <1>2, <1>5, <2>3, <2>4, <2>5 DEF Fits, MayVote
<1> QED BY <1>1, <1>3, <1>4, <1>5

\* It is new on top of the tables it is applied to, and of all they have grown from.
LEMMA AppliedNew ==
  ASSUME NEW x \in Tables, NEW t \in Sent, Fits(x, t), NEW y, y = Apply(x, t),
         NEW first, Grown(first, x), Verify(t, first)
  PROVE  /\ Grown(x, y) /\ Grown(first, y) /\ IsNew(first, t, y)
         /\ \A a \in Account : a # t.sender \/ t.kind # "vote" => y.delegates[a] = x.delegates[a]
<1>1. /\ y.isDelegate = IF t.kind = "delegate" THEN x.isDelegate \cup {t.sender} ELSE x.isDelegate
      /\ y.secondSignature = IF t.kind = "signature" THEN x.secondSignature \cup {t.sender}
                             ELSE x.secondSignature
      /\ y.delegates = IF t.kind = "vote" THEN Put(x.delegates, t.sender, (x.delegates[t.sender] \ t.removes) \cup t.adds)
                       ELSE x.delegates
  BY ApplyIs
<1>2. Grown(x, y) /\ Grown(first, y)
  BY <1>1 DEF Grown
<1>3. IsSigned(first, t)
  BY DEF Grown, Fits, IsSigned, Verify, Signer
<1>5. IsNew(first, t, y)
  BY <1>1, <1>3 DEF Grown, IsNew, Fits
<1>4. \A a \in Account : a # t.sender \/ t.kind # "vote" => y.delegates[a] = x.delegates[a]
  BY <1>1, TableTypes, SentTypes DEF Put
<1> QED BY <1>2, <1>4, <1>5

\* Applying takes the fee from both balances.
LEMMA ApplyBothKeeps ==
  ASSUME NEW s \in States, NEW O, IsBooked(s, O), NEW t \in Sent, Holds(s, t),
         NEW r, r = ApplyBoth(s, t)
  PROVE  /\ r \in States /\ r.acc = Apply(s.acc, t) /\ IsBooked(r, O)
         /\ r.oneoff = s.oneoff \cup Keys(t)
         /\ s.acc.balance[t.sender] >= 1
<1>1. /\ r \in States /\ r.acc = Apply(s.acc, t) /\ r.pool = s.pool
      /\ r.oneoff = s.oneoff \cup Keys(t)
      /\ r.u_balance = Changed(s.u_balance, t.sender, -1) /\ r.kept = s.kept
  <2> DEFINE h == Hold(s, t)
  <2>1. /\ h.oneoff = IF Holds(s, t) THEN s.oneoff \cup Keys(t) ELSE s.oneoff
        /\ h.u_balance = IF Payable(s, t) THEN Changed(s.u_balance, t.sender, -1) ELSE s.u_balance
        /\ h.kept = IF Payable(s, t) /\ ~Holds(s, t) THEN Changed(s.kept, t.sender, 1) ELSE s.kept
    BY HoldIs
  <2>2. /\ r \in States /\ r.acc = Apply(s.acc, t) /\ r.pool = s.pool
        /\ r.oneoff = h.oneoff /\ r.u_balance = h.u_balance /\ r.kept = h.kept
    BY ApplyBothIs
  <2> HIDE DEF h
  <2>3. Payable(s, t)
    BY DEF Holds
  <2> QED BY <2>1, <2>2, <2>3
<1>2. /\ t.sender \in Account /\ s.u_balance \in Amounts /\ s.acc \in Tables
      /\ s.acc.balance \in Amounts
  BY StateTypes, SentTypes, TableTypes
<1>3. r.acc.balance = Changed(s.acc.balance, t.sender, -1)
  BY <1>1, <1>2, ApplyIs
<1>4. ASSUME NEW a \in Account
      PROVE  /\ s.u_balance[a] = s.acc.balance[a] - OfAccount(ToSet(s.pool), a) - s.kept[a]
             /\ s.u_balance[a] >= 0 /\ s.kept[a] >= 0
             /\ s.u_balance[a] \in Int /\ s.kept[a] \in Int /\ s.acc.balance[a] \in Int
             /\ OfAccount(ToSet(s.pool), a) \in Nat
  BY AmountTypes DEF IsBooked
<1>5. s.u_balance[t.sender] >= 1
  BY DEF Holds, Payable
<1>6. ASSUME NEW a \in Account
      PROVE  /\ r.u_balance[a] = r.acc.balance[a] - OfAccount(ToSet(r.pool), a) - r.kept[a]
             /\ r.u_balance[a] >= 0 /\ r.kept[a] >= 0
  <2>1. r.u_balance[a] = IF a = t.sender THEN s.u_balance[a] + (-1) ELSE s.u_balance[a]
    BY <1>1, <1>2, ChangedAt
  <2>2. r.acc.balance[a] = IF a = t.sender THEN s.acc.balance[a] + (-1) ELSE s.acc.balance[a]
    BY <1>2, <1>3, ChangedAt
  <2>3. r.kept[a] = s.kept[a] /\ ToSet(r.pool) = ToSet(s.pool)
    BY <1>1
  <2> QED BY <1>4, <1>5, <2>1, <2>2, <2>3
<1>7. IsBooked(r, O)
  BY <1>1, <1>6 DEF IsBooked
<1>8. s.acc.balance[t.sender] >= 1
  BY <1>2, <1>4, <1>5
<1> QED BY <1>1, <1>7, <1>8

\* One more transaction of a block.
LEMMA ProcessKeeps ==
  ASSUME NEW first \in Tables, NEW b \in Seq(Sent), NEW i \in 1 .. Len(b), NEW x \in Processings,
         \A t \in ToSet(b) : Verify(t, first),
         IsProcessed(first, b, i - 1, x), NEW r, r = ProcessOne(x, b[i])
  PROVE  r \in Processings /\ IsProcessed(first, b, i, r)
<1> DEFINE t == b[i]
           s == x.s
<1>1. /\ t \in Sent /\ t \in ToSet(b) /\ Len(b) \in Nat
      /\ \A j \in 1 .. i : j = i \/ j \in 1 .. i - 1
  BY DEF ToSet
<1>2. /\ r \in Processings /\ s \in States /\ x.applied \in SUBSET Sent
      /\ x.failed \in SUBSET Sent
      /\ IsStep(x, t, r)
  <2>1. r = ProcessOne(x, t)
    OBVIOUS
  <2> HIDE DEF t
  <2>2. r \in Processings /\ IsStep(x, t, r)
    BY <1>1, <2>1, ProcessOneIs
  <2> QED BY <2>2 DEF Processings
<1>3. CASE x.failed # {}
  BY <1>2, <1>3 DEF IsProcessed, IsStep
<1>4. CASE x.failed = {} /\ r.failed # {}
  <2>1. r.failed = {t} /\ r.applied = x.applied
    BY <1>2, <1>4 DEF IsStep
  <2> QED BY <1>1, <1>2, <1>4, <2>1 DEF IsProcessed
<1>5. CASE x.failed = {} /\ r.failed = {}
  <2> DEFINE y == r.s
  <2>1. Holds(s, t) /\ y = ApplyBoth(s, t) /\ r.applied = x.applied \cup {t}
    BY <1>2, <1>5 DEF IsStep
  <2>2. /\ Leads(first, b, i - 1, s.acc) /\ Sound(s.acc) /\ IsBooked(s, {})
        /\ \A j \in 1 .. i - 1 : Keys(b[j]) \subseteq s.oneoff
        /\ IsApart(b, i - 1) /\ AreNew(first, b, i - 1, s.acc) /\ Grown(first, s.acc)
        /\ VotesKept(first, s)
        /\ x.applied = First(b, i - 1)
    BY <1>5 DEF IsProcessed, IsApplied
  <2>3. s.acc \in Tables
    BY <1>2, StateTypes
  <2> HIDE DEF s, y
  <2>4. /\ y \in States /\ y.acc = Apply(s.acc, t) /\ IsBooked(y, {})
        /\ y.oneoff = s.oneoff \cup Keys(t) /\ s.acc.balance[t.sender] >= 1
    BY <1>1, <1>2, <2>1, <2>2, ApplyBothKeeps
  <2>5. Fits(s.acc, t) /\ MayVote(s.acc, t)
    BY <1>1, <1>2, <2>1, <2>2, AppliedFits
  <2>6. Sound(y.acc)
    BY <1>1, <2>2, <2>3, <2>4, <2>5, ApplyKeeps
  <2>7. Leads(first, b, i, y.acc)
    BY <2>2, <2>3, <2>4, <2>5, LeadsOn
  <2>8. /\ Grown(s.acc, y.acc) /\ Grown(first, y.acc) /\ IsNew(first, t, y.acc)
        /\ \A a \in Account : a # t.sender \/ t.kind # "vote" => y.acc.delegates[a] = s.acc.delegates[a]
    BY <1>1, <2>2, <2>3, <2>4, <2>5, AppliedNew
  <2>9. \A j \in 1 .. i : Keys(b[j]) \subseteq y.oneoff
    BY <1>1, <2>2, <2>4
  <2>10. IsApart(b, i)
    <3>1. Keys(t) \cap s.oneoff = {}
      BY <2>1 DEF Holds, Admitted
    <3>2. \A j \in 1 .. i - 1 : Keys(b[j]) \cap Keys(t) = {}
      BY <2>2, <3>1
    <3> SUFFICES ASSUME NEW j \in 1 .. i, NEW k \in 1 .. i, j # k
                 PROVE  Keys(b[j]) \cap Keys(b[k]) = {}
      BY DEF IsApart
    <3>3. CASE j = i
      BY <1>1, <3>2, <3>3
    <3>4. CASE k = i
      BY <1>1, <3>2, <3>4
    <3>5. CASE j # i /\ k # i
      BY <1>1, <2>2, <3>5 DEF IsApart
    <3> QED BY <3>3, <3>4, <3>5
  <2>11. AreNew(first, b, i, y.acc)
    <3> SUFFICES ASSUME NEW j \in 1 .. i PROVE IsNew(first, b[j], y.acc)
      BY DEF AreNew
    <3>1. CASE j = i
      BY <2>8, <3>1
    <3>2. CASE j \in 1 .. i - 1
      <4>1. IsNew(first, b[j], s.acc)
        BY <2>2, <3>2 DEF AreNew
      <4> QED BY <2>8, <4>1 DEF IsNew, Grown
    <3> QED BY <1>1, <3>1, <3>2
  <2>12. VotesKept(first, y)
    <3> SUFFICES ASSUME NEW a \in Account, VoteKey(a) \notin y.oneoff
                 PROVE  y.acc.delegates[a] = first.delegates[a]
      BY DEF VotesKept
    <3>1. VoteKey(a) \notin s.oneoff /\ VoteKey(a) \notin Keys(t)
      BY <2>4
    <3>2. a # t.sender \/ t.kind # "vote"
      <4> SUFFICES ASSUME a = t.sender, t.kind = "vote" PROVE FALSE
        OBVIOUS
      <4>1. IdKey(t) = VoteKey(a)
        BY DEF IdKey, VoteKey
      <4> QED BY <1>1, <3>1, <4>1, KeyTypes
    <3> QED BY <2>2, <2>8, <3>1, <3>2 DEF VotesKept
  <2>13. r.applied = First(b, i)
    BY <1>1, <2>1, <2>2, FirstIs
  <2>14. r.applied \subseteq ToSet(b)
    BY <1>1, <2>1 DEF IsProcessed
  <2>15. IsApplied(first, b, i, r)
    BY <2>4, <2>6, <2>7, <2>8, <2>9, <2>10, <2>11, <2>12, <2>13 DEF IsApplied, y
  <2> QED BY <1>2, <1>5, <2>14, <2>15 DEF IsProcessed
<1> QED BY <1>3, <1>4, <1>5

\* b is a block on top of the tables first, that makes them last.
IsBlock(first, b, last) ==
  /\ Leads(first, b, Len(b), last) /\ Sound(last)
  /\ IsApart(b, Len(b)) /\ AreNew(first, b, Len(b), last) /\ Grown(first, last)

\* A block is processed, to its end if nothing fails.
LEMMA ProcessIs ==
  ASSUME NEW s \in States, IsBooked(s, {}), Sound(s.acc), s.oneoff = {},
         NEW b \in Seq(Sent), \A t \in ToSet(b) : Verify(t, s.acc), NEW r, r = Process(s, b)
  PROVE  /\ r.s \in States /\ r.applied \subseteq ToSet(b) /\ r.failed \subseteq ToSet(b)
         /\ r.failed = {} => /\ IsBlock(s.acc, b, r.s.acc) /\ IsBooked(r.s, {})
                             /\ r.applied = ToSet(b)
<1> DEFINE e == [s |-> s, applied |-> {}, failed |-> {}]
           J == [i \in 0 .. Len(b) |-> {x \in Processings : IsProcessed(s.acc, b, i, x)}]
<1>1. Len(b) \in Nat /\ s.acc \in Tables
  BY StateTypes
<1>2. e \in Processings /\ e.s = s /\ e.applied = {} /\ e.failed = {}
  BY DEF Processings
<1> HIDE DEF e
<1>3. e \in J[0]
  <2>1. Leads(s.acc, b, 0, s.acc)
    BY <1>1, LeadsNone
  <2>2. First(b, 0) = {} /\ 0 \in 0 .. Len(b)
    BY <1>1, FirstIs
  <2>3. IsApart(b, 0) /\ AreNew(s.acc, b, 0, s.acc) /\ Grown(s.acc, s.acc) /\ VotesKept(s.acc, s)
    BY DEF IsApart, AreNew, Grown, VotesKept
  <2>4. \A j \in 1 .. 0 : Keys(b[j]) \subseteq s.oneoff
    OBVIOUS
  <2>5. IsApplied(s.acc, b, 0, e)
    BY <1>2, <2>1, <2>2, <2>3, <2>4 DEF IsApplied
  <2>6. IsProcessed(s.acc, b, 0, e)
    BY <1>2, <2>5 DEF IsProcessed
  <2> QED BY <1>2, <2>2, <2>6
<1>4. ASSUME NEW i \in 1 .. Len(b), NEW x \in Processings, x \in J[i - 1]
      PROVE  ProcessOne(x, b[i]) \in J[i]
  <2>1. i \in 0 .. Len(b) /\ i - 1 \in 0 .. Len(b)
    BY <1>1
  <2>2. IsProcessed(s.acc, b, i - 1, x)
    BY <1>4, <2>1
  <2> DEFINE y == ProcessOne(x, b[i])
             f == s.acc
  <2>3. f \in Tables /\ (\A t \in ToSet(b) : Verify(t, f)) /\ IsProcessed(f, b, i - 1, x)
    BY <1>1, <2>2
  <2> HIDE DEF f
  <2>4. y \in Processings /\ IsProcessed(f, b, i, y)
    BY <2>3, ProcessKeeps
  <2> HIDE DEF y
  <2>5. y \in J[i]
    BY <2>1, <2>4 DEF f
  <2> QED BY <2>5 DEF y
<1> HIDE DEF J
<1>5. FoldLeft(ProcessOne, e, b) \in Processings /\ FoldLeft(ProcessOne, e, b) \in J[Len(b)]
  BY <1>2, <1>3, <1>4, ProcessFold
<1>6. r = FoldLeft(ProcessOne, e, b)
  BY DEF Process, e
<1>7. r \in Processings /\ IsProcessed(s.acc, b, Len(b), r)
  <2>1. Len(b) \in 0 .. Len(b)
    BY <1>1
  <2> QED BY <1>5, <1>6, <2>1 DEF J
<1>8. r.s \in States
  BY <1>7 DEF Processings
<1>9. First(b, Len(b)) = ToSet(b)
  BY FirstIs
<1>10. r.failed = {} => IsBlock(s.acc, b, r.s.acc) /\ IsBooked(r.s, {}) /\ r.applied = ToSet(b)
  BY <1>7, <1>9 DEF IsProcessed, IsApplied, IsBlock
<1> QED BY <1>7, <1>8, <1>10 DEF IsProcessed
-----------------------------------------------------------------------------
(* The chain *)

Blocks == Seq(Sent)

\* T are the tables after each block of c.
IsHistory(T, c) ==
  /\ T \in [0 .. Len(c) -> Tables] /\ T[0] = NewAccounts
  /\ \A h \in 0 .. Len(c) : Sound(T[h])
  /\ \A h \in 1 .. Len(c) : IsBlock(T[h - 1], c[h], T[h])
  /\ \A g, h \in 0 .. Len(c) : g <= h => Grown(T[g], T[h])

\* The blocks of c have led to acc.
HasHistory(c, acc) == \E T : IsHistory(T, c) /\ T[Len(c)] = acc

\* The first tables are sound.
LEMMA NewAccountsAre ==
  NewAccounts \in Tables /\ Sound(NewAccounts)
<1> DEFINE m == [a \in Account |-> Funds]
           u == [a \in Account |-> NoName]
           v == [a \in Account |-> {}]
           x == [balance |-> m, isDelegate |-> {}, username |-> u, secondSignature |-> {}, delegates |-> v]
<1>1. Funds \in Nat /\ MaxVotes \in Nat
  BY ConstantsAssumption
<1>2. m \in Amounts /\ u \in [Account -> Name \cup {NoName}] /\ v \in [Account -> SUBSET Account]
  BY <1>1 DEF Amounts
<1>3. \A a \in Account : m[a] = Funds /\ u[a] = NoName /\ v[a] = {}
  OBVIOUS
<1> HIDE DEF m, u, v
<1>4. x \in Tables /\ x.balance = m /\ x.isDelegate = {} /\ x.username = u /\ x.delegates = v
  BY <1>2 DEF Tables
<1>5. NewAccounts = x
  BY DEF NewAccounts, m, u, v
<1> HIDE DEF x
<1>6. Cardinality({}) = 0
  BY FS_EmptySet
<1>7. Sound(x)
  BY <1>1, <1>3, <1>4, <1>6 DEF Sound
<1> QED BY <1>4, <1>5, <1>7

\* No block has led to them.
LEMMA HistoryNone == HasHistory(<<>>, NewAccounts)
<1> DEFINE T == [h \in 0 .. 0 |-> NewAccounts]
<1>1. Len(<<>>) = 0
  OBVIOUS
<1>2. T \in [0 .. 0 -> Tables] /\ T[0] = NewAccounts /\ \A h \in 0 .. 0 : T[h] = NewAccounts
  BY NewAccountsAre
<1> HIDE DEF T
<1>3. \A g, h \in 0 .. 0 : Grown(T[g], T[h])
  BY <1>2 DEF Grown
<1>4. IsHistory(T, <<>>)
  BY <1>1, <1>2, <1>3, NewAccountsAre DEF IsHistory
<1> QED BY <1>1, <1>2, <1>4 DEF HasHistory

\* One more block leads on.
LEMMA HistoryOn ==
  ASSUME NEW c \in Seq(Blocks), NEW acc, HasHistory(c, acc), NEW b \in Blocks,
         NEW last \in Tables, IsBlock(acc, b, last), NEW d, d = Append(c, b)
  PROVE  HasHistory(d, last)
<1>1. PICK T : IsHistory(T, c) /\ T[Len(c)] = acc
  BY DEF HasHistory
<1> DEFINE n == Len(c)
           U == [h \in 0 .. n + 1 |-> IF h = n + 1 THEN last ELSE T[h]]
<1>2. /\ n \in Nat /\ Len(d) = n + 1 /\ d[n + 1] = b
      /\ \A h \in 1 .. n : d[h] = c[h]
  BY AppendIs
<1>3. /\ T \in [0 .. n -> Tables] /\ T[0] = NewAccounts
      /\ \A h \in 0 .. n : Sound(T[h])
      /\ \A h \in 1 .. n : IsBlock(T[h - 1], c[h], T[h])
      /\ \A g, h \in 0 .. n : g <= h => Grown(T[g], T[h])
  BY <1>1 DEF IsHistory
<1> HIDE DEF n
<1>4. \A h \in 0 .. n + 1 : h = n + 1 \/ (h \in 0 .. n /\ h # n + 1)
  BY <1>2
<1>5. U \in [0 .. n + 1 -> Tables]
  BY <1>3, <1>4
<1>6. U[n + 1] = last /\ \A h \in 0 .. n : U[h] = T[h]
  BY <1>2
<1>7. U[0] = NewAccounts /\ U[n] = acc
  BY <1>1, <1>2, <1>3, <1>6 DEF n
<1> HIDE DEF U
<1>8. \A h \in 0 .. n + 1 : Sound(U[h])
  BY <1>3, <1>4, <1>6 DEF IsBlock
<1>9. ASSUME NEW h \in 1 .. n + 1 PROVE IsBlock(U[h - 1], d[h], U[h])
  <2>1. CASE h = n + 1
    <3>1. h - 1 = n
      BY <1>2, <2>1
    <3> QED BY <1>2, <1>6, <1>7, <2>1, <3>1
  <2>2. CASE h \in 1 .. n
    <3>1. h \in 0 .. n /\ h - 1 \in 0 .. n
      BY <1>2, <2>2
    <3> QED BY <1>2, <1>3, <1>6, <2>2, <3>1
  <2> QED BY <1>2, <2>1, <2>2
<1>10. ASSUME NEW g \in 0 .. n + 1, NEW h \in 0 .. n + 1, g <= h PROVE Grown(U[g], U[h])
  <2>1. CASE g = n + 1
    <3>1. h = g
      BY <1>2, <1>10, <2>1
    <3> QED BY <3>1 DEF Grown
  <2>2. CASE g \in 0 .. n /\ h = n + 1
    <3>1. n \in 0 .. n /\ g <= n
      BY <1>2, <2>2
    <3>2. Grown(T[g], T[n])
      BY <1>3, <2>2, <3>1
    <3>3. Grown(T[n], last)
      BY <1>1 DEF IsBlock, n
    <3> QED BY <1>6, <2>2, <3>2, <3>3 DEF Grown
  <2>3. CASE g \in 0 .. n /\ h \in 0 .. n
    BY <1>3, <1>6, <1>10, <2>3
  <2> QED BY <1>4, <2>1, <2>2, <2>3
<1>11. IsHistory(U, d)
  BY <1>2, <1>5, <1>7, <1>8, <1>9, <1>10 DEF IsHistory
<1> QED BY <1>2, <1>6, <1>11 DEF HasHistory

\* Without the last block, the others have led to what it was applied to.
LEMMA HistoryBack ==
  ASSUME NEW c \in Seq(Blocks), c # <<>>, NEW acc, HasHistory(c, acc), NEW d, d = Front(c)
  PROVE  \E first \in Tables : HasHistory(d, first) /\ IsBlock(first, c[Len(c)], acc)
<1>1. PICK T : IsHistory(T, c) /\ T[Len(c)] = acc
  BY DEF HasHistory
<1> DEFINE n == Len(c)
           U == [h \in 0 .. n - 1 |-> T[h]]
<1>2. n \in Nat /\ n # 0 /\ n - 1 \in 0 .. n /\ n \in 1 .. n
  OBVIOUS
<1>3. d = SubSeq(c, 1, n - 1)
  BY DEF Front
<1>4. Len(d) = n - 1 /\ \A h \in 1 .. n - 1 : d[h] = c[h]
  BY <1>2, <1>3, PrefixIs
<1>5. /\ T \in [0 .. n -> Tables] /\ T[0] = NewAccounts
      /\ \A h \in 0 .. n : Sound(T[h])
      /\ \A h \in 1 .. n : IsBlock(T[h - 1], c[h], T[h])
      /\ \A g, h \in 0 .. n : g <= h => Grown(T[g], T[h])
  BY <1>1 DEF IsHistory
<1>6. T[n] = acc
  BY <1>1
<1> HIDE DEF n
<1>7. /\ 0 .. n - 1 \subseteq 0 .. n /\ 1 .. n - 1 \subseteq 1 .. n
      /\ 0 \in 0 .. n - 1 /\ n - 1 \in 0 .. n - 1
      /\ \A h \in 1 .. n - 1 : h \in 0 .. n - 1 /\ h - 1 \in 0 .. n - 1
  BY <1>2
<1>8. U \in [0 .. n - 1 -> Tables] /\ \A h \in 0 .. n - 1 : U[h] = T[h]
  BY <1>5, <1>7
<1> HIDE DEF U
<1>9. /\ U[0] = NewAccounts /\ \A h \in 0 .. n - 1 : Sound(U[h])
  BY <1>5, <1>7, <1>8
<1>10. \A h \in 1 .. n - 1 : IsBlock(U[h - 1], d[h], U[h])
  BY <1>4, <1>5, <1>7, <1>8
<1>11. \A g, h \in 0 .. n - 1 : g <= h => Grown(U[g], U[h])
  BY <1>5, <1>7, <1>8
<1>12. IsHistory(U, d)
  BY <1>4, <1>8, <1>9, <1>10, <1>11 DEF IsHistory
<1>13. U[n - 1] \in Tables /\ U[Len(d)] = U[n - 1] /\ IsBlock(U[n - 1], c[n], acc)
  BY <1>2, <1>4, <1>5, <1>6, <1>7, <1>8
<1> QED BY <1>12, <1>13 DEF HasHistory, n

\* What the blocks have led to is sound, and what applying them one by one makes.
LEMMA HistoryFold ==
  ASSUME NEW c \in Seq(Blocks), NEW acc, HasHistory(c, acc)
  PROVE  acc \in Tables /\ Sound(acc) /\ FoldLeft(ApplyAll, NewAccounts, c) = acc
<1>1. PICK T : IsHistory(T, c) /\ T[Len(c)] = acc
  BY DEF HasHistory
<1> DEFINE n == Len(c)
           J == [h \in 0 .. Len(c) |-> {T[h]}]
<1>2. n \in Nat /\ n \in 0 .. n /\ 0 \in 0 .. n
  OBVIOUS
<1>3. /\ T \in [0 .. n -> Tables] /\ T[0] = NewAccounts
      /\ \A h \in 0 .. n : Sound(T[h])
      /\ \A h \in 1 .. n : IsBlock(T[h - 1], c[h], T[h])
  BY <1>1 DEF IsHistory
<1>4. NewAccounts \in J[0] /\ NewAccounts \in Tables
  BY <1>2, <1>3, NewAccountsAre
<1>5. ASSUME NEW h \in 1 .. Len(c), NEW x \in Tables, x \in J[h - 1]
      PROVE  ApplyAll(x, c[h]) \in J[h]
  <2>1. h \in 0 .. n /\ h - 1 \in 0 .. n /\ c[h] \in Seq(Sent)
    BY <1>2 DEF Blocks
  <2>2. x = T[h - 1]
    BY <1>5, <2>1
  <2>3. Leads(x, c[h], Len(c[h]), T[h])
    BY <1>3, <2>2 DEF IsBlock
  <2>4. ApplyAll(x, c[h]) = T[h]
    BY <2>1, <2>3, LeadsForth
  <2> QED BY <2>1, <2>4
<1> HIDE DEF J
<1>6. c \in Seq(Seq(Sent))
  BY DEF Blocks
<1>7. FoldLeft(ApplyAll, NewAccounts, c) \in J[Len(c)]
  BY <1>4, <1>5, <1>6, ApplyAllFold
<1>8. FoldLeft(ApplyAll, NewAccounts, c) = T[Len(c)]
  BY <1>2, <1>7 DEF J
<1> QED BY <1>1, <1>2, <1>3, <1>8

\* Below and above each other, two transactions of an account do not both register it
\* or give it a second signature, and who got one below signs the upper one with it.
Follow(t, u) ==
  /\ t.sender = u.sender /\ t.kind = u.kind => t.kind = "vote"
  /\ t.sender = Signer(u) /\ t.kind = "signature" =>
       u.signed # Nobody /\ (u.requester = Nobody => u.signed = u.sender)

\* So it is in the chain; in a block no two have a key in common.
LEMMA HistoryOnce ==
  ASSUME NEW c \in Seq(Blocks), NEW acc, HasHistory(c, acc)
  PROVE  /\ \A h \in 1 .. Len(c) : IsApart(c[h], Len(c[h]))
         /\ \A g, h \in 1 .. Len(c) : g < h =>
              \A j \in 1 .. Len(c[g]), k \in 1 .. Len(c[h]) : Follow(c[g][j], c[h][k])
<1>1. PICK T : IsHistory(T, c) /\ T[Len(c)] = acc
  BY DEF HasHistory
<1> DEFINE n == Len(c)
<1>2. /\ \A h \in 1 .. n : IsBlock(T[h - 1], c[h], T[h])
      /\ \A g, h \in 0 .. n : g <= h => Grown(T[g], T[h])
  BY <1>1 DEF IsHistory
<1>3. \A h \in 1 .. n : IsApart(c[h], Len(c[h]))
  BY <1>2 DEF IsBlock
<1>4. ASSUME NEW g \in 1 .. n, NEW h \in 1 .. n, g < h,
             NEW j \in 1 .. Len(c[g]), NEW k \in 1 .. Len(c[h])
      PROVE  Follow(c[g][j], c[h][k])
  <2> DEFINE t == c[g][j]
             u == c[h][k]
  <2>1. n \in Nat /\ g \in 0 .. n /\ h - 1 \in 0 .. n /\ g <= h - 1
    BY <1>4
  <2>2. Grown(T[g], T[h - 1])
    BY <1>2, <2>1
  <2>3. IsNew(T[g - 1], t, T[g]) /\ IsNew(T[h - 1], u, T[h])
    BY <1>2 DEF IsBlock, AreNew
  <2>5. t \in Sent /\ u \in Sent
    BY <1>1, <1>4 DEF Blocks
  <2> HIDE DEF t, u
  <2>6. t.kind \in Kind /\ u.kind \in Kind
    BY <2>5, SentTypes
  <2>4. Follow(t, u)
    BY <2>2, <2>3, <2>5, <2>6 DEF Follow, IsNew, IsSigned, Grown, Kind
  <2> QED BY <2>4 DEF t, u
<1> QED BY <1>3, <1>4
-----------------------------------------------------------------------------
(* The chain and the pool *)

\* The blocks of c have transactions of O, each at one place.
IsChain(c, O) ==
  /\ c \in Seq(Blocks)
  /\ \A h \in 1 .. Len(c) : IsInjective(c[h]) /\ ToSet(c[h]) \subseteq O
  /\ \A g, h \in 1 .. Len(c) : g # h => ToSet(c[g]) \cap ToSet(c[h]) = {}

\* Those of O that are in no block of c.
Free(c, O) == {t \in O : \A h \in 1 .. Len(c) : t \notin ToSet(c[h])}

\* d is c with b on top, a block of free transactions.
IsOnTop(d, b, c, O) ==
  /\ IsChain(c, O) /\ b \in Blocks /\ IsInjective(b) /\ ToSet(b) \subseteq Free(c, O)
  /\ d = Append(c, b)

\* A block of free transactions is put on top.
LEMMA ChainOn ==
  ASSUME NEW c, NEW O, NEW b, NEW d, IsOnTop(d, b, c, O)
  PROVE  IsChain(d, O) /\ Free(d, O) = Free(c, O) \ ToSet(b)
<1> DEFINE n == Len(c)
<1>0. IsChain(c, O) /\ b \in Blocks /\ IsInjective(b) /\ ToSet(b) \subseteq Free(c, O)
      /\ d = Append(c, b)
  BY DEF IsOnTop
<1>1. c \in Seq(Blocks) /\ n \in Nat
  BY <1>0 DEF IsChain
<1>2. /\ d \in Seq(Blocks) /\ Len(d) = n + 1 /\ d[n + 1] = b
      /\ \A h \in 1 .. n : d[h] = c[h]
  BY <1>0, <1>1, AppendIs
<1>3. /\ \A h \in 1 .. n : IsInjective(c[h]) /\ ToSet(c[h]) \subseteq O
      /\ \A g, h \in 1 .. n : g # h => ToSet(c[g]) \cap ToSet(c[h]) = {}
  BY <1>0 DEF IsChain
<1>4. ToSet(b) \subseteq O /\ \A h \in 1 .. n : ToSet(b) \cap ToSet(c[h]) = {}
  BY <1>0 DEF Free
<1> HIDE DEF n
<1>5. \A h \in 1 .. n + 1 : h = n + 1 \/ h \in 1 .. n
  BY <1>1
<1>6. n + 1 \in 1 .. n + 1 /\ 1 .. n \subseteq 1 .. n + 1
  BY <1>1
<1>7. \A h \in 1 .. n + 1 : IsInjective(d[h]) /\ ToSet(d[h]) \subseteq O
  BY <1>0, <1>2, <1>3, <1>4, <1>5
<1>8. ASSUME NEW g \in 1 .. n + 1, NEW h \in 1 .. n + 1, g # h
      PROVE  ToSet(d[g]) \cap ToSet(d[h]) = {}
  <2>1. CASE g = n + 1 /\ h \in 1 .. n
    BY <1>2, <1>4, <2>1
  <2>2. CASE h = n + 1 /\ g \in 1 .. n
    BY <1>2, <1>4, <2>2
  <2>3. CASE g \in 1 .. n /\ h \in 1 .. n
    BY <1>2, <1>3, <1>8, <2>3
  <2> QED BY <1>5, <1>8, <2>1, <2>2, <2>3
<1>9. IsChain(d, O)
  BY <1>0, <1>2, <1>7, <1>8 DEF IsChain
<1>10. \A t \in O : (\A h \in 1 .. n + 1 : t \notin ToSet(d[h]))
                    <=> (\A h \in 1 .. n : t \notin ToSet(c[h])) /\ t \notin ToSet(b)
  BY <1>2, <1>5, <1>6
<1>11. Free(d, O) = Free(c, O) \ ToSet(b)
  BY <1>2, <1>10 DEF Free, n
<1> QED BY <1>9, <1>11

\* The last one is taken away.
LEMMA ChainBack ==
  ASSUME NEW c, NEW O, IsChain(c, O), c # <<>>, NEW d, d = Front(c)
  PROVE  /\ IsChain(d, O) /\ Free(c, O) \subseteq Free(d, O)
         /\ Len(c) \in 1 .. Len(c) /\ c[Len(c)] \in Blocks
         /\ ToSet(c[Len(c)]) \cap Free(c, O) = {}
<1> DEFINE n == Len(c)
<1>1. c \in Seq(Blocks) /\ n \in Nat /\ n # 0 /\ n - 1 \in 0 .. n /\ n \in 1 .. n
  BY DEF IsChain
<1>2. d = SubSeq(c, 1, n - 1)
  BY DEF Front
<1>3. d \in Seq(Blocks) /\ Len(d) = n - 1 /\ \A h \in 1 .. n - 1 : d[h] = c[h]
  BY <1>1, <1>2, PrefixIs
<1>4. /\ \A h \in 1 .. n : IsInjective(c[h]) /\ ToSet(c[h]) \subseteq O
      /\ \A g, h \in 1 .. n : g # h => ToSet(c[g]) \cap ToSet(c[h]) = {}
  BY DEF IsChain
<1>5. c[n] \in Blocks
  BY <1>1
<1>6. 1 .. n - 1 \subseteq 1 .. n
  BY <1>1
<1>7. ToSet(c[n]) \cap Free(c, O) = {}
  BY <1>1 DEF Free
<1> HIDE DEF n
<1>8. IsChain(d, O)
  BY <1>3, <1>4, <1>6 DEF IsChain
<1>9. Free(c, O) \subseteq Free(d, O)
  BY <1>3, <1>6 DEF Free, n
<1> QED BY <1>1, <1>5, <1>7, <1>8, <1>9 DEF n

\* The blocks of transactions: sorted, each once.
LEMMA SortedIs ==
  ASSUME NEW O \in Offers, NEW S \in SUBSET O
  PROVE  Sorted(S) \in Seq(Sent) /\ ToSet(Sorted(S)) = S /\ IsInjective(Sorted(S))
<1> DEFINE B == [t \in S |-> {u \in S : Before(u, t)}]
           q == [p \in 1 .. Cardinality(S) |-> CHOOSE t \in S : Cardinality(B[t]) = p - 1]
           e(p) == CHOOSE t \in S : Cardinality({u \in S : Before(u, t)}) = p - 1
           d(p) == CHOOSE t \in S : Cardinality(B[t]) = p - 1
<1>1. IsFiniteSet(S)
  BY ConstantsAssumption, FS_Subset
<1>2. \A t \in S : t.id \in Int /\ t.kind \in {"signature", "delegate", "vote"} /\ t \in Sent
  <2> TAKE t \in S
  <2>1. t \in Sent
    BY DEF Sent
  <2> QED BY <2>1, SentTypes DEF Kind
<1>3. \A t, u \in S : t.id = u.id => t = u
  BY ConstantsAssumption
<1>4. \A t, u \in S : u \in B[t] <=> Before(u, t)
  OBVIOUS
<1>5. B \in [S -> SUBSET S]
  OBVIOUS
<1>6. \A p : d(p) = e(p)
  <2> SUFFICES ASSUME NEW p PROVE d(p) = e(p)
    OBVIOUS
  <2>1. \A t \in S : B[t] = {u \in S : Before(u, t)}
    OBVIOUS
  <2> HIDE DEF B
  <2> QED BY <2>1
<1>7. q = [p \in 1 .. Cardinality(S) |-> d(p)]
      /\ Sorted(S) = [p \in 1 .. Cardinality(S) |-> e(p)]
  BY DEF Sorted, InOrder
<1>8. q = Sorted(S)
  <2> HIDE DEF q, d, e
  <2> QED BY <1>6, <1>7
<1>9. q = [p \in 1 .. Cardinality(S) |-> CHOOSE t \in S : Cardinality(B[t]) = p - 1]
  OBVIOUS
<1> HIDE DEF B, q
<1>10. \A t \in S : t \notin B[t]
  BY <1>2, <1>4 DEF Before
<1>11. \A t, u \in S : t # u => t \in B[u] \/ u \in B[t]
  BY <1>2, <1>3, <1>4 DEF Before
<1>12. \A t, u \in S : u \in B[t] => B[u] \subseteq B[t]
  <2> SUFFICES ASSUME NEW t \in S, NEW u \in S, u \in B[t], NEW v \in B[u]
               PROVE  v \in B[t]
    OBVIOUS
  <2>1. v \in S
    BY <1>5
  <2>2. Before(u, t) /\ Before(v, u)
    BY <1>4, <2>1
  <2>3. Before(v, t)
    BY <1>2, <2>1, <2>2 DEF Before
  <2> QED BY <1>4, <2>1, <2>3
<1>13. q \in Seq(S) /\ ToSet(q) = S /\ IsInjective(q)
  BY <1>1, <1>5, <1>9, <1>10, <1>11, <1>12, RanksList
<1>14. q \in Seq(Sent)
  BY <1>2, <1>13
<1> QED BY <1>8, <1>13, <1>14

-----------------------------------------------------------------------------
(* The invariant *)

\* The blocks of c have led to the tables of s, its pool is free, and its books are kept.
IsNode(c, s, O) ==
  /\ s \in States /\ O \in Offers
  /\ IsChain(c, O) /\ HasHistory(c, s.acc)
  /\ IsBooked(s, Free(c, O))

AsideOK ==
  /\ held \in Seq(Sent) /\ ToSet(held) \subseteq offered
  /\ invalid \subseteq offered /\ syncing \in BOOLEAN

IInv == IsNode(chain, State, offered) /\ AsideOK

\* The state has the variables that transactions change.
LEMMA StateIs ==
  /\ State.acc = accounts /\ State.u_balance = u_balance /\ State.oneoff = oneoff
  /\ State.pool = pool /\ State.kept = kept
  BY DEF State

\* After an update they are those of s.
LEMMA UpdateIs ==
  ASSUME NEW s \in States, Update(s)
  PROVE  State' = s
  BY DEF Update, State, States

\* A step that leaves the chain as it was, and keeps the books.
LEMMA StateKeeps ==
  ASSUME IInv, chain' = chain, offered' = offered, NEW s \in States, Update(s),
         s.acc = accounts, IsBooked(s, Free(chain, offered)), AsideOK'
  PROVE  IInv'
<1>1. State' = s
  BY UpdateIs
<1>2. IsNode(chain, s, offered)
  BY StateIs DEF IInv, IsNode
<1> DEFINE c == chain'
           u == State'
           O == offered'
<1>3. c = chain /\ u = s /\ O = offered
  BY <1>1
<1> HIDE DEF c, u, O
<1>4. IsNode(c, u, O)
  BY <1>2, <1>3
<1> QED BY <1>4 DEF IInv, c, u, O

\* A free transaction is one that is not confirmed.
LEMMA FreeIs ==
  ASSUME NEW t \in offered
  PROVE  t \in Free(chain, offered) <=> ~Confirmed(t)
  BY DEF Free, Confirmed, Top

\* What may go into the pool is free.
LEMMA MayGoIs ==
  ASSUME NEW l, ToSet(l) \subseteq offered
  PROVE  MayGo(l, {}, Free(chain, offered)) /\ \A X : MayGo(l, X, Free(chain, offered) \ X)
  BY FreeIs DEF MayGo

\* What is offered is sent.
LEMMA OfferedSent ==
  ASSUME IInv
  PROVE  offered \in Offers /\ offered \subseteq Sent /\ IsFiniteSet(offered)
  BY ConstantsAssumption DEF IInv, IsNode, Sent

\* What receiveTransactions is given back is offered.
LEMMA RestIs ==
  ASSUME NEW l \in Seq(Sent), NEW O, ToSet(l) \subseteq O, NEW X, NEW r, r = Without(l, X)
  PROVE  r \in Seq(Sent) /\ ToSet(r) \subseteq O
<1>1. r \in Seq(Sent \ X) /\ ToSet(r) = ToSet(l) \ X
  BY WithoutIs
<1>2. r \in Seq(Sent)
  BY <1>1
<1> QED BY <1>1, <1>2
\* The keys are cleared.
LEMMA KeysSet ==
  ASSUME NEW s \in States, NEW o \in OneOffs, NEW O, IsBooked(s, O),
         NEW r, r = [s EXCEPT !.oneoff = o]
  PROVE  r \in States /\ r.acc = s.acc /\ r.pool = s.pool /\ r.oneoff = o /\ IsBooked(r, O)
<1>1. /\ r \in States /\ r.acc = s.acc /\ r.pool = s.pool /\ r.oneoff = o
      /\ r.u_balance = s.u_balance /\ r.kept = s.kept
  BY DEF States
<1> QED BY <1>1 DEF IsBooked

\* An empty pool is free.
LEMMA BookedMore ==
  ASSUME NEW s, NEW O, IsBooked(s, {})
  PROVE  IsBooked(s, O)
  BY DEF IsBooked

\* applyBlock, on a block that was verified.
LEMMA ApplyBlockKeeps ==
  ASSUME IInv, NEW b \in Seq(Sent), IsInjective(b), ToSet(b) \subseteq Free(chain, offered),
         \A t \in ToSet(b) : Verify(t, accounts),
         NEW s \in States, s.acc = accounts, IsBooked(s, Free(chain, offered)), ApplyBlock(b, s)
  PROVE  IInv'
<1> DEFINE O == Free(chain, offered)
           un == UndoPool(s)
           clean == [un EXCEPT !.oneoff = {}]
           r == Process(clean, b)
           back == [clean EXCEPT !.oneoff = r.s.oneoff]
           up == [r.s EXCEPT !.oneoff = {}]
           Rest(gone) == Without(Reverse(s.pool), gone)
           rest1 == Rest(r.applied \cup invalid)
           rest2 == Rest(r.applied \cup invalid')
           s1 == ReceiveAll(up, rest1, r.applied)
           s2 == ReceiveAll(back, rest2, {})
<1>1. /\ UNCHANGED <<held, syncing, offered>>
      /\ invalid' = invalid \cup r.failed
      /\ \/ r.failed = {} /\ chain' = Append(chain, b) /\ Update(s1)
         \/ chain' = chain /\ Update(s2)
  BY DEF ApplyBlock
<1>2. /\ offered \in Offers /\ offered \subseteq Sent
      /\ IsChain(chain, offered) /\ HasHistory(chain, accounts) /\ AsideOK
  BY OfferedSent, StateIs DEF IInv, IsNode
<1>3. accounts \in Tables /\ Sound(accounts)
  <2>1. chain \in Seq(Blocks)
    BY <1>2 DEF IsChain
  <2> QED BY <1>2, <2>1, HistoryFold
<1>4. un \in States /\ un.acc = accounts /\ IsBooked(un, {})
  BY UndoPoolKeeps
<1>5. {} \in OneOffs
  BY DEF OneOffs
<1> HIDE DEF un
<1>6. clean \in States /\ clean.acc = accounts /\ clean.oneoff = {} /\ IsBooked(clean, {})
  <2> DEFINE o == {}
             x == [un EXCEPT !.oneoff = o]
             N == {}
  <2>1. o \in OneOffs /\ IsBooked(un, N)
    BY <1>4, <1>5
  <2> HIDE DEF o, N
  <2>2. x \in States /\ x.acc = un.acc /\ x.oneoff = o /\ IsBooked(x, N)
    BY <1>4, <2>1, KeysSet
  <2> QED BY <1>4, <2>2 DEF o, N
<1> HIDE DEF clean
<1>7. /\ r.s \in States /\ r.applied \subseteq ToSet(b) /\ r.failed \subseteq ToSet(b)
      /\ r.failed = {} => IsBlock(accounts, b, r.s.acc) /\ IsBooked(r.s, {}) /\ r.applied = ToSet(b)
  BY <1>3, <1>6, ProcessIs
<1> HIDE DEF r
<1>8. back \in States /\ back.acc = accounts /\ IsBooked(back, O)
  <2>1. r.s.oneoff \in OneOffs
    BY <1>7, StateTypes
  <2>2. back \in States /\ back.acc = accounts /\ IsBooked(back, {})
    BY <1>6, <2>1, KeysSet
  <2> HIDE DEF back, O
  <2> QED BY <2>2, BookedMore
<1>9. ToSet(s.pool) \subseteq offered /\ s.pool \in Seq(Sent)
  BY StateTypes DEF IsBooked, Free
<1>10. ASSUME NEW X PROVE Rest(X) \in Seq(Sent) /\ ToSet(Rest(X)) \subseteq offered
  <2> DEFINE l == Reverse(s.pool)
  <2>1. l \in Seq(Sent) /\ ToSet(l) \subseteq offered
    BY <1>9, ReverseIs
  <2> HIDE DEF l
  <2>2. Without(l, X) \in Seq(Sent) /\ ToSet(Without(l, X)) \subseteq offered
    BY <2>1, RestIs
  <2> QED BY <2>2 DEF l
<1>11. /\ rest1 \in Seq(Sent) /\ ToSet(rest1) \subseteq offered
       /\ rest2 \in Seq(Sent) /\ ToSet(rest2) \subseteq offered
  <2> HIDE DEF Rest
  <2> QED BY <1>10
<1>12. ToSet(b) \subseteq offered
  BY DEF Free
<1>13. AsideOK'
  <2>1. held' = held /\ syncing' = syncing /\ offered' = offered /\ invalid' \subseteq offered
    BY <1>1, <1>2, <1>7, <1>12 DEF AsideOK
  <2> QED BY <1>2, <2>1 DEF AsideOK
<1> HIDE DEF O, back, rest1, rest2
<1>14. CASE r.failed = {} /\ chain' = Append(chain, b) /\ Update(s1)
  <2> DEFINE c == chain'
             P == offered'
             A == r.applied
             Q == Free(chain, offered) \ A
  <2>1. b \in Blocks /\ IsBlock(accounts, b, r.s.acc) /\ A = ToSet(b) /\ IsBooked(r.s, {})
    BY <1>7, <1>14 DEF Blocks
  <2>2. c = Append(chain, b) /\ P = offered
    BY <1>1, <1>14
  <2>3. up \in States /\ up.acc = r.s.acc /\ IsBooked(up, {})
    <3> DEFINE o == {}
               v == r.s
               x == [v EXCEPT !.oneoff = o]
               N == {}
    <3>1. o \in OneOffs /\ IsBooked(v, N) /\ v \in States
      BY <1>5, <1>7, <2>1
    <3> HIDE DEF o, v, N
    <3>2. x \in States /\ x.acc = v.acc /\ IsBooked(x, N)
      BY <3>1, KeysSet
    <3> QED BY <3>2 DEF o, v, N
  <2> HIDE DEF c, P, Q, up
  <2>4. IsBooked(up, Q)
    BY <2>3, BookedMore
  <2>5. MayGo(rest1, A, Q)
    <3>1. \A X : MayGo(rest1, X, Free(chain, offered) \ X)
      BY <1>11, MayGoIs
    <3> HIDE DEF A
    <3> QED BY <3>1 DEF Q
  <2>6. s1 \in States /\ s1.acc = r.s.acc /\ IsBooked(s1, Q)
    BY <1>11, <2>3, <2>4, <2>5, ReceiveAllKeeps
  <2>7. IsChain(c, offered) /\ Free(c, offered) = Q
    <3>1. IsOnTop(c, b, chain, offered)
      BY <1>2, <2>1, <2>2 DEF IsOnTop
    <3>2. IsChain(c, offered) /\ Free(c, offered) = Free(chain, offered) \ ToSet(b)
      BY <3>1, ChainOn
    <3> QED BY <2>1, <3>2 DEF Q
  <2>8. HasHistory(c, s1.acc)
    <3>1. chain \in Seq(Blocks) /\ r.s.acc \in Tables
      BY <1>2, <1>7, StateTypes DEF IsChain
    <3>2. HasHistory(c, r.s.acc)
      BY <1>2, <2>1, <2>2, <3>1, HistoryOn
    <3> HIDE DEF s1
    <3> QED BY <2>6, <3>2
  <2> DEFINE u == State'
  <2>9. u = s1
    BY <1>14, <2>6, UpdateIs
  <2> HIDE DEF u, s1
  <2>10. IsNode(c, u, P)
    BY <1>2, <2>2, <2>6, <2>7, <2>8, <2>9 DEF IsNode
  <2> QED BY <1>13, <2>10 DEF IInv, c, u, P
<1>15. CASE chain' = chain /\ Update(s2)
  <2>1. MayGo(rest2, {}, O)
    BY <1>11, MayGoIs DEF O
  <2>2. s2 \in States /\ s2.acc = accounts /\ IsBooked(s2, O)
    BY <1>8, <1>11, <2>1, ReceiveAllKeeps
  <2>3. offered' = offered
    BY <1>1
  <2> HIDE DEF s2
  <2> QED BY <1>13, <1>15, <2>2, <2>3, StateKeeps DEF O
<1> HIDE DEF s1, s2
<1> QED BY <1>1, <1>14, <1>15

-----------------------------------------------------------------------------
(* Each step keeps the invariant *)

\* A transaction is received.
LEMMA ReceiveTransactionStep ==
  ASSUME IInv, NEW t \in offered, ReceiveTransaction(t)
  PROVE  IInv'
<1> DEFINE r == Add(State, t)
           O == Free(chain, offered)
           s == State
<1>1. /\ Fresh(s, t, {}) /\ Update(r)
      /\ UNCHANGED <<chain, invalid, held, syncing, offered, faults>>
  BY DEF ReceiveTransaction
<1>2. s \in States /\ IsBooked(s, O) /\ s.acc = accounts /\ AsideOK /\ t \in Sent
  BY OfferedSent, StateIs DEF IInv, IsNode
<1>3. t \in O /\ t \notin ToSet(s.pool)
  BY <1>1, FreeIs DEF Fresh
<1> HIDE DEF O, s
<1>4. r = Add(s, t)
  BY DEF s
<1> HIDE DEF r
<1>5. r \in States /\ r.acc = accounts /\ IsBooked(r, O)
  BY <1>2, <1>3, <1>4, AddKeeps
<1>6. AsideOK'
  BY <1>1, <1>2 DEF AsideOK
<1> QED BY <1>1, <1>5, <1>6, StateKeeps DEF O

\* X leaves the pool and is not undone.
Removed(s, X) ==
  [s EXCEPT !.pool = Without(s.pool, X), !.kept = [a \in Account |-> s.kept[a] + OfAccount(X, a)]]

\* The fees are kept.
LEMMA RemoveKeeps ==
  ASSUME NEW s \in States, NEW O, IsBooked(s, O), NEW X \in SUBSET ToSet(s.pool),
         NEW r, r = Removed(s, X)
  PROVE  r \in States /\ r.acc = s.acc /\ IsBooked(r, O)
<1> DEFINE S == ToSet(s.pool)
           p == Without(s.pool, X)
           k == [a \in Account |-> s.kept[a] + OfAccount(X, a)]
<1>1. s.pool \in Seq(Sent) /\ IsInjective(s.pool) /\ S \subseteq O
  BY StateTypes DEF IsBooked
<1>2. p \in Seq(Sent \ X) /\ ToSet(p) = S \ X /\ IsInjective(p)
  BY <1>1, WithoutIs
<1> HIDE DEF p
<1>3. p \in Seq(Sent)
  BY <1>2
<1>4. IsFiniteSet(S)
  <2>1. Len(s.pool) \in 0 .. Len(s.pool)
    BY <1>1
  <2> QED BY <1>1, <2>1, FirstFinite
<1> HIDE DEF S
<1>5. ASSUME NEW a \in Account
      PROVE  /\ OfAccount(S, a) = OfAccount(S \ X, a) + OfAccount(X, a)
             /\ OfAccount(X, a) \in Nat /\ OfAccount(S \ X, a) \in Nat
  <2>1. X \in SUBSET S
    BY DEF S
  <2> QED BY <1>4, <2>1, OfAccountBoth
<1>6. ASSUME NEW a \in Account
      PROVE  /\ s.u_balance[a] = s.acc.balance[a] - OfAccount(S, a) - s.kept[a]
             /\ s.u_balance[a] >= 0 /\ s.kept[a] >= 0
             /\ s.u_balance[a] \in Int /\ s.kept[a] \in Int /\ s.acc.balance[a] \in Int
  BY AmountTypes DEF IsBooked, S
<1>7. k \in Amounts /\ \A a \in Account : k[a] = s.kept[a] + OfAccount(X, a)
  <2>1. \A a \in Account : s.kept[a] + OfAccount(X, a) \in Int
    BY <1>5, <1>6
  <2> QED BY <2>1 DEF Amounts
<1>8. /\ r \in States /\ r.acc = s.acc /\ r.pool = p /\ r.kept = k
      /\ r.u_balance = s.u_balance
  <2>1. r = [s EXCEPT !.pool = p, !.kept = k]
    BY DEF Removed, p
  <2> HIDE DEF k
  <2> QED BY <1>3, <1>7, <2>1 DEF States
<1> HIDE DEF k
<1>9. ASSUME NEW a \in Account
      PROVE  /\ r.u_balance[a] = r.acc.balance[a] - OfAccount(ToSet(r.pool), a) - r.kept[a]
             /\ r.u_balance[a] >= 0 /\ r.kept[a] >= 0
  <2>1. /\ r.u_balance[a] = s.u_balance[a] /\ r.acc.balance[a] = s.acc.balance[a]
        /\ r.kept[a] = s.kept[a] + OfAccount(X, a)
        /\ OfAccount(ToSet(r.pool), a) = OfAccount(S \ X, a)
    BY <1>2, <1>7, <1>8
  <2> DEFINE n == OfAccount(S \ X, a)
             m == OfAccount(X, a)
  <2>2. n \in Nat /\ m \in Nat /\ OfAccount(S, a) = n + m
    BY <1>5
  <2>3. OfAccount(ToSet(r.pool), a) = n /\ r.kept[a] = s.kept[a] + m
    BY <2>1
  <2> HIDE DEF n, m
  <2> QED BY <1>6, <2>1, <2>2, <2>3
<1>10. IsBooked(r, O)
  BY <1>1, <1>2, <1>8, <1>9 DEF IsBooked
<1> QED BY <1>8, <1>10

\* A block is forged.
LEMMA ForgeStep ==
  ASSUME IInv, Forge
  PROVE  IInv'
<1> DEFINE good == {t \in ToSet(pool) : Verify(t, accounts)}
           bad == ToSet(pool) \ good
           s == State
           r == Removed(s, bad)
           b == Sorted(good)
           O == Free(chain, offered)
<1>1. ApplyBlock(b, r)
  <2>1. s.pool = pool /\ s.kept = kept
    BY StateIs
  <2>2. ApplyBlock(b, [State EXCEPT !.pool = Without(@, bad),
                                    !.kept = [a \in Account |-> @[a] + OfAccount(bad, a)]])
    BY DEF Forge
  <2> QED BY <2>1, <2>2 DEF Removed
<1>2. /\ s \in States /\ IsBooked(s, O) /\ s.acc = accounts
      /\ s.pool = pool /\ s.kept = kept /\ offered \in Offers
  BY StateIs DEF IInv, IsNode
<1>3. good \in SUBSET offered /\ good \subseteq O /\ bad \in SUBSET ToSet(s.pool)
  BY <1>2 DEF IsBooked, Free
<1>4. \A t \in good : Verify(t, accounts)
  OBVIOUS
<1> HIDE DEF good, bad, O, s
<1>5. b \in Seq(Sent) /\ ToSet(b) = good /\ IsInjective(b)
  BY <1>2, <1>3, SortedIs
<1>6. r = Removed(s, bad)
  OBVIOUS
<1> HIDE DEF r, b
<1>7. r \in States /\ r.acc = accounts /\ IsBooked(r, O)
  BY <1>2, <1>3, <1>6, RemoveKeeps
<1> QED BY <1>1, <1>3, <1>4, <1>5, <1>7, ApplyBlockKeeps DEF O

\* A block comes.
LEMMA ReceiveBlockStep ==
  ASSUME IInv, NEW T \in SUBSET offered, ReceiveBlock(T)
  PROVE  IInv'
<1> DEFINE b == Sorted(T)
           s == State
           O == Free(chain, offered)
<1>1. ApplyBlock(b, s) /\ \A t \in T : ~Confirmed(t) /\ Verify(t, accounts)
  BY DEF ReceiveBlock
<1>2. s \in States /\ IsBooked(s, O) /\ s.acc = accounts /\ offered \in Offers
  BY StateIs DEF IInv, IsNode
<1>3. b \in Seq(Sent) /\ ToSet(b) = T /\ IsInjective(b)
  BY <1>2, SortedIs
<1>4. T \subseteq O
  BY <1>1, FreeIs
<1> HIDE DEF b, s
<1> QED BY <1>1, <1>2, <1>3, <1>4, ApplyBlockKeeps

\* The pool is undone.
LEMMA StartSyncStep ==
  ASSUME IInv, StartSync
  PROVE  IInv'
<1> DEFINE r == UndoPool(State)
           O == Free(chain, offered)
           s == State
<1>1. /\ syncing' = TRUE /\ held' = Reverse(pool) /\ Update(r)
      /\ UNCHANGED <<chain, invalid, offered>>
  BY DEF StartSync
<1>2. s \in States /\ IsBooked(s, O) /\ s.acc = accounts /\ s.pool = pool /\ AsideOK
  BY StateIs DEF IInv, IsNode
<1>3. held' \in Seq(Sent) /\ ToSet(held') \subseteq offered
  <2>1. pool \in Seq(Sent) /\ ToSet(pool) \subseteq offered
    BY <1>2, StateTypes DEF IsBooked, Free
  <2>2. Reverse(pool) \in Seq(Sent) /\ ToSet(Reverse(pool)) = ToSet(pool)
    BY <2>1, ReverseIs
  <2> QED BY <1>1, <2>1, <2>2
<1> HIDE DEF O, s
<1>4. r = UndoPool(s)
  BY DEF s
<1> HIDE DEF r
<1>5. r \in States /\ r.acc = accounts /\ IsBooked(r, {})
  BY <1>2, <1>4, UndoPoolKeeps
<1>6. IsBooked(r, O)
  BY <1>5, BookedMore
<1>7. AsideOK'
  BY <1>1, <1>2, <1>3 DEF AsideOK
<1> QED BY <1>1, <1>5, <1>6, <1>7, StateKeeps DEF O

\* A block is popped.
LEMMA PopBlockStep ==
  ASSUME IInv, PopBlock
  PROVE  IInv'
<1> DEFINE b == chain[Top]
           s == State
           r == FoldLeft(UndoBoth, State, Reverse(chain[Top]))
           O == Free(chain, offered)
           c == chain'
           P == offered'
           u == State'
<1>1. /\ chain # <<>> /\ c = Front(chain) /\ Update(r)
      /\ UNCHANGED <<invalid, held, syncing, offered, faults>>
  BY DEF PopBlock
<1>2. /\ s \in States /\ IsBooked(s, O) /\ s.acc = accounts /\ AsideOK
      /\ IsChain(chain, offered) /\ HasHistory(chain, s.acc) /\ offered \in Offers
  BY StateIs DEF IInv, IsNode
<1> HIDE DEF c
<1>3. /\ IsChain(c, offered) /\ O \subseteq Free(c, offered)
      /\ b \in Blocks /\ ToSet(b) \cap O = {}
  BY <1>1, <1>2, ChainBack DEF Top
<1>4. PICK first \in Tables : HasHistory(c, first) /\ IsBlock(first, b, s.acc)
  <2>1. chain \in Seq(Blocks)
    BY <1>2 DEF IsChain
  <2> HIDE DEF s
  <2> QED BY <1>1, <1>2, <2>1, HistoryBack DEF Top
<1>5. r = UndoBlock(s, b)
  BY DEF UndoBlock
<1> HIDE DEF b, s, r, O
<1>6. r \in States /\ r.acc = first /\ IsBooked(r, O)
  <2>1. b \in Seq(Sent) /\ Leads(first, b, Len(b), s.acc)
    BY <1>3, <1>4 DEF Blocks, IsBlock
  <2>2. s \in States /\ IsBooked(s, O) /\ NoneOf(b, O)
    BY <1>2, <1>3 DEF NoneOf
  <2>3. r \in States /\ Has(r, first) /\ IsBooked(r, O)
    BY <1>5, <2>1, <2>2, LeadsBack
  <2> QED BY <2>3 DEF Has
<1>7. u = r /\ P = offered
  BY <1>1, <1>6, UpdateIs
<1>8. IsBooked(r, Free(c, offered))
  BY <1>3, <1>6 DEF IsBooked
<1>9. AsideOK'
  BY <1>1, <1>2 DEF AsideOK
<1> HIDE DEF u, P
<1>10. IsNode(c, u, P)
  BY <1>2, <1>3, <1>4, <1>6, <1>7, <1>8 DEF IsNode
<1> QED BY <1>9, <1>10 DEF IInv, c, u, P

\* The pool is given back.
LEMMA EndSyncStep ==
  ASSUME IInv, EndSync
  PROVE  IInv'
<1> DEFINE l == Without(held, invalid)
           r == ReceiveAll(State, l, {})
           O == Free(chain, offered)
           s == State
<1>1. /\ syncing' = FALSE /\ held' = <<>> /\ Update(r)
      /\ UNCHANGED <<chain, invalid, offered, faults>>
  BY DEF EndSync
<1>2. s \in States /\ IsBooked(s, O) /\ s.acc = accounts /\ AsideOK
  BY StateIs DEF IInv, IsNode
<1>3. l \in Seq(Sent) /\ ToSet(l) \subseteq offered
  BY <1>2, RestIs DEF AsideOK
<1>4. MayGo(l, {}, O)
  BY <1>3, MayGoIs
<1> HIDE DEF O, s, l
<1>5. r = ReceiveAll(s, l, {})
  BY DEF s
<1> HIDE DEF r
<1>6. r \in States /\ r.acc = accounts /\ IsBooked(r, O)
  BY <1>2, <1>3, <1>4, <1>5, ReceiveAllKeeps
<1>7. AsideOK'
  BY <1>1, <1>2, EmptyPool DEF AsideOK
<1> QED BY <1>1, <1>6, <1>7, StateKeeps DEF O

\* The node starts again.
LEMMA RestartStep ==
  ASSUME IInv, Restart
  PROVE  IInv'
<1> DEFINE m == accounts.balance
           k == [a \in Account |-> 0]
           o == {}
           n == <<>>
           s == State
           r == [s EXCEPT !.u_balance = m, !.oneoff = o, !.pool = n, !.kept = k]
           O == Free(chain, offered)
<1>1. /\ Update(r) /\ invalid' = {} /\ held' = <<>> /\ syncing' = FALSE
      /\ UNCHANGED <<chain, offered>>
  BY DEF Restart
<1>2. s \in States /\ s.acc = accounts /\ AsideOK /\ HasHistory(chain, accounts) /\ chain \in Seq(Blocks)
  BY StateIs DEF IInv, IsNode, IsChain
<1>3. accounts \in Tables /\ Sound(accounts)
  BY <1>2, HistoryFold
<1>4. m \in Amounts /\ k \in Amounts /\ o \in OneOffs /\ n \in Seq(Sent)
  BY <1>3, TableTypes DEF Amounts, OneOffs
<1>5. ToSet(n) = {} /\ IsInjective(n) /\ \A a \in Account : OfAccount({}, a) = 0 /\ k[a] = 0
  BY EmptyPool
<1>6. \A a \in Account : m[a] \in 0 .. Funds /\ Funds \in Nat
  BY <1>3, ConstantsAssumption DEF Sound
<1>7. r = [s EXCEPT !.u_balance = m, !.oneoff = o, !.pool = n, !.kept = k]
  OBVIOUS
<1>8. m = accounts.balance
  OBVIOUS
<1> HIDE DEF m, k, o, n, s, r
<1>9. /\ r \in States /\ r.acc = accounts /\ r.u_balance = m /\ r.pool = n /\ r.kept = k
  BY <1>2, <1>4, <1>7 DEF States
<1>10. IsBooked(r, O)
  <2>1. ASSUME NEW a \in Account
        PROVE  /\ r.u_balance[a] = r.acc.balance[a] - OfAccount(ToSet(r.pool), a) - r.kept[a]
               /\ r.u_balance[a] >= 0 /\ r.kept[a] >= 0
    <3>1. r.u_balance[a] = m[a] /\ r.acc.balance[a] = m[a] /\ OfAccount(ToSet(r.pool), a) = 0 /\ r.kept[a] = 0
      BY <1>5, <1>8, <1>9
    <3> QED BY <1>6, <3>1
  <2>2. IsInjective(r.pool) /\ ToSet(r.pool) \subseteq O
    BY <1>5, <1>9
  <2> HIDE DEF O
  <2> QED BY <2>1, <2>2 DEF IsBooked
<1>11. AsideOK'
  BY <1>1, <1>2, EmptyPool DEF AsideOK
<1> QED BY <1>1, <1>9, <1>10, <1>11, StateKeeps

\* It is true at first.
LEMMA InitHolds ==
  ASSUME Init
  PROVE  IInv
<1> DEFINE m == [a \in Account |-> Funds]
           k == [a \in Account |-> 0]
           o == {}
           n == <<>>
           x == NewAccounts
           s == State
           O == Free(chain, offered)
<1>1. /\ chain = <<>> /\ accounts = x /\ u_balance = m /\ oneoff = o /\ pool = n
      /\ kept = k /\ invalid = {} /\ held = <<>> /\ syncing = FALSE /\ offered \in Offers
  BY DEF Init
<1>2. x \in Tables /\ Sound(x) /\ HasHistory(<<>>, x) /\ Funds \in Nat
  BY NewAccountsAre, HistoryNone, ConstantsAssumption
<1>3. m \in Amounts /\ k \in Amounts /\ o \in OneOffs /\ n \in Seq(Sent)
  BY <1>2 DEF Amounts, OneOffs
<1>4. ToSet(n) = {} /\ IsInjective(n)
      /\ \A a \in Account : OfAccount({}, a) = 0 /\ k[a] = 0 /\ m[a] = Funds
  BY EmptyPool
<1>5. x.balance = m
  BY DEF NewAccounts
<1>6. s = [acc |-> x, u_balance |-> m, oneoff |-> o, pool |-> n, kept |-> k]
  BY <1>1 DEF State
<1> HIDE DEF m, k, o, n, x, s
<1>7. s \in States /\ s.acc = x /\ s.u_balance = m /\ s.pool = n /\ s.kept = k
  BY <1>2, <1>3, <1>6 DEF States
<1>8. IsBooked(s, O)
  <2>1. ASSUME NEW a \in Account
        PROVE  /\ s.u_balance[a] = s.acc.balance[a] - OfAccount(ToSet(s.pool), a) - s.kept[a]
               /\ s.u_balance[a] >= 0 /\ s.kept[a] >= 0
    <3>1. s.u_balance[a] = Funds /\ s.acc.balance[a] = Funds /\ OfAccount(ToSet(s.pool), a) = 0 /\ s.kept[a] = 0
      BY <1>4, <1>5, <1>7
    <3> QED BY <1>2, <3>1
  <2>2. IsInjective(s.pool) /\ ToSet(s.pool) \subseteq O
    BY <1>4, <1>7
  <2> HIDE DEF O
  <2> QED BY <2>1, <2>2 DEF IsBooked
<1>9. IsChain(chain, offered)
  <2>1. Len(chain) = 0 /\ chain \in Seq(Blocks)
    BY <1>1
  <2> QED BY <2>1 DEF IsChain
<1>10. IsNode(chain, s, offered)
  BY <1>1, <1>2, <1>7, <1>8, <1>9 DEF IsNode
<1>11. AsideOK
  BY <1>1, EmptyPool DEF AsideOK
<1> QED BY <1>10, <1>11 DEF IInv, s

\* The inductive invariant: the blocks of the chain, each verified on what the ones
\* below it made, have led to the tables, and every fee is in the books.
THEOREM AccountsInvariance == Spec => []IInv
<1>1. Init => IInv
  BY InitHolds
<1>2. IInv /\ [Next]_vars => IInv'
  <2> SUFFICES ASSUME IInv, [Next]_vars PROVE IInv'
    OBVIOUS
  <2>1. ASSUME NEW t \in offered, ReceiveTransaction(t) PROVE IInv'
    BY <2>1, ReceiveTransactionStep
  <2>2. CASE Forge
    BY <2>2, ForgeStep
  <2>3. ASSUME NEW T \in SUBSET offered, ReceiveBlock(T) PROVE IInv'
    BY <2>3, ReceiveBlockStep
  <2>4. CASE StartSync
    BY <2>4, StartSyncStep
  <2>5. CASE PopBlock
    BY <2>5, PopBlockStep
  <2>6. CASE EndSync
    BY <2>6, EndSyncStep
  <2>7. CASE Restart
    BY <2>7, RestartStep
  <2>8. CASE UNCHANGED vars
    BY <2>8 DEF vars, IInv, State, AsideOK
  <2> QED BY <2>1, <2>2, <2>3, <2>4, <2>5, <2>6, <2>7, <2>8 DEF Next
<1> QED BY <1>1, <1>2, PTL DEF Spec
-----------------------------------------------------------------------------
(* The properties *)

\* A list of what S has.
LEMMA ListIn ==
  ASSUME NEW T, NEW l \in Seq(T), NEW S, ToSet(l) \subseteq S
  PROVE  l \in Seq(S)
<1>1. DOMAIN l = 1 .. Len(l) /\ Len(l) \in Nat /\ l = [i \in 1 .. Len(l) |-> l[i]]
  OBVIOUS
<1>2. \A i \in 1 .. Len(l) : l[i] \in S
  BY <1>1 DEF ToSet
<1>3. l \in [1 .. Len(l) -> S]
  BY <1>1, <1>2
<1> QED BY <1>1, <1>3, FunctionIsList

\* The chain, and what it made of the tables.
LEMMA ChainIs ==
  ASSUME IInv
  PROVE  /\ chain \in Seq(Blocks) /\ IsChain(chain, offered) /\ HasHistory(chain, accounts)
         /\ accounts \in Tables /\ Sound(accounts)
         /\ accounts = FoldLeft(ApplyAll, NewAccounts, chain)
<1>1. IsChain(chain, offered) /\ HasHistory(chain, accounts)
  BY StateIs DEF IInv, IsNode
<1>2. chain \in Seq(Blocks)
  BY <1>1 DEF IsChain
<1> QED BY <1>1, <1>2, HistoryFold

\* A place has a height, a position there, and a transaction.
LEMMA PlaceIs ==
  ASSUME NEW x \in Places, chain \in Seq(Blocks)
  PROVE  /\ x[1] \in 1 .. Top /\ Top = Len(chain) /\ Top \in Nat
         /\ chain[x[1]] \in Seq(Sent)
         /\ x[2] \in 1 .. Len(chain[x[1]]) /\ DOMAIN chain[x[1]] = 1 .. Len(chain[x[1]])
         /\ x = <<x[1], x[2]>>
         /\ At(x) = chain[x[1]][x[2]] /\ At(x) \in ToSet(chain[x[1]]) /\ At(x) \in Sent
<1>1. PICK h \in 1 .. Top : x \in {<<h, p>> : p \in DOMAIN chain[h]}
  BY DEF Places
<1>2. PICK p \in DOMAIN chain[h] : x = <<h, p>>
  BY <1>1
<1>3. x[1] = h /\ x[2] = p /\ x = <<x[1], x[2]>> /\ At(x) = chain[h][p]
  BY <1>2 DEF At
<1>4. Top = Len(chain) /\ Top \in Nat
  BY DEF Top
<1>5. chain[h] \in Blocks
  BY <1>1, <1>4
<1> DEFINE b == chain[h]
<1>6. b \in Seq(Sent) /\ p \in DOMAIN b
  BY <1>2, <1>5 DEF Blocks
<1> HIDE DEF b
<1>7. DOMAIN b = 1 .. Len(b) /\ b[p] \in Sent /\ b[p] \in ToSet(b)
  BY <1>6 DEF ToSet
<1> QED BY <1>1, <1>2, <1>3, <1>4, <1>6, <1>7 DEF b

\* No transaction is at two places.
LEMMA PlacesApart ==
  ASSUME IInv, NEW x \in Places, NEW y \in Places, At(x) = At(y)
  PROVE  x = y
<1>1. /\ chain \in Seq(Blocks)
      /\ \A h \in 1 .. Len(chain) : IsInjective(chain[h])
      /\ \A g, h \in 1 .. Len(chain) : g # h => ToSet(chain[g]) \cap ToSet(chain[h]) = {}
  BY ChainIs DEF IsChain
<1>2. /\ x[1] \in 1 .. Len(chain) /\ x = <<x[1], x[2]>> /\ x[2] \in DOMAIN chain[x[1]]
      /\ At(x) = chain[x[1]][x[2]] /\ At(x) \in ToSet(chain[x[1]])
  BY <1>1, PlaceIs
<1>3. /\ y[1] \in 1 .. Len(chain) /\ y = <<y[1], y[2]>> /\ y[2] \in DOMAIN chain[y[1]]
      /\ At(y) = chain[y[1]][y[2]] /\ At(y) \in ToSet(chain[y[1]])
  BY <1>1, PlaceIs
<1>4. x[1] = y[1]
  BY <1>1, <1>2, <1>3
<1>5. x[2] = y[2]
  BY <1>1, <1>2, <1>3, <1>4 DEF IsInjective
<1> QED BY <1>2, <1>3, <1>4, <1>5

\* The types.
LEMMA TypesOK ==
  ASSUME IInv
  PROVE  TypeOK
<1> DEFINE s == State
<1>1. /\ s \in States /\ IsBooked(s, Free(chain, offered)) /\ AsideOK /\ IsChain(chain, offered)
      /\ s.acc = accounts /\ s.u_balance = u_balance /\ s.pool = pool /\ s.oneoff = oneoff
      /\ s.kept = kept
      /\ accounts \in Tables /\ Sound(accounts) /\ chain \in Seq(Blocks)
  BY ChainIs, StateIs DEF IInv, IsNode
<1> HIDE DEF s
<1>2. ASSUME NEW h \in 1 .. Top PROVE chain[h] \in Seq(offered)
  <2>1. h \in 1 .. Len(chain)
    BY DEF Top
  <2>2. chain[h] \in Seq(Sent) /\ ToSet(chain[h]) \subseteq offered
    BY <1>1, <2>1 DEF IsChain, Blocks
  <2> QED BY <2>2, ListIn
<1>3. pool \in Seq(offered) /\ IsInjective(pool)
  <2>1. pool \in Seq(Sent) /\ ToSet(pool) \subseteq offered /\ IsInjective(pool)
    BY <1>1, StateTypes DEF IsBooked, Free
  <2> QED BY <2>1, ListIn
<1>4. /\ accounts.isDelegate \in SUBSET Account /\ accounts.secondSignature \in SUBSET Account
      /\ accounts.username \in [Account -> Name \cup {NoName}]
      /\ accounts.delegates \in [Account -> SUBSET Account]
  BY <1>1, TableTypes
<1>5. ASSUME NEW a \in Account
      PROVE  /\ accounts.balance[a] \in 0 .. Funds
             /\ u_balance[a] \in 0 .. Funds /\ kept[a] \in 0 .. Funds
  <2> DEFINE n == OfAccount(ToSet(pool), a)
  <2>1. n \in Nat /\ u_balance[a] \in Int /\ kept[a] \in Int
    BY <1>1, AmountTypes
  <2>2. /\ u_balance[a] = accounts.balance[a] - n - kept[a]
        /\ u_balance[a] >= 0 /\ kept[a] >= 0
    BY <1>1 DEF IsBooked
  <2>3. accounts.balance[a] \in 0 .. Funds /\ Funds \in Nat
    BY <1>1, ConstantsAssumption DEF Sound
  <2> HIDE DEF n
  <2> QED BY <2>1, <2>2, <2>3
<1>6. oneoff \subseteq [of : Account \cup Name, kind : Kind]
  BY <1>1, StateTypes DEF OneOffs
<1>7. ToSet(held) \cup invalid \subseteq offered /\ syncing \in BOOLEAN
  BY <1>1 DEF AsideOK
<1>8. \A a \in Account : accounts.username[a] \in Name \cup {NoName} /\ accounts.delegates[a] \subseteq Account
  BY <1>4
<1> QED BY <1>2, <1>3, <1>4, <1>5, <1>6, <1>7, <1>8 DEF TypeOK

\* The tables of the accounts are what the blocks of the chain make of the first ones,
\* and every transaction of it is there once: applyBlock, popLastBlock and findUpdate
\* leave nothing behind of what they take back.
THEOREM AccountsSound == Spec => []AccountsReflectChain
<1>1. IInv => AccountsReflectChain
  BY ChainIs, PlacesApart, TypesOK DEF AccountsReflectChain
<1> QED BY <1>1, AccountsInvariance, PTL

\* Two places in the chain: in a block they have no key in common, and one above the
\* other they follow.
LEMMA PlacesFollow ==
  ASSUME IInv, NEW x \in Places, NEW y \in Places
  PROVE  /\ x[1] \in Int /\ y[1] \in Int
         /\ x[1] = y[1] /\ x # y => Keys(At(x)) \cap Keys(At(y)) = {}
         /\ x[1] < y[1] => Follow(At(x), At(y))
<1>1. chain \in Seq(Blocks) /\ HasHistory(chain, accounts)
  BY ChainIs
<1>2. /\ x[1] \in 1 .. Len(chain) /\ x = <<x[1], x[2]>> /\ x[2] \in 1 .. Len(chain[x[1]])
      /\ At(x) = chain[x[1]][x[2]]
  BY <1>1, PlaceIs
<1>3. /\ y[1] \in 1 .. Len(chain) /\ y = <<y[1], y[2]>> /\ y[2] \in 1 .. Len(chain[y[1]])
      /\ At(y) = chain[y[1]][y[2]]
  BY <1>1, PlaceIs
<1>4. /\ \A h \in 1 .. Len(chain) : IsApart(chain[h], Len(chain[h]))
      /\ \A g, h \in 1 .. Len(chain) : g < h =>
           \A j \in 1 .. Len(chain[g]), k \in 1 .. Len(chain[h]) : Follow(chain[g][j], chain[h][k])
  BY <1>1, HistoryOnce
<1>5. ASSUME x[1] = y[1], x # y PROVE Keys(At(x)) \cap Keys(At(y)) = {}
  <2>1. x[2] # y[2]
    BY <1>2, <1>3, <1>5
  <2>2. IsApart(chain[x[1]], Len(chain[x[1]]))
    BY <1>2, <1>4
  <2> QED BY <1>2, <1>3, <1>5, <2>1, <2>2 DEF IsApart
<1>6. ASSUME x[1] < y[1] PROVE Follow(At(x), At(y))
  BY <1>2, <1>3, <1>4, <1>6
<1> QED BY <1>2, <1>3, <1>5, <1>6

\* The keys of a transaction name its sender and kind.
LEMMA SameKey ==
  ASSUME NEW t \in Sent, NEW u \in Sent, IdKey(t) = IdKey(u)
  PROVE  t.sender = u.sender /\ t.kind = u.kind /\ Keys(t) \cap Keys(u) # {}
<1>1. t.sender = u.sender /\ t.kind = u.kind
  BY DEF IdKey
<1> QED BY <1>1, KeyTypes

\* An account registers once and sets one second signature in the chain, and no two
\* transactions of a block have a key in common: what library.oneoff and verify do.
THEOREM OnceSound == Spec => []OncePerAccount
<1>1. ASSUME IInv, NEW x \in Places, NEW y \in Places, x # y
      PROVE  /\ IdKey(At(x)) = IdKey(At(y)) => At(x).kind = "vote"
             /\ x[1] = y[1] => Keys(At(x)) \cap Keys(At(y)) = {}
  <2>1. At(x) \in Sent /\ At(y) \in Sent
    BY <1>1, ChainIs, PlaceIs
  <2>2. /\ x[1] \in Int /\ y[1] \in Int
        /\ x[1] = y[1] => Keys(At(x)) \cap Keys(At(y)) = {}
        /\ x[1] < y[1] => Follow(At(x), At(y))
    BY <1>1, PlacesFollow
  <2>3. y[1] < x[1] => Follow(At(y), At(x))
    BY <1>1, PlacesFollow
  <2>4. ASSUME IdKey(At(x)) = IdKey(At(y)) PROVE At(x).kind = "vote"
    <3>1. /\ At(x).sender = At(y).sender /\ At(x).kind = At(y).kind
          /\ Keys(At(x)) \cap Keys(At(y)) # {}
      BY <2>1, <2>4, SameKey
    <3>2. x[1] # y[1]
      BY <2>2, <3>1
    <3>3. Follow(At(x), At(y)) \/ Follow(At(y), At(x))
      BY <2>2, <2>3, <3>2
    <3>4. At(x).kind \in {"signature", "delegate", "vote"}
      BY <2>1, SentTypes DEF Kind
    <3> QED BY <3>1, <3>3, <3>4 DEF Follow
  <2> QED BY <2>2, <2>4
<1>2. IInv => OncePerAccount
  BY <1>1 DEF OncePerAccount
<1> QED BY <1>2, AccountsInvariance, PTL

\* Votes are for delegates, and an account has no more than it may, whatever is popped:
\* what checkDelegates looked at is still so.
THEOREM VotesSound == Spec => []VotesAreForDelegates
<1>1. IInv => VotesAreForDelegates
  BY ChainIs DEF VotesAreForDelegates, Sound
<1> QED BY <1>1, AccountsInvariance, PTL

\* Above its second signature, what an account signs in the chain, for itself or as a
\* requester, has a second signature, and for itself its own.
THEOREM SecondSignatureSound == Spec => []SecondSignatureHonoured
<1>1. ASSUME IInv, NEW x \in Places, NEW y \in Places, x[1] > y[1],
             At(y).kind = "signature", At(y).sender = Signer(At(x))
      PROVE  At(x).signed # Nobody /\ (At(x).requester = Nobody => At(x).signed = At(x).sender)
  <2>1. Follow(At(y), At(x))
    BY <1>1, PlacesFollow
  <2> QED BY <1>1, <2>1 DEF Follow
<1>2. IInv => SecondSignatureHonoured
  BY <1>1 DEF SecondSignatureHonoured
<1> QED BY <1>2, AccountsInvariance, PTL

\* Every fee that is missing from an unconfirmed balance is one of the pool's, or one
\* of a transaction that was refused after it was paid, or removed.
THEOREM FeesSound == Spec => []UnconfirmedReflectsPool
<1>1. IInv => UnconfirmedReflectsPool
  BY StateIs DEF IInv, IsNode, IsBooked, UnconfirmedReflectsPool
<1> QED BY <1>1, AccountsInvariance, PTL

-----------------------------------------------------------------------------
(***************************************************************************)
(* The list of a round, made from the votes: DelegateList.                  *)
(*                                                                          *)
(* The ranks by vote and key are a bijection onto 1..n (an injection into a *)
(* set as large), so that the list starts with the elected ones, and the    *)
(* exchanges permute it.                                                    *)
(***************************************************************************)
Registered(v) == Cardinality(DOMAIN v)

\* A count of votes is a natural number.
LEMMA CountType ==
  ASSUME NEW R \in SUBSET Delegate, NEW v \in [R -> Int]
  PROVE  /\ IsFiniteSet(R) /\ DOMAIN v = R
         /\ Registered(v) \in Nat /\ Length(v) \in Nat /\ Length(v) <= Registered(v) /\ Length(v) <= Slots
         /\ (Length(v) = Registered(v) \/ Length(v) = Slots)
<1>1. IsFiniteSet(R) /\ DOMAIN v = R
  BY DelegatesAssumption, FS_Subset
<1>2. Registered(v) \in Nat
  BY <1>1, FS_CardinalityType DEF Registered
<1> QED BY <1>1, <1>2, DelegatesAssumption DEF Length, Registered

-----------------------------------------------------------------------------
\* The order of getKeysSortByVote is strict and total: keys differ.
LEMMA AheadOrder ==
  ASSUME NEW R \in SUBSET Delegate, NEW v \in [R -> Int], NEW d \in R, NEW e \in R, NEW f \in R
  PROVE  /\ ~Ahead(v, d, d)
         /\ d # e => Ahead(v, d, e) \/ Ahead(v, e, d)
         /\ Ahead(v, d, e) /\ Ahead(v, e, f) => Ahead(v, d, f)
<1>1. /\ v[d] \in Int /\ v[e] \in Int /\ v[f] \in Int
      /\ Key[d] \in Nat /\ Key[e] \in Nat /\ Key[f] \in Nat
      /\ Key[d] = Key[e] => d = e
  BY DelegatesAssumption
<1> QED BY <1>1 DEF Ahead

AheadOf(v, d) == {e \in DOMAIN v : Ahead(v, e, d)}

\* A rank is a place among the delegates.
LEMMA RankType ==
  ASSUME NEW R \in SUBSET Delegate, NEW v \in [R -> Int], NEW d \in R
  PROVE  /\ RankOf(v, d) \in 1 .. Registered(v) /\ IsFiniteSet(AheadOf(v, d))
         /\ RankOf(v, d) = 1 + Cardinality(AheadOf(v, d))
         /\ Cardinality(AheadOf(v, d)) \in Nat
<1>0. IsFiniteSet(R) /\ DOMAIN v = R
  BY CountType
<1>1. AheadOf(v, d) \in SUBSET R /\ d \notin AheadOf(v, d)
  BY <1>0, AheadOrder DEF AheadOf
<1>2. IsFiniteSet(AheadOf(v, d)) /\ Cardinality(AheadOf(v, d)) <= Registered(v)
      /\ (Registered(v) = Cardinality(AheadOf(v, d)) => R = AheadOf(v, d))
  BY <1>0, <1>1, FS_Subset DEF Registered
<1>3. Cardinality(AheadOf(v, d)) \in Nat /\ Cardinality(AheadOf(v, d)) # Registered(v)
  BY <1>1, <1>2, FS_CardinalityType
<1>4. RankOf(v, d) = 1 + Cardinality(AheadOf(v, d))
  BY DEF RankOf, AheadOf
<1> QED BY <1>2, <1>3, <1>4, CountType

\* Who is ahead has the lower rank.
LEMMA RankOrder ==
  ASSUME NEW R \in SUBSET Delegate, NEW v \in [R -> Int], NEW d \in R, NEW e \in R, Ahead(v, d, e)
  PROVE  RankOf(v, d) < RankOf(v, e)
<1>1. AheadOf(v, d) \in SUBSET AheadOf(v, e)
  BY AheadOrder DEF AheadOf
<1>2. d \in AheadOf(v, e) /\ d \notin AheadOf(v, d)
  BY AheadOrder DEF AheadOf
<1>3. Cardinality(AheadOf(v, d)) <= Cardinality(AheadOf(v, e))
      /\ Cardinality(AheadOf(v, e)) # Cardinality(AheadOf(v, d))
  BY <1>1, <1>2, RankType, FS_Subset
<1> QED BY <1>3, RankType

\* Every place up to the number of delegates is the rank of one delegate.
LEMMA RankBijection ==
  ASSUME NEW R \in SUBSET Delegate, NEW v \in [R -> Int]
  PROVE  /\ \A d, e \in R : RankOf(v, d) = RankOf(v, e) => d = e
         /\ \A p \in 1 .. Registered(v) : \E d \in R : RankOf(v, d) = p
<1> DEFINE f == [d \in R |-> RankOf(v, d)]
<1>1. ASSUME NEW d \in R, NEW e \in R, RankOf(v, d) = RankOf(v, e)
      PROVE  d = e
  <2>1. RankOf(v, d) \in Int /\ RankOf(v, e) \in Int
    BY RankType
  <2>2. ~(RankOf(v, d) < RankOf(v, e)) /\ ~(RankOf(v, e) < RankOf(v, d))
    BY <1>1, <2>1
  <2> QED BY <2>2, RankOrder, AheadOrder
<1>2. f \in [R -> 1 .. Registered(v)]
  BY RankType
<1>3. f \in Injection(R, 1 .. Registered(v))
  BY <1>1, <1>2 DEF Injection, IsInjective
<1>4. IsFiniteSet(1 .. Registered(v)) /\ Cardinality(1 .. Registered(v)) = Registered(v)
  <2>1. Registered(v) \in Nat
    BY CountType
  <2> QED BY <2>1, FS_Interval
<1>5. f \in Surjection(R, 1 .. Registered(v))
  BY <1>3, <1>4, CountType, FS_Injection DEF Registered
<1>6. \A p \in 1 .. Registered(v) : \E d \in R : f[d] = p
  BY <1>5 DEF Surjection
<1> QED BY <1>1, <1>6

\* getKeysSortByVote: every elected delegate, once.
LEMMA SortedIsElected ==
  ASSUME NEW R \in SUBSET Delegate, NEW v \in [R -> Int]
  PROVE  /\ KeysSortByVote(v) \in [1 .. Length(v) -> R]
         /\ {KeysSortByVote(v)[p] : p \in 1 .. Length(v)} = Elected(v)
         /\ \A p, q \in 1 .. Length(v) : KeysSortByVote(v)[p] = KeysSortByVote(v)[q] => p = q
<1> DEFINE s == KeysSortByVote(v)
<1>1. ASSUME NEW p \in 1 .. Length(v) PROVE s[p] \in R /\ RankOf(v, s[p]) = p
  <2>1. p \in 1 .. Registered(v)
    BY CountType
  <2>2. \E d \in R : RankOf(v, d) = p
    BY <2>1, RankBijection
  <2>3. s[p] = CHOOSE d \in R : RankOf(v, d) = p
    BY DEF KeysSortByVote
  <2> QED BY <2>2, <2>3
<1>2. s = [p \in 1 .. Length(v) |-> s[p]]
  BY DEF KeysSortByVote
<1> HIDE DEF s
<1>3. s \in [1 .. Length(v) -> R]
  BY <1>1, <1>2
<1>4. ASSUME NEW d \in Elected(v) PROVE \E p \in 1 .. Length(v) : s[p] = d
  <2>1. d \in R /\ RankOf(v, d) <= Slots
    BY DEF Elected
  <2>2. RankOf(v, d) \in 1 .. Length(v)
    BY <2>1, RankType, CountType, DelegatesAssumption
  <2>3. RankOf(v, s[RankOf(v, d)]) = RankOf(v, d) /\ s[RankOf(v, d)] \in R
    BY <2>2, <1>1
  <2> QED BY <2>1, <2>2, <2>3, RankBijection
<1>5. ASSUME NEW p \in 1 .. Length(v) PROVE s[p] \in Elected(v)
  BY <1>1, CountType, DelegatesAssumption DEF Elected
<1>6. \A p, q \in 1 .. Length(v) : s[p] = s[q] => p = q
  BY <1>1
<1>7. {s[p] : p \in 1 .. Length(v)} = Elected(v)
  BY <1>4, <1>5
<1> QED BY <1>3, <1>6, <1>7 DEF s

InPlaces(s, n) == {s[a] : a \in 1 .. n}
OnceEach(s, n) == \A a, b \in 1 .. n : s[a] = s[b] => a = b

\* An exchange permutes.
LEMMA SwapPermutes ==
  ASSUME NEW n \in Nat, NEW s \in [1 .. n -> Delegate], NEW p \in 1 .. n, NEW q \in 1 .. n,
         OnceEach(s, n), NEW t, t = Swap(s, p, q)
  PROVE  t \in [1 .. n -> Delegate] /\ InPlaces(t, n) = InPlaces(s, n) /\ OnceEach(t, n)
<1>1. t \in [1 .. n -> Delegate]
      /\ \A a \in 1 .. n : t[a] = s[IF a = p THEN q ELSE IF a = q THEN p ELSE a]
  BY DEF Swap
<1>2. \A a \in 1 .. n : \E b \in 1 .. n : t[b] = s[a]
  <2> SUFFICES ASSUME NEW a \in 1 .. n PROVE \E b \in 1 .. n : t[b] = s[a]
    OBVIOUS
  <2>1. CASE a = p
    BY <2>1, <1>1
  <2>2. CASE a = q
    BY <2>2, <1>1
  <2>3. CASE a # p /\ a # q
    BY <2>3, <1>1
  <2> QED BY <2>1, <2>2, <2>3
<1>3. \A a \in 1 .. n : \E b \in 1 .. n : t[a] = s[b]
  BY <1>1
<1>4. OnceEach(t, n)
  BY <1>1 DEF OnceEach
<1>5. InPlaces(t, n) = InPlaces(s, n)
  <2>1. ASSUME NEW e PROVE e \in InPlaces(t, n) <=> e \in InPlaces(s, n)
    <3>1. ASSUME NEW a \in 1 .. n, e = t[a] PROVE \E b \in 1 .. n : e = s[b]
      BY <3>1, <1>3
    <3>2. ASSUME NEW a \in 1 .. n, e = s[a] PROVE \E b \in 1 .. n : e = t[b]
      BY <3>2, <1>2
    <3> QED BY <3>1, <3>2 DEF InPlaces
  <2> QED BY <2>1 DEF InPlaces
<1> QED BY <1>1, <1>4, <1>5

-----------------------------------------------------------------------------
\* Votes stay those the list was made from, and the list is inside its types.
VotesFixed == DOMAIN vote \in SUBSET Delegate /\ vote \in [DOMAIN vote -> Int]
\* The loops leave the list's end behind only when they end.
PlacesBounded == ~ended => place <= Length(vote)
ListInv == ListTypeOK /\ VotesFixed /\ PlacesBounded /\ ListIsElected

\* The number of places is that of the elected delegates.
LEMMA VoteCount ==
  ASSUME VotesFixed PROVE Length(vote) \in Nat /\ Length(vote) <= Slots
BY CountType DEF VotesFixed

\* The list starts with the elected delegates in the order of their votes.
LEMMA ListInitInv == ListInit => ListInv
<1> SUFFICES ASSUME ListInit PROVE ListInv
  OBVIOUS
<1>1. /\ VotesFixed /\ list = KeysSortByVote(vote) /\ place = 0 /\ taken = 0
      /\ ended = (Length(vote) = 0)
  <2>1. PICK R \in SUBSET Delegate : vote \in [R -> Votes]
    BY DEF ListInit
  <2>2. DOMAIN vote = R /\ vote \in [R -> Int]
    BY <2>1, DelegatesAssumption
  <2> QED BY <2>2 DEF ListInit, VotesFixed
<1>2. /\ KeysSortByVote(vote) \in [1 .. Length(vote) -> DOMAIN vote]
      /\ {KeysSortByVote(vote)[p] : p \in 1 .. Length(vote)} = Elected(vote)
      /\ \A p, q \in 1 .. Length(vote) :
            KeysSortByVote(vote)[p] = KeysSortByVote(vote)[q] => p = q
  BY <1>1, SortedIsElected DEF VotesFixed
<1>3. list \in [1 .. Length(vote) -> Delegate] /\ DOMAIN list = 1 .. Length(vote)
  BY <1>1, <1>2 DEF VotesFixed
<1>4. ListTypeOK
  BY <1>1, <1>3, VoteCount DEF ListTypeOK
<1>5. ListIsElected
  <2>1. {list[p] : p \in 1 .. Length(vote)} = Elected(vote)
        /\ \A p, q \in 1 .. Length(vote) : list[p] = list[q] => p = q
    BY <1>1, <1>2
  <2> QED BY <2>1, <1>3, <1>4 DEF ListIsElected
<1>6. PlacesBounded
  BY <1>1, VoteCount DEF PlacesBounded
<1> QED BY <1>1, <1>4, <1>5, <1>6 DEF ListInv

\* An exchange leaves a permutation.
LEMMA ExchangeInv ==
  ASSUME ListInv, NEW b \in Byte, Exchange(b) PROVE ListInv'
<1>1. list \in [1 .. Length(vote) -> Delegate] /\ DOMAIN list = 1 .. Length(vote)
      /\ place \in 0 .. Length(vote) + 1 /\ taken \in 0 .. 4 /\ ended \in BOOLEAN
      /\ VotesFixed /\ Length(vote) \in Nat
  BY VoteCount DEF ListInv, ListTypeOK
<1>2. /\ place < Length(vote) /\ taken < 4 /\ place' = place + 1 /\ taken' = taken + 1
      /\ vote' = vote /\ ended' = ended
      /\ list' = Swap(list, place + 1, (b % Length(vote)) + 1)
  BY DEF Exchange
<1>3. place + 1 \in 1 .. Length(vote) /\ (b % Length(vote)) + 1 \in 1 .. Length(vote)
  <2>1. b \in Nat /\ Length(vote) \in Nat /\ Length(vote) > 0
    BY <1>1, <1>2, DelegatesAssumption
  <2>2. b % Length(vote) \in 0 .. Length(vote) - 1
    BY <2>1
  <2> QED BY <2>1, <2>2, <1>1, <1>2
<1>4. /\ list' \in [1 .. Length(vote) -> Delegate] /\ OnceEach(list', Length(vote))
      /\ InPlaces(list', Length(vote)) = InPlaces(list, Length(vote))
  <2>1. OnceEach(list, Length(vote))
    BY <1>1 DEF ListInv, ListIsElected, OnceEach
  <2> QED BY <2>1, <1>1, <1>2, <1>3, SwapPermutes
<1>5. ListTypeOK'
  BY <1>1, <1>2, <1>4 DEF ListTypeOK
<1>6. ListIsElected'
  <2>1. DOMAIN list' = 1 .. Length(vote)
    BY <1>4
  <2>2. InPlaces(list, Length(vote)) = Elected(vote)
    BY <1>1 DEF ListInv, ListIsElected, InPlaces
  <2> QED BY <2>1, <2>2, <1>2, <1>4, <1>5 DEF ListIsElected, InPlaces, OnceEach
<1>7. PlacesBounded'
  BY <1>1, <1>2 DEF PlacesBounded
<1> QED BY <1>2, <1>5, <1>6, <1>7 DEF ListInv, VotesFixed

\* The next hash leaves the list as it is.
LEMMA NextSeedInv ==
  ASSUME ListInv, NextSeed PROVE ListInv'
<1>1. /\ place \in 0 .. Length(vote) + 1 /\ taken \in 0 .. 4 /\ place <= Length(vote)
      /\ vote' = vote /\ list' = list /\ place' = place + 1 /\ taken' = 0
      /\ ended' = (place + 1 >= Length(vote))
      /\ Length(vote) \in Nat
  BY VoteCount DEF ListInv, ListTypeOK, NextSeed, PlacesBounded
<1>2. ListTypeOK'
  BY <1>1 DEF ListInv, ListTypeOK
<1>3. PlacesBounded'
  <2>1. CASE place + 1 >= Length(vote)
    BY <2>1, <1>1 DEF PlacesBounded
  <2>2. CASE ~(place + 1 >= Length(vote))
    BY <2>2, <1>1 DEF PlacesBounded
  <2> QED BY <2>1, <2>2
<1>4. ListIsElected' /\ VotesFixed'
  BY <1>1, <1>2 DEF ListInv, ListIsElected, VotesFixed
<1> QED BY <1>2, <1>3, <1>4 DEF ListInv

\* Every step keeps the invariant.
LEMMA ListNextInv == ListInv /\ [ListNext]_listVars => ListInv'
<1> SUFFICES ASSUME ListInv, [ListNext]_listVars PROVE ListInv'
  OBVIOUS
<1>1. CASE NextSeed
  BY <1>1, NextSeedInv
<1>2. CASE \E b \in Byte : Exchange(b)
  BY <1>2, ExchangeInv
<1>3. CASE UNCHANGED listVars
  BY <1>3 DEF listVars, ListInv, ListTypeOK, VotesFixed, PlacesBounded, ListIsElected
<1> QED BY <1>1, <1>2, <1>3 DEF ListNext

\* generateDelegateList never loses or repeats a delegate on the way.
THEOREM ListInvariance == ListSpec => []ListInv
BY ListInitInv, ListNextInv, PTL DEF ListSpec

\* For any votes, seed, number of delegates and slots, the list generateDelegateList
\* exchanges is a permutation of the elected delegates.
THEOREM ListCorrect == ListSpec => []ListIsElected
<1>1. ListInv => ListIsElected
  BY DEF ListInv
<1> QED BY <1>1, ListInvariance, PTL

-----------------------------------------------------------------------------
(* Slots *)

\* The slots that follow slot run through all remainders once.
LEMMA SlotRemainders ==
  ASSUME NEW k \in Nat \ {0}, NEW slot \in Nat, NEW p \in 0 .. k - 1
  PROVE  /\ \E s \in slot .. slot + k - 1 : s % k = p
         /\ \A s, r \in slot .. slot + k - 1 : s % k = p /\ r % k = p => s = r
<1> DEFINE q == slot \div k
           e == slot % k
<1>1. q \in Nat /\ e \in 0 .. k - 1 /\ slot = k * q + e
  OBVIOUS
<1>2. ASSUME NEW a \in Nat PROVE (k * a + p) % k = p
  OBVIOUS
<1>3. ASSUME NEW a \in Nat, NEW b \in Nat, a < b PROVE k * a + k <= k * b
  <2>1. b - a - 1 \in Nat
    BY <1>3
  <2>2. k * (b - a - 1) \in Nat
    BY <2>1
  <2>3. k * (b - a - 1) = k * b - k * a - k
    OBVIOUS
  <2>4. k * a \in Nat /\ k * b \in Nat
    OBVIOUS
  <2> QED BY <2>2, <2>3, <2>4
<1> HIDE DEF q, e
<1>4. \E s \in slot .. slot + k - 1 : s % k = p
  <2>0. k * q \in Nat /\ k * (q + 1) = k * q + k
    BY <1>1
  <2>1. CASE p >= e
    <3>1. k * q + p \in slot .. slot + k - 1
      BY <1>1, <2>0, <2>1
    <3> QED BY <1>1, <1>2, <3>1
  <2>2. CASE p < e
    <3>1. k * (q + 1) + p \in slot .. slot + k - 1
      BY <1>1, <2>0, <2>2
    <3>2. q + 1 \in Nat
      BY <1>1
    <3> QED BY <1>2, <3>1, <3>2
  <2> QED BY <1>1, <2>1, <2>2
<1>5. ASSUME NEW s \in slot .. slot + k - 1, NEW r \in slot .. slot + k - 1, s % k = p, r % k = p
      PROVE  s = r
  <2> DEFINE a == s \div k
             b == r \div k
  <2>1. s \in Nat /\ r \in Nat /\ s < r + k /\ r < s + k
    OBVIOUS
  <2>2. a \in Nat /\ b \in Nat /\ s = k * a + p /\ r = k * b + p
    BY <1>5, <2>1
  <2> HIDE DEF a, b
  <2>3. ~(a < b) /\ ~(b < a)
    <3>1. k * a \in Nat /\ k * b \in Nat
      BY <2>2
    <3> QED BY <1>3, <2>1, <2>2, <3>1
  <2> QED BY <2>2, <2>3
<1> QED BY <1>4, <1>5

\* An elected delegate has one of any Slots slots, and its node finds it.
LEMMA OneSlot ==
  ASSUME ListInv, NEW slot \in Nat, NEW d \in Elected(vote)
  PROVE  LET own == {s \in slot .. slot + Slots - 1 : d \in DelegateOf(s)}
         IN  Cardinality(own) = 1 /\ NextSlot(slot, {d}) \in own
<1> DEFINE own == {s \in slot .. slot + Slots - 1 : d \in DelegateOf(s)}
<1>1. /\ DOMAIN list = 1 .. Length(vote) /\ Length(vote) \in Nat /\ Length(vote) <= Slots
      /\ Slots \in Nat \ {0}
  BY VoteCount, DelegatesAssumption DEF ListInv, ListTypeOK
<1>2. PICK p \in DOMAIN list : list[p] = d
  BY DEF ListInv, ListIsElected
<1>3. \A q \in DOMAIN list : list[q] = d => q = p
  BY <1>2 DEF ListInv, ListIsElected
<1>4. \A s \in slot .. slot + Slots - 1 : s \in Nat /\ s % Slots \in 0 .. Slots - 1
  BY <1>1
<1>5. \A s \in slot .. slot + Slots - 1 : d \in DelegateOf(s) <=> s % Slots = p - 1
  <2> SUFFICES ASSUME NEW s \in slot .. slot + Slots - 1
               PROVE  d \in DelegateOf(s) <=> s % Slots = p - 1
    OBVIOUS
  <2>1. s % Slots \in 0 .. Slots - 1 /\ p \in Nat
    BY <1>1, <1>4
  <2>2. d \in DelegateOf(s) <=> (s % Slots) + 1 \in DOMAIN list /\ list[(s % Slots) + 1] = d
    BY DEF DelegateOf
  <2>3. d \in DelegateOf(s) <=> (s % Slots) + 1 = p
    BY <1>2, <1>3, <2>2
  <2> QED BY <2>1, <2>3
<1>6. p - 1 \in 0 .. Slots - 1
  BY <1>1
<1>7. PICK s \in slot .. slot + Slots - 1 : s % Slots = p - 1
  BY <1>1, <1>6, SlotRemainders
<1>8. own = {s}
  <2>1. \A r1, r2 \in slot .. slot + Slots - 1 :
           r1 % Slots = p - 1 /\ r2 % Slots = p - 1 => r1 = r2
    <3> DEFINE pp == p - 1
    <3>1. pp \in 0 .. Slots - 1 /\ Slots \in Nat \ {0}
      BY <1>1, <1>6
    <3> HIDE DEF pp
    <3>2. \A r1, r2 \in slot .. slot + Slots - 1 :
             r1 % Slots = pp /\ r2 % Slots = pp => r1 = r2
      BY <3>1, SlotRemainders, Zenon
    <3> QED BY <3>2 DEF pp
  <2>2. \A r \in slot .. slot + Slots - 1 : r % Slots = p - 1 => r = s
    BY <1>7, <2>1, Zenon
  <2> QED BY <1>5, <1>7, <2>2
<1>9. Cardinality(own) = 1
  BY <1>8, FS_Singleton
<1>10. NextSlot(slot, {d}) = s
  <2> DEFINE mine == {r \in slot .. slot + Slots - 1 : DelegateOf(r) \cap {d} # {}}
  <2>1. mine = {s}
    BY <1>8
  <2>2. NextSlot(slot, {d}) = IF mine = {} THEN -1
                              ELSE CHOOSE r \in mine : \A t \in mine : r <= t
    BY DEF NextSlot
  <2> HIDE DEF mine
  <2>3. s <= s
    OBVIOUS
  <2> QED BY <2>1, <2>2, <2>3
<1> QED BY <1>8, <1>9, <1>10

\* getBlockSlotData: of any Slots slots in a row every elected delegate has one,
\* though a list that is too short leaves some of them to nobody.
THEOREM OneSlotForEach == ListSpec => []OneSlotEach
<1>1. ListInv => OneSlotEach
  <2> SUFFICES ASSUME ListInv, NEW slot \in 0 .. 2 * Slots, NEW d \in Elected(vote)
               PROVE  LET own == {s \in slot .. slot + Slots - 1 : d \in DelegateOf(s)}
                      IN  Cardinality(own) = 1 /\ NextSlot(slot, {d}) \in own
    BY DEF OneSlotEach
  <2>1. slot \in Nat
    BY DelegatesAssumption
  <2> QED BY <2>1, OneSlot
<1> QED BY <1>1, ListInvariance, PTL

=============================================================================
