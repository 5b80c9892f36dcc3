----------------------------- MODULE DiscProofs -----------------------------
(***************************************************************************)
(* What a player reads, for every set of volumes, titles and nonces.  The  *)
(* symbols of SymbolicAes are reasoned about directly: a block of two      *)
(* terms or more is the outcome of no cipher, so it is encrypted to a      *)
(* symbol that tells key and plaintext, and an atom of a plaintext is      *)
(* found again in any exclusive or that has no second copy of it.  And for *)
(* every set of usage rules: where the cells of a rule come to stand in a  *)
(* file, and that they are read as that rule again.                        *)
(***************************************************************************)
EXTENDS Disc, KeyDbProofs, Recursion

-----------------------------------------------------------------------------
(* SymbolicAes: ciphers over sets of terms *)

\* A block of two terms is the outcome of no cipher.
LEMMA TwoTermsAreOpaque ==
    ASSUME NEW op, NEW k, NEW b, NEW x \in b, NEW y \in b, x # y
    PROVE  Inside(op, k, b) = {}
  BY DEF Inside

\* A single term is the outcome of the cipher it names, under its own key.
LEMMA OneTermOpens ==
    ASSUME NEW op, NEW k, NEW t
    PROVE  Inside(op, k, {t}) = IF t[1] = op /\ t[2] = k THEN {t[3]} ELSE {}
<1>1. CASE t[1] = op /\ t[2] = k
  <2>1. {u \in {t} : {t} = {u} /\ u[1] = op /\ u[2] = k} = {t}
    BY <1>1
  <2> QED
    BY <1>1, <2>1 DEF Inside
<1>2. CASE ~(t[1] = op /\ t[2] = k)
  BY <1>2 DEF Inside
<1> QED
  BY <1>1, <1>2

\* What is encrypted is a block of its own unless it came out of Decrypt.
LEMMA EncryptOpaque ==
    ASSUME NEW k, NEW b, Inside("D", k, b) = {}
    PROVE  Encrypt(k, b) = {<<"E", k, b, "">>}
  BY DEF Encrypt, Apply

\* Decrypt opens what was encrypted under its key, and nothing else.
LEMMA DecryptOpens ==
    ASSUME NEW k, NEW b PROVE Decrypt(k, {<<"E", k, b, "">>}) = b
<1>1. PICK t : t = <<"E", k, b, "">>
  OBVIOUS
<1>2. t[1] = "E" /\ t[2] = k /\ t[3] = b
  BY <1>1
<1>3. Inside("E", k, {t}) = {b}
  BY <1>2, OneTermOpens
<1>4. (CHOOSE a \in {b} : TRUE) = b
  OBVIOUS
<1>5. Decrypt(k, {t}) = b
  BY <1>3, <1>4 DEF Decrypt, Apply
<1> QED
  BY <1>1, <1>5

LEMMA DecryptTellsNothing ==
    ASSUME NEW k, NEW j, NEW b, j # k
    PROVE  Decrypt(k, {<<"E", j, b, "">>}) = {<<"D", k, {<<"E", j, b, "">>}, "">>}
<1>1. PICK t : t = <<"E", j, b, "">>
  OBVIOUS
<1>2. Inside("E", k, {t}) = {}
  BY <1>1, OneTermOpens
<1>3. Decrypt(k, {t}) = {<<"D", k, {t}, "">>}
  BY <1>2 DEF Decrypt, Apply
<1> QED
  BY <1>1, <1>3

\* A block with no outcome of Encrypt in it is decrypted to a symbol.
LEMMA DecryptOpaque ==
    ASSUME NEW k, NEW b, Inside("E", k, b) = {}
    PROVE  Decrypt(k, b) = {<<"D", k, b, "">>}
  BY DEF Decrypt, Apply
-----------------------------------------------------------------------------
(* AesH over two blocks that are atoms of different names *)

LEMMA HashOfTwo ==
    ASSUME NEW x, NEW y
    PROVE  AesH(<<x, y>>) = AesG(y, AesG(x, Atom(<<"H0_AACS">>)))
<1> DEFINE h0 == Atom(<<"H0_AACS">>)
           F(f) == [n \in 0..2 |-> IF n = 0 THEN h0 ELSE AesG(<<x, y>>[n], f[n - 1])]
           g == [n \in 0..2 |-> IF n = 0 THEN h0
                                ELSE IF n = 1 THEN AesG(x, h0) ELSE AesG(y, AesG(x, h0))]
           h == CHOOSE f : f = F(f)
<1> HIDE DEF h0
<1>1. g = F(g)
  OBVIOUS
<1>2. h = F(h)
  <2>1. \E f : f = F(f)
    BY <1>1
  <2> HIDE DEF F
  <2> QED
    BY <2>1
<1> HIDE DEF h
<1>3. h[0] = h0 /\ h[1] = AesG(x, h[0]) /\ h[2] = AesG(y, h[1])
  BY <1>2
<1>4. AesH(<<x, y>>) = h[2]
  <2>1. Len(<<x, y>>) = 2
    OBVIOUS
  <2> QED
    BY <2>1 DEF AesH, h, h0
<1> QED
  BY <1>3, <1>4 DEF h0
-----------------------------------------------------------------------------
(* The message of an Enhanced Title *)

\* The terms of a message: the title key, the nonce, and the three that the
\* binding hash leaves.
KtTerm(v, t) == <<"atom", {}, {}, <<"Kt", v, t>>>>
NonceTerm(n) == <<"atom", {}, {}, <<"nonce", n>>>>
H0Term == <<"atom", {}, {}, <<"H0_AACS">>>>
H1Term(v) == <<"D", OnlineVolumeId(v), {H0Term}, "">>
H2Term(v, t) == <<"D", TitleBytes(t), {H1Term(v), H0Term}, "">>

HashTerms(v, t) == {H2Term(v, t), H1Term(v), H0Term}
PlaintextTerms(v, t, n) == {KtTerm(v, t), NonceTerm(n)} \cup HashTerms(v, t)

\* The names of atoms tell them apart, and from the terms of a cipher.
LEMMA TermsDiffer ==
    ASSUME NEW v, NEW t, NEW n, NEW w, NEW u, NEW m
    PROVE  /\ KtTerm(v, t) = KtTerm(w, u) <=> v = w /\ t = u
           /\ NonceTerm(n) = NonceTerm(m) <=> n = m
           /\ KtTerm(v, t) # NonceTerm(n)
           /\ KtTerm(v, t) \notin HashTerms(w, u)
           /\ NonceTerm(n) \notin HashTerms(w, u)
           /\ H1Term(v) # H0Term
           /\ H2Term(v, t) # H0Term
           /\ H2Term(v, t) # H1Term(v)
           /\ Kvu(v) = Kvu(w) <=> v = w
<1>1. ASSUME NEW a, NEW b
      PROVE  <<"atom", {}, {}, a>> = <<"atom", {}, {}, b>> <=> a = b
  OBVIOUS
<1>2. <<"Kt", v, t>>[1] = "Kt" /\ <<"nonce", n>>[1] = "nonce" /\ <<"H0_AACS">>[1] = "H0_AACS"
  OBVIOUS
<1>3. <<"nonce", n>> # <<"Kt", v, t>> /\ <<"nonce", n>> # <<"H0_AACS">>
      /\ <<"Kt", v, t>> # <<"H0_AACS">>
  BY <1>2
<1>4. <<"Kt", v, t>> = <<"Kt", w, u>> <=> v = w /\ t = u
  OBVIOUS
<1>5. <<"nonce", n>> = <<"nonce", m>> <=> n = m
  OBVIOUS
<1>6. H1Term(w)[1] = "D" /\ H2Term(w, u)[1] = "D" /\ H1Term(v)[1] = "D" /\ H2Term(v, t)[1] = "D"
  BY DEF H1Term, H2Term
<1>7. KtTerm(v, t)[1] = "atom" /\ NonceTerm(n)[1] = "atom" /\ H0Term[1] = "atom"
  BY DEF KtTerm, NonceTerm, H0Term
<1>8. H2Term(v, t) # H1Term(v)
  <2>1. H2Term(v, t)[2] = TitleBytes(t) /\ H1Term(v)[2] = OnlineVolumeId(v)
    BY DEF H1Term, H2Term
  <2>2. <<"title", t>>[1] = "title" /\ <<"IDv", v>>[1] = "IDv"
    OBVIOUS
  <2>3. <<"title", t>> # <<"IDv", v>>
    BY <2>2
  <2>4. TitleBytes(t) # OnlineVolumeId(v)
    BY <1>1, <2>3 DEF TitleBytes, OnlineVolumeId, Atom
  <2> QED
    BY <2>1, <2>4
<1>9. Kvu(v) = Kvu(w) <=> v = w
  <2>1. <<"Kvu", v>> = <<"Kvu", w>> <=> v = w
    OBVIOUS
  <2> QED
    BY <1>1, <2>1 DEF Kvu, Atom
<1>10. H1Term(v) # H0Term /\ H2Term(v, t) # H0Term
  BY <1>6, <1>7
<1>11. KtTerm(v, t) # NonceTerm(n) /\ KtTerm(v, t) # H0Term /\ NonceTerm(n) # H0Term
  BY <1>1, <1>3 DEF KtTerm, NonceTerm, H0Term
<1>12. KtTerm(v, t) \notin HashTerms(w, u) /\ NonceTerm(n) \notin HashTerms(w, u)
  BY <1>6, <1>7, <1>11 DEF HashTerms
<1>13. /\ KtTerm(v, t) = KtTerm(w, u) <=> v = w /\ t = u
       /\ NonceTerm(n) = NonceTerm(m) <=> n = m
  BY <1>1, <1>4, <1>5 DEF KtTerm, NonceTerm
<1> QED
  BY <1>8, <1>9, <1>10, <1>11, <1>12, <1>13

\* An exclusive or of blocks that share no term is their union.
LEMMA XorDisjoint ==
    ASSUME NEW a, NEW b, a \cap b = {} PROVE Xor(a, b) = a \cup b
  BY DEF Xor

LEMMA BindingHashTerms ==
    ASSUME NEW v, NEW t
    PROVE  TitleBindingHash(OnlineVolumeId(v), TitleBytes(t)) = HashTerms(v, t)
<1>1. Atom(<<"H0_AACS">>) = {H0Term}
  BY DEF Atom, H0Term
<1>2. AesG(OnlineVolumeId(v), {H0Term}) = {H1Term(v), H0Term}
  <2>1. H0Term[1] # "E"
    BY DEF H0Term
  <2>2. Inside("E", OnlineVolumeId(v), {H0Term}) = {}
    BY <2>1 DEF Inside
  <2>3. Decrypt(OnlineVolumeId(v), {H0Term}) = {H1Term(v)}
    BY <2>2, DecryptOpaque DEF H1Term
  <2>4. Xor({H1Term(v)}, {H0Term}) = {H1Term(v), H0Term}
    BY TermsDiffer, XorDisjoint
  <2> QED
    BY <2>3, <2>4 DEF AesG
<1>3. AesG(TitleBytes(t), {H1Term(v), H0Term}) = HashTerms(v, t)
  <2>1. Inside("E", TitleBytes(t), {H1Term(v), H0Term}) = {}
    BY TermsDiffer, TwoTermsAreOpaque
  <2>2. Decrypt(TitleBytes(t), {H1Term(v), H0Term}) = {H2Term(v, t)}
    BY <2>1, DecryptOpaque DEF H2Term
  <2>3. Xor({H2Term(v, t)}, {H1Term(v), H0Term}) = {H2Term(v, t)} \cup {H1Term(v), H0Term}
    BY TermsDiffer, XorDisjoint
  <2> QED
    BY <2>2, <2>3 DEF AesG, HashTerms
<1> QED
  BY <1>1, <1>2, <1>3, HashOfTwo DEF TitleBindingHash

\* The nonce and the hash that mask the title key in a message.
Mask(v, t, n) == Xor(Nonce(n), TitleBindingHash(OnlineVolumeId(v), TitleBytes(t)))

LEMMA MaskTerms ==
    ASSUME NEW v, NEW t, NEW n
    PROVE  Mask(v, t, n) = {NonceTerm(n)} \cup HashTerms(v, t)
<1>1. Nonce(n) = {NonceTerm(n)}
  BY DEF Nonce, Atom, NonceTerm
<1> QED
  BY <1>1, BindingHashTerms, TermsDiffer, XorDisjoint DEF Mask

LEMMA MessageTerms ==
    ASSUME NEW v, NEW t, NEW n
    PROVE  EnhancedTitleKeyMessage(Kvu(v), Kt(v, t), Nonce(n), OnlineVolumeId(v), TitleBytes(t))
              = {<<"E", Kvu(v), PlaintextTerms(v, t, n), "">>}
<1>1. Kt(v, t) = {KtTerm(v, t)}
  BY DEF Kt, Atom, KtTerm
<1>2. PermissionPlaintext(Kt(v, t), Nonce(n), OnlineVolumeId(v), TitleBytes(t)) =
         Xor({KtTerm(v, t)}, Mask(v, t, n))
  BY <1>1 DEF PermissionPlaintext, Mask
<1>3. Xor({KtTerm(v, t)}, {NonceTerm(n)} \cup HashTerms(v, t)) = PlaintextTerms(v, t, n)
  BY TermsDiffer, XorDisjoint DEF PlaintextTerms
<1>4. Inside("D", Kvu(v), PlaintextTerms(v, t, n)) = {}
  BY TermsDiffer, TwoTermsAreOpaque DEF PlaintextTerms
<1> QED
  BY <1>2, <1>3, <1>4, MaskTerms, EncryptOpaque DEF EnhancedTitleKeyMessage

\* The plaintext of a message tells title and nonce.
LEMMA PlaintextTells ==
    ASSUME NEW v, NEW t, NEW n, NEW u, NEW m,
           PlaintextTerms(v, t, n) = PlaintextTerms(v, u, m)
    PROVE  t = u /\ n = m
<1>1. KtTerm(v, t) \in PlaintextTerms(v, u, m) /\ NonceTerm(n) \in PlaintextTerms(v, u, m)
  BY DEF PlaintextTerms
<1>2. KtTerm(v, t) = KtTerm(v, u)
  BY <1>1, TermsDiffer DEF PlaintextTerms
<1>3. NonceTerm(n) = NonceTerm(m)
  BY <1>1, TermsDiffer DEF PlaintextTerms
<1> QED
  BY <1>2, <1>3, TermsDiffer

\* A message is the one the player expects only if it answers its request.
LEMMA AcceptedOnlyForItsRequest ==
    ASSUME NEW v, NEW t, NEW n, NEW w, NEW u, NEW m
    PROVE  VerifyEnhancedPermission(Kvu(v), Kt(v, t), Nonce(n), OnlineVolumeId(v), TitleBytes(t),
              EnhancedTitleKeyMessage(Kvu(w), Kt(w, u), Nonce(m), OnlineVolumeId(w), TitleBytes(u)))
           <=> v = w /\ t = u /\ n = m
<1>1. PICK a : a = <<"E", Kvu(v), PlaintextTerms(v, t, n), "">>
  OBVIOUS
<1>2. PICK b : b = <<"E", Kvu(w), PlaintextTerms(w, u, m), "">>
  OBVIOUS
<1>3. a = b => v = w /\ PlaintextTerms(v, t, n) = PlaintextTerms(w, u, m)
  <2>1. a[2] = Kvu(v) /\ b[2] = Kvu(w) /\ a[3] = PlaintextTerms(v, t, n)
        /\ b[3] = PlaintextTerms(w, u, m)
    BY <1>1, <1>2
  <2> QED
    BY <2>1, TermsDiffer
<1>4. a = b <=> v = w /\ t = u /\ n = m
  <2>1. ASSUME a = b PROVE v = w /\ t = u /\ n = m
    <3>1. v = w /\ PlaintextTerms(v, t, n) = PlaintextTerms(v, u, m)
      BY <1>3, <2>1
    <3> QED
      BY <3>1, PlaintextTells
  <2> QED
    BY <1>1, <1>2, <2>1
<1>5. VerifyEnhancedPermission(Kvu(v), Kt(v, t), Nonce(n), OnlineVolumeId(v), TitleBytes(t),
         EnhancedTitleKeyMessage(Kvu(w), Kt(w, u), Nonce(m), OnlineVolumeId(w), TitleBytes(u)))
      <=> {a} = {b}
  <2>1. EnhancedTitleKeyMessage(Kvu(v), Kt(v, t), Nonce(n), OnlineVolumeId(v), TitleBytes(t))
           = {a}
    BY <1>1, MessageTerms
  <2>2. EnhancedTitleKeyMessage(Kvu(w), Kt(w, u), Nonce(m), OnlineVolumeId(w), TitleBytes(u))
           = {b}
    BY <1>2, MessageTerms
  <2> QED
    BY <2>1, <2>2 DEF VerifyEnhancedPermission
<1> QED
  BY <1>4, <1>5

\* The title key comes out of a message only for the request it answers.
LEMMA KeyOnlyForItsRequest ==
    ASSUME NEW v, NEW t, NEW n, NEW w, NEW u, NEW m
    PROVE  RecoverEnhancedTitleKey(Kvu(v),
              EnhancedTitleKeyMessage(Kvu(w), Kt(w, u), Nonce(m), OnlineVolumeId(w), TitleBytes(u)),
              Nonce(n), OnlineVolumeId(v), TitleBytes(t)) = Kt(v, t)
           <=> v = w /\ t = u /\ n = m
<1> DEFINE message == {<<"E", Kvu(w), PlaintextTerms(w, u, m), "">>}
           mask == {NonceTerm(n)} \cup HashTerms(v, t)
           key == Xor(Decrypt(Kvu(v), message), mask)
<1>1. RecoverEnhancedTitleKey(Kvu(v),
         EnhancedTitleKeyMessage(Kvu(w), Kt(w, u), Nonce(m), OnlineVolumeId(w), TitleBytes(u)),
         Nonce(n), OnlineVolumeId(v), TitleBytes(t)) = key
  BY MessageTerms, MaskTerms DEF RecoverEnhancedTitleKey, Mask
<1>2. Kt(v, t) = {KtTerm(v, t)}
  BY DEF Kt, Atom, KtTerm
<1>3. CASE v # w
  <2>1. PICK d : d = <<"D", Kvu(v), message, "">>
    OBVIOUS
  <2>2. Decrypt(Kvu(v), message) = {d}
    <3>1. Kvu(w) # Kvu(v)
      BY <1>3, TermsDiffer
    <3>2. Decrypt(Kvu(v), message) = {<<"D", Kvu(v), message, "">>}
      BY <3>1, DecryptTellsNothing
    <3> QED
      BY <2>1, <3>2
  <2>3. NonceTerm(n) # d
    <3>1. d[1] = "D" /\ NonceTerm(n)[1] = "atom"
      BY <2>1 DEF NonceTerm
    <3> QED
      BY <3>1
  <2>4. NonceTerm(n) \in key
    BY <2>2, <2>3 DEF Xor
  <2>5. NonceTerm(n) \notin Kt(v, t)
    BY <1>2, TermsDiffer
  <2> QED
    BY <1>1, <1>3, <2>4, <2>5
<1>4. CASE v = w
  <2>1. key = Xor(PlaintextTerms(v, u, m), mask)
    <3>1. Decrypt(Kvu(w), message) = PlaintextTerms(w, u, m)
      BY DecryptOpens
    <3> QED
      BY <1>4, <3>1
  <2> HIDE DEF key, message
  <2>2. ASSUME key = Kt(v, t) PROVE t = u /\ n = m
    <3>1. KtTerm(v, u) \in PlaintextTerms(v, u, m) /\ NonceTerm(m) \in PlaintextTerms(v, u, m)
      BY DEF PlaintextTerms
    <3>2. KtTerm(v, u) \notin mask
      BY TermsDiffer
    <3>3. KtTerm(v, u) \in key
      BY <2>1, <3>1, <3>2 DEF Xor
    <3>4. t = u
      BY <1>2, <2>2, <3>3, TermsDiffer
    <3>5. NonceTerm(m) # KtTerm(v, t)
      BY TermsDiffer
    <3>6. NonceTerm(m) \in mask
      BY <1>2, <2>1, <2>2, <3>1, <3>5 DEF Xor
    <3>7. NonceTerm(m) = NonceTerm(n)
      BY <3>6, TermsDiffer
    <3> QED
      BY <3>4, <3>7, TermsDiffer
  <2>3. ASSUME t = u, n = m PROVE key = Kt(v, t)
    <3>1. KtTerm(v, t) \notin mask
      BY TermsDiffer
    <3>2. PlaintextTerms(v, t, n) = {KtTerm(v, t)} \cup mask
      BY DEF PlaintextTerms
    <3>3. Xor({KtTerm(v, t)} \cup mask, mask) = {KtTerm(v, t)}
      BY <3>1 DEF Xor
    <3> QED
      BY <1>2, <2>1, <2>3, <3>2, <3>3
  <2> QED
    BY <1>1, <1>4, <2>2, <2>3
<1> QED
  BY <1>3, <1>4
-----------------------------------------------------------------------------
(* The on-line permission *)

Request == [volume : OnlineVolumes, title : Titles, nonce : Nonces]

\* Every message answers a request that was sent, and the request the player
\* has open is one of them.
OnlineInv ==
    /\ requests \subseteq Request /\ messages \subseteq requests
    /\ asked \in Request \cup {NoRequest}
    /\ OnlyTheAnsweredRequestOpens

LEMMA OnlineInit1 == OnlineInit => OnlineInv
  BY DEF OnlineInit, OnlineInv, OnlyTheAnsweredRequestOpens

LEMMA AskKeepsOnlineInv ==
    ASSUME OnlineInv, NEW v \in OnlineVolumes, NEW t \in Titles, NEW n \in Nonces, Ask(v, t, n)
    PROVE  OnlineInv'
<1>1. /\ asked' = [volume |-> v, title |-> t, nonce |-> n]
      /\ requests' = requests \cup {asked'} /\ messages' = messages /\ opened' = NotOpened
  BY DEF Ask
<1>2. asked' \in Request
  BY <1>1 DEF Request
<1>3. OnlyTheAnsweredRequestOpens'
  BY <1>1 DEF OnlyTheAnsweredRequestOpens
<1> QED
  BY <1>1, <1>2, <1>3 DEF OnlineInv

LEMMA ReceiveKeepsOnlineInv ==
    ASSUME OnlineInv, NEW r \in messages, Receive(r) PROVE OnlineInv'
<1>1. r \in Request /\ asked \in Request
  BY DEF Receive, OnlineInv
<1>2. /\ opened'.request = asked /\ opened'.by = r
      /\ opened'.accepted = VerifyEnhancedPermission(Kvu(asked.volume),
              Kt(asked.volume, asked.title), Nonce(asked.nonce),
              OnlineVolumeId(asked.volume), TitleBytes(asked.title), MessageFor(r))
      /\ opened'.key = RecoverEnhancedTitleKey(Kvu(asked.volume), MessageFor(r),
              Nonce(asked.nonce), OnlineVolumeId(asked.volume), TitleBytes(asked.title))
      /\ UNCHANGED <<asked, requests, messages>>
  BY DEF Receive
<1>3. r = asked <=> asked.volume = r.volume /\ asked.title = r.title /\ asked.nonce = r.nonce
  BY <1>1 DEF Request
<1>4. opened'.accepted <=> r = asked
  BY <1>2, <1>3, AcceptedOnlyForItsRequest DEF MessageFor
<1>5. opened'.key = Kt(asked.volume, asked.title) <=> r = asked
  BY <1>2, <1>3, KeyOnlyForItsRequest DEF MessageFor
<1>6. OnlyTheAnsweredRequestOpens'
  BY <1>2, <1>4, <1>5 DEF OnlyTheAnsweredRequestOpens, Kt
<1> QED
  BY <1>2, <1>6 DEF OnlineInv

LEMMA OnlineStep == OnlineInv /\ [OnlineNext]_onlineVars => OnlineInv'
<1> SUFFICES ASSUME OnlineInv, [OnlineNext]_onlineVars PROVE OnlineInv'
  OBVIOUS
<1>1. ASSUME NEW r \in requests, Grant(r) PROVE OnlineInv'
  BY <1>1 DEF Grant, OnlineInv, OnlyTheAnsweredRequestOpens
<1>2. CASE UNCHANGED onlineVars
  BY <1>2 DEF onlineVars, OnlineInv, OnlyTheAnsweredRequestOpens
<1> QED
  BY <1>1, <1>2, AskKeepsOnlineInv, ReceiveKeepsOnlineInv DEF OnlineNext

\* A permission, verified or its key recovered, opens the title the player asks
\* for now exactly when the server granted that very request.
THEOREM OnlyTheAnswerOpens == DiscSpec => []OnlyTheAnsweredRequestOpens
<1>1. DiscInit => OnlineInv
  BY OnlineInit1 DEF DiscInit
<1>2. OnlineInv /\ [DiscNext]_discVars => OnlineInv'
  BY OnlineStep DEF DiscNext, discVars, onlineVars
<1>3. OnlineInv => OnlyTheAnsweredRequestOpens
  BY DEF OnlineInv
<1> QED
  BY <1>1, <1>2, <1>3, PTL DEF DiscSpec
-----------------------------------------------------------------------------
(* Unit_Key_RO.inf *)

\* Names that the provers take whole: s is m cells of S, c is s and then t, the
\* cells of s are found in c from cell d on.
CellRun(S, s, m) == s \in Seq(S) /\ Len(s) = m
Cat(c, s, t) == c = s \o t
Found(c, d, s, m) == \A i \in 1..m : c[d + i] = s[i]

LEMMA Cells ==
    ASSUME NEW S, NEW s, NEW t, NEW c, NEW m \in Nat, NEW k \in Nat,
           CellRun(S, s, m), CellRun(S, t, k), Cat(c, s, t)
    PROVE  CellRun(S, c, m + k) /\ Found(c, 0, s, m) /\ Found(c, m, t, k)
<1> USE DEF CellRun
<1>1. /\ s \o t \in Seq(S) /\ Len(s \o t) = m + k
      /\ \A i \in 1..(m + k) : (s \o t)[i] = IF i <= m THEN s[i] ELSE t[i - m]
  BY ConcatProperties
<1>4. c = s \o t
  BY DEF Cat
<1>2. \A i \in 1..m : i \in 1..(m + k) /\ i <= m /\ 0 + i = i
  OBVIOUS
<1>3. \A i \in 1..k : m + i \in 1..(m + k) /\ ~(m + i <= m) /\ (m + i) - m = i
  OBVIOUS
<1>5. \A i \in 1..m : c[0 + i] = s[i]
  BY <1>1, <1>2, <1>4
<1>6. \A i \in 1..k : c[m + i] = t[i]
  BY <1>1, <1>3, <1>4
<1> QED
  BY <1>1, <1>4, <1>5, <1>6 DEF Found

\* Found is transitive.
LEMMA FoundIn ==
    ASSUME NEW c, NEW b, NEW s, NEW d \in Nat, NEW e \in Nat, NEW m \in Nat, NEW l \in Nat,
           Found(c, d, b, l), Found(b, e, s, m), e + m <= l
    PROVE  Found(c, d + e, s, m)
<1>1. \A i \in 1..m : e + i \in 1..l /\ (d + e) + i = d + (e + i)
  OBVIOUS
<1> QED
  BY <1>1 DEF Found

LEMMA FoundHere ==
    ASSUME NEW c, NEW b, NEW s, NEW e \in Nat, NEW m \in Nat, NEW l \in Nat,
           Found(c, 0, b, l), Found(b, e, s, m), e + m <= l
    PROVE  Found(c, e, s, m)
<1>1. \A i \in 1..m : e + i \in 1..l /\ 0 + (e + i) = e + i
  OBVIOUS
<1> QED
  BY <1>1 DEF Found

\* The lengths the layout is computed from.
HeaderCells == 11
Start == Align * ((Align + HeaderCells + Align - 1) \div Align)
FileLen == (Start + Align) + (3 * Units + Align)

LEMMA StartIsAligned ==
    /\ Start \in Nat /\ Start % Align = 0 /\ Start >= Align + HeaderCells
<1>1. PICK q \in Nat, r \in 0..(Align - 1) :
         q = (Align + HeaderCells + Align - 1) \div Align
         /\ Align + HeaderCells + Align - 1 = (q * Align) + r
  <2>1. \A n \in Nat, a \in Nat \ {0} :
           n \div a \in Nat /\ n % a \in 0..(a - 1) /\ n = ((n \div a) * a) + (n % a)
    OBVIOUS
  <2>2. PICK n \in Nat : n = Align + HeaderCells + Align - 1
    BY AlignAssumption DEF HeaderCells
  <2> QED
    BY <2>1, <2>2, AlignAssumption, ZenonT(30)
<1>2. PICK x \in Nat : x = q * Align /\ x = Align * q
  BY AlignAssumption
<1>3. x >= Align + HeaderCells
  BY <1>1, <1>2, AlignAssumption DEF HeaderCells
<1>4. x % Align = 0
  BY <1>2, AlignAssumption
<1> QED
  BY <1>1, <1>2, <1>3, <1>4 DEF Start

\* What parsing reads of a mastered file.
Mastered(file, keys) ==
    /\ Len(file) = FileLen
    /\ file[1] = Start
    /\ file[Align + 2] = 1
    /\ file[Align + 5] = 1 /\ file[Align + 6] = 0 /\ file[Align + 7] = 2
    /\ file[Align + 9] = Units /\ file[Align + 11] = Units
    /\ file[Start + 1] = Units
    /\ \A i \in 1..Units : file[Start + (Align + (3 * i))] = keys[i]

\* The variable parts of a file.
TitleCells == [c \in 1..(TitleLen * Len(Directory.titles)) |->
                  IF c % TitleLen = 0 THEN Directory.titles[c \div TitleLen] ELSE 0]
RecordCells(keys) == [c \in 1..(RecordLen * Len(keys)) |->
                         IF c % RecordLen = 0 THEN keys[c \div RecordLen] ELSE 0]
FixedCells == <<1, 1, 0, 0, Directory.first, Directory.top, Len(Directory.titles)>>

LEMMA TitleCellsAre ==
    ASSUME NEW S, Nat \subseteq S
    PROVE  CellRun(S, TitleCells, 4) /\ TitleCells[2] = Units /\ TitleCells[4] = Units
<1>1. Len(Directory.titles) = 2 /\ Directory.titles[1] = Units /\ Directory.titles[2] = Units
  BY DEF Directory
<1>2. TitleCells = [c \in 1..4 |-> IF c % 2 = 0 THEN Directory.titles[c \div 2] ELSE 0]
  BY <1>1 DEF TitleCells, TitleLen
<1>3. TitleCells[1] = 0 /\ TitleCells[2] = Units /\ TitleCells[3] = 0 /\ TitleCells[4] = Units
  BY <1>1, <1>2
<1>4. \A c \in 1..4 : TitleCells[c] \in S
  <2>1. \A c \in 1..4 : c = 1 \/ c = 2 \/ c = 3 \/ c = 4
    OBVIOUS
  <2> QED
    BY <1>3, <2>1, UnitsAssumption
<1>5. TitleCells \in [1..4 -> S]
  BY <1>2, <1>4
<1>6. \A n \in Nat : \A f : f \in [1..n -> S] => f \in Seq(S) /\ Len(f) = n
  OBVIOUS
<1>7. CellRun(S, TitleCells, 4)
  <2>1. 4 \in Nat
    OBVIOUS
  <2> QED
    BY <1>5, <1>6, <2>1 DEF CellRun
<1> QED
  BY <1>3, <1>7

LEMMA RecordCellsAre ==
    ASSUME NEW S, Nat \subseteq S, NEW keys, NEW U \in Nat, CellRun(S, keys, U)
    PROVE  /\ CellRun(S, RecordCells(keys), 3 * U)
           /\ \A i \in 1..U : RecordCells(keys)[3 * i] = keys[i]
<1> USE DEF CellRun
<1>1. RecordCells(keys) = [c \in 1..(3 * U) |-> IF c % 3 = 0 THEN keys[c \div 3] ELSE 0]
  BY DEF RecordCells, RecordLen
<1>2. \A k \in 1..U : keys[k] \in S
  BY ElementOfSeq
<1>3. \A c \in 1..(3 * U) : c % 3 = 0 => c \div 3 \in 1..U
  OBVIOUS
<1>4. RecordCells(keys) \in [1..(3 * U) -> S]
  BY <1>1, <1>2, <1>3
<1>5. \A i \in 1..U : 3 * i \in 1..(3 * U) /\ (3 * i) % 3 = 0 /\ (3 * i) \div 3 = i
  OBVIOUS
<1>6. \A i \in 1..U : RecordCells(keys)[3 * i] = keys[i]
  BY <1>1, <1>5
<1> QED
  BY <1>4, <1>6

LEMMA MasteredCells ==
    ASSUME NEW S, Nat \subseteq S, NEW keys, CellRun(S, keys, Units)
    PROVE  /\ MasteredFile(Directory, keys) \in Seq(S)
           /\ Mastered(MasteredFile(Directory, keys), keys)
<1>1. PICK A \in Nat, U \in Nat, st \in Nat :
         A = Align /\ U = Units /\ st = Start /\ A >= 2 /\ U >= 1 /\ st >= A + 11
  BY AlignAssumption, UnitsAssumption, StartIsAligned DEF HeaderCells
<1>2. PICK gap \in Nat, less \in Nat, long \in Nat, room \in Nat :
         /\ gap = Start - Align - HeaderCells /\ room = A + 11 /\ room + gap = st
         /\ less = Align - 1 /\ 1 + less = A
         /\ long = 3 * U
  BY <1>1 DEF HeaderCells
<1>3. PICK past \in Nat, m \in Nat, l \in Nat :
         past = st + 1 /\ m = past + less /\ m = st + A /\ l = m + long
  BY <1>1, <1>2
<1>4. PICK titles, fixed, records :
         titles = TitleCells /\ fixed = FixedCells /\ records = RecordCells(keys)
  OBVIOUS
<1>5. PICK header, top, front :
         Cat(header, fixed, titles) /\ Cat(top, <<Start>>, Zeros(Align - 1)) /\ Cat(front, top, header)
  BY Zenon DEF Cat
<1>6. PICK before, count, block :
         Cat(before, front, Zeros(gap)) /\ Cat(count, before, <<Units>>)
         /\ Cat(block, count, Zeros(Align - 1))
  BY Zenon DEF Cat
<1>7. PICK full, file : Cat(full, block, records) /\ Cat(file, full, Zeros(Align))
  BY Zenon DEF Cat
<1>8. \A n \in Nat : CellRun(S, Zeros(n), n)
  <2>1. \A n \in Nat : Zeros(n) \in Seq(S) /\ Len(Zeros(n)) = n
    BY DEF Zeros
  <2> QED
    BY <2>1 DEF CellRun
<1>9. /\ CellRun(S, <<Start>>, 1) /\ <<Start>>[1] = st
      /\ CellRun(S, <<Units>>, 1) /\ <<Units>>[1] = U
  BY <1>1 DEF CellRun
<1>10. /\ CellRun(S, titles, 4) /\ titles[2] = U /\ titles[4] = U
       /\ CellRun(S, records, long) /\ \A i \in 1..U : records[3 * i] = keys[i]
  <2>1. CellRun(S, titles, 4) /\ titles[2] = U /\ titles[4] = U
    BY <1>1, <1>4, TitleCellsAre, Zenon
  <2>2. CellRun(S, keys, U)
    BY <1>1
  <2>3. CellRun(S, records, 3 * U) /\ \A i \in 1..U : records[3 * i] = keys[i]
    <3>1. /\ CellRun(S, RecordCells(keys), 3 * U)
          /\ \A i \in 1..U : RecordCells(keys)[3 * i] = keys[i]
      <4>1. U \in Nat
        BY <1>1
      <4> QED
        BY <2>2, <4>1, RecordCellsAre, Zenon
    <3> QED
      BY <1>4, <3>1, Zenon
  <2> QED
    BY <1>2, <2>1, <2>3
<1>11. /\ CellRun(S, fixed, 7)
       /\ fixed[2] = 1 /\ fixed[5] = 1 /\ fixed[6] = 0 /\ fixed[7] = 2
  BY <1>4 DEF FixedCells, Directory, CellRun
<1>12. CellRun(S, Zeros(Align - 1), less) /\ CellRun(S, Zeros(gap), gap) /\ CellRun(S, Zeros(Align), A)
  BY <1>1, <1>2, <1>8
<1>13. 4 \in Nat /\ 7 \in Nat /\ 1 \in Nat /\ 11 \in Nat /\ 7 + 4 = 11
  OBVIOUS
<1>14. CellRun(S, header, 7 + 4) /\ Found(header, 0, fixed, 7) /\ Found(header, 7, titles, 4)
  BY <1>5, <1>10, <1>11, <1>13, Cells, Zenon
<1>15. CellRun(S, top, 1 + less) /\ Found(top, 0, <<Start>>, 1)
  BY <1>2, <1>5, <1>9, <1>12, <1>13, Cells, Zenon
<1>16. CellRun(S, header, 11) /\ CellRun(S, top, A)
  BY <1>2, <1>13, <1>14, <1>15
<1>17. CellRun(S, front, A + 11) /\ Found(front, 0, top, A) /\ Found(front, A, header, 11)
  BY <1>1, <1>5, <1>13, <1>16, Cells, Zenon
<1>18. CellRun(S, before, room + gap) /\ Found(before, 0, front, room)
  <2>1. CellRun(S, front, room)
    BY <1>2, <1>17
  <2>2. room \in Nat /\ gap \in Nat
    BY <1>2
  <2> QED
    BY <1>6, <1>12, <2>1, <2>2, Cells, Zenon
<1>19. CellRun(S, count, st + 1) /\ Found(count, 0, before, st) /\ Found(count, st, <<Units>>, 1)
  <2>1. CellRun(S, before, st)
    BY <1>2, <1>18
  <2> QED
    BY <1>1, <1>6, <1>9, <1>13, <2>1, Cells, Zenon
<1>20. CellRun(S, block, past + less) /\ Found(block, 0, count, past)
  <2>1. CellRun(S, count, past)
    BY <1>3, <1>19
  <2>2. past \in Nat /\ less \in Nat
    BY <1>2, <1>3
  <2> QED
    BY <1>6, <1>12, <2>1, <2>2, Cells, Zenon
<1>21. CellRun(S, full, m + long) /\ Found(full, 0, block, m) /\ Found(full, m, records, long)
  <2>1. CellRun(S, block, m)
    BY <1>3, <1>20
  <2> QED
    BY <1>2, <1>3, <1>7, <1>10, <2>1, Cells, Zenon
<1>22. CellRun(S, file, l + A) /\ Found(file, 0, full, l)
  <2>1. CellRun(S, full, l)
    BY <1>3, <1>21
  <2> QED
    BY <1>1, <1>3, <1>7, <1>12, <2>1, Cells, Zenon
<1>23. MasteredFile(Directory, keys) = file
  <2>1. header = FixedCells \o TitleCells /\ Len(header) = HeaderCells
    BY <1>4, <1>5, <1>16, Zenon DEF Cat, HeaderCells, CellRun
  <2>2. gap = Start - Align - Len(header)
        /\ Start = Align * ((Align + Len(header) + Align - 1) \div Align)
    BY <1>2, <2>1, Zenon DEF Start
  <2>3. front = <<Start>> \o Zeros(Align - 1) \o header
    BY <1>5, Zenon DEF Cat
  <2>4. block = front \o Zeros(Start - Align - Len(header)) \o <<Units>> \o Zeros(Align - 1)
    BY <1>6, <2>2, Zenon DEF Cat
  <2>5. file = block \o RecordCells(keys) \o Zeros(Align)
    BY <1>4, <1>7, Zenon DEF Cat
  <2>6. Len(keys) = Units
    BY DEF CellRun
  <2> QED
    BY <2>1, <2>2, <2>3, <2>4, <2>5, <2>6, Zenon
    DEF MasteredFile, FixedCells, TitleCells, RecordCells
<1>24. Found(file, 0, block, m) /\ Found(file, m, records, long)
  <2>1. 0 \in Nat /\ 0 + m <= l /\ m + long <= l
    BY <1>2, <1>3
  <2> QED
    BY <1>2, <1>3, <1>21, <1>22, <2>1, FoundHere
<1>25. Found(file, 0, count, past)
  <2>1. 0 \in Nat /\ 0 + past <= m
    BY <1>2, <1>3
  <2> QED
    BY <1>3, <1>20, <1>24, <2>1, FoundHere
<1>26. Found(file, 0, before, st) /\ Found(file, st, <<Units>>, 1)
  <2>1. 0 \in Nat /\ 1 \in Nat /\ 0 + st <= past /\ st + 1 <= past
    BY <1>3
  <2> QED
    BY <1>3, <1>19, <1>25, <2>1, FoundHere
<1>27. Found(file, 0, front, room)
  <2>1. 0 \in Nat /\ 0 + room <= st
    BY <1>2
  <2> QED
    BY <1>2, <1>18, <1>26, <2>1, FoundHere
<1>28. Found(file, 0, top, A) /\ Found(file, A, header, 11)
  <2>1. 0 \in Nat /\ 11 \in Nat /\ 0 + A <= room /\ A + 11 <= room
    BY <1>2
  <2> QED
    BY <1>2, <1>17, <1>27, <2>1, FoundHere
<1>29. Found(file, 0, <<Start>>, 1)
  <2>1. 0 \in Nat /\ 1 \in Nat /\ 0 + 1 <= A
    BY <1>1
  <2> QED
    BY <1>1, <1>15, <1>28, <2>1, FoundHere
<1>30. Found(file, A, fixed, 7) /\ Found(file, A + 7, titles, 4)
  BY <1>14, <1>28, FoundIn
<1>31. file[1] = st /\ file[st + 1] = U
  <2>1. 1 \in 1..1 /\ 0 + 1 = 1
    OBVIOUS
  <2> QED
    BY <1>9, <1>26, <1>29, <2>1 DEF Found
<1>32. file[A + 2] = 1 /\ file[A + 5] = 1 /\ file[A + 6] = 0 /\ file[A + 7] = 2
  <2>1. 2 \in 1..7 /\ 5 \in 1..7 /\ 6 \in 1..7 /\ 7 \in 1..7
    OBVIOUS
  <2> QED
    BY <1>11, <1>30, <2>1 DEF Found
<1>33. file[A + 9] = U /\ file[A + 11] = U
  <2>1. 2 \in 1..4 /\ 4 \in 1..4 /\ (A + 7) + 2 = A + 9 /\ (A + 7) + 4 = A + 11
    OBVIOUS
  <2>2. file[(A + 7) + 2] = U /\ file[(A + 7) + 4] = U
    BY <1>10, <1>30, <2>1 DEF Found
  <2> QED
    BY <2>1, <2>2
<1>34. ASSUME NEW i \in 1..U PROVE file[st + (A + (3 * i))] = keys[i]
  <2>1. 3 * i \in 1..long /\ st + (A + (3 * i)) = m + (3 * i)
    BY <1>2, <1>3
  <2>2. file[m + (3 * i)] = records[3 * i]
    BY <1>24, <2>1 DEF Found
  <2> QED
    BY <1>10, <2>1, <2>2
<1>35. Mastered(file, keys)
  <2>1. Len(file) = FileLen
    BY <1>1, <1>2, <1>3, <1>22 DEF FileLen, CellRun
  <2> QED
    BY <1>1, <1>31, <1>32, <1>33, <1>34, <2>1, Zenon DEF Mastered
<1> QED
  BY <1>22, <1>23, <1>35 DEF CellRun

\* What parse_header makes of the header of a mastered file, or of its beginning.
LEMMA HeaderParse ==
    ASSUME NEW s, NEW n \in Nat, n = Len(s),
           n >= 4 => s[2] = 1, n >= 7 => s[7] = 2,
           n >= 11 => s[5] = 1 /\ s[6] = 0 /\ s[9] = Units /\ s[11] = Units
    PROVE  /\ ParseHeader(s).error = "none" <=> n >= 11
           /\ n >= 11 => ParseHeader(s).directories = <<Directory>>
<1> DEFINE zero == [error |-> "none", at |-> HeaderLen, directories |-> <<>>]
           F(f) == [i \in 0..1 |-> IF i = 0 THEN zero ELSE ParseDirectory(s, f[i - 1])]
           G(f) == [i \in 0..At(s, 1) |-> IF i = 0 THEN zero ELSE ParseDirectory(s, f[i - 1])]
           g == [i \in 0..1 |-> IF i = 0 THEN zero ELSE ParseDirectory(s, zero)]
           h == CHOOSE f : f = F(f)
<1>1. CASE n < 4
  <2>1. "Truncated" # "none"
    OBVIOUS
  <2> QED
    BY <1>1, <2>1 DEF ParseHeader, HeaderLen
<1>2. CASE n >= 4
  <2> HIDE DEF zero
  <2>1. g = F(g)
    OBVIOUS
  <2>2. h = F(h)
    <3>1. \E f : f = F(f)
      BY <2>1
    <3> HIDE DEF F
    <3> QED
      BY <3>1
  <2>3. h[1] = ParseDirectory(s, zero)
    <3> HIDE DEF h
    <3> QED
      BY <2>2
  <2>4. ParseHeader(s) = ParseDirectory(s, zero)
    <3>1. At(s, 1) = 1
      BY <1>2 DEF At
    <3>2. ParseHeader(s) = (CHOOSE f : f = G(f))[At(s, 1)]
      BY <1>2 DEF ParseHeader, HeaderLen, zero
    <3>3. ParseHeader(s) = h[1]
      BY <3>1, <3>2
    <3> QED
      BY <2>3, <3>3
  <2>5. zero.error = "none" /\ zero.at = 4 /\ zero.directories = <<>>
    BY DEF zero, HeaderLen
  <2>6. CASE n < 7
    <3>1. ParseDirectory(s, zero) = [zero EXCEPT !.error = "Truncated"]
      BY <2>5, <2>6 DEF ParseDirectory, DirectoryLen
    <3>2. ParseDirectory(s, zero).error = "Truncated"
      BY <3>1 DEF zero
    <3> QED
      BY <2>4, <2>6, <3>2
  <2>7. CASE n >= 7
    <3>1. At(s, 4 + 2) = 2 /\ 4 + 3 = 7 /\ 7 + 2 * 2 = 11
      BY <2>7 DEF At
    <3>2. CASE n < 11
      <4>1. ParseDirectory(s, zero) = [zero EXCEPT !.error = "Truncated"]
        BY <2>5, <3>1, <3>2 DEF ParseDirectory, DirectoryLen, TitleLen
      <4>2. ParseDirectory(s, zero).error = "Truncated"
        BY <4>1 DEF zero
      <4> QED
        BY <2>4, <3>2, <4>2
    <3>3. CASE n >= 11
      <4> DEFINE read == [first |-> At(s, 4), top |-> At(s, 4 + 1),
                          titles |-> [t \in 1..2 |-> At(s, 7 + 2 * t - 1)]]
      <4>1. ParseDirectory(s, zero) =
               [error |-> "none", at |-> 11, directories |-> Append(<<>>, read)]
        <5>1. /\ zero.at + DirectoryLen = 7 /\ At(s, zero.at + 2) = 2
              /\ 7 + TitleLen * 2 = 11 /\ ~(7 > Len(s)) /\ ~(11 > Len(s))
          BY <2>5, <3>1, <3>3 DEF DirectoryLen, TitleLen
        <5>2. ParseDirectory(s, zero) =
                 [error |-> "none", at |-> 11,
                  directories |-> Append(zero.directories,
                     [first |-> At(s, zero.at), top |-> At(s, zero.at + 1),
                      titles |-> [t \in 1..2 |-> At(s, 7 + TitleLen * t - 1)]])]
          BY <2>5, <5>1, Zenon DEF ParseDirectory
        <5> QED
          BY <2>5, <5>2, Zenon DEF TitleLen
      <4>2. read.titles = <<Units, Units>>
        <5>1. \A t \in 1..2 : At(s, 7 + 2 * t - 1) = Units
          BY <3>3 DEF At
        <5>2. \A t \in 1..2 : t = 1 \/ t = 2
          OBVIOUS
        <5> QED
          BY <5>1, <5>2
      <4>3. read = Directory
        BY <3>3, <4>2 DEF Directory, At
      <4> HIDE DEF read
      <4>4. Append(<<>>, read) = <<read>>
        OBVIOUS
      <4> QED
        BY <2>4, <3>3, <4>1, <4>3, <4>4
    <3> QED
      BY <3>2, <3>3
  <2> QED
    BY <2>6, <2>7
<1> QED
  BY <1>1, <1>2

\* What parse_unit_key_block makes of a key block.
LEMMA BlockParse ==
    ASSUME NEW s, NEW n \in Nat, n = Len(s), n >= Align => s[1] = Units
    PROVE  /\ ParseUnitKeyBlock(s).error = "none" <=> n >= Align + 3 * Units
           /\ n >= Align + 3 * Units =>
                 ParseUnitKeyBlock(s).keys = [i \in 1..Units |-> s[(Align + (3 * i))]]
<1>1. CASE n < Align
  <2>1. ParseUnitKeyBlock(s).error = "Truncated"
    BY <1>1 DEF ParseUnitKeyBlock
  <2> QED
    BY <1>1, <2>1, AlignAssumption, UnitsAssumption
<1>2. CASE n >= Align
  <2>1. At(s, 0) = Units
    BY <1>2 DEF At
  <2>2. CASE n < Align + 3 * Units
    <3>1. ParseUnitKeyBlock(s).error = "OversizedRecord"
      BY <1>2, <2>1, <2>2, AlignAssumption, UnitsAssumption DEF ParseUnitKeyBlock, RecordLen
    <3> QED
      BY <2>2, <3>1, AlignAssumption, UnitsAssumption
  <2>3. CASE n >= Align + 3 * Units
    <3>1. ParseUnitKeyBlock(s) =
             [error |-> "none", keys |-> [i \in 1..Units |-> At(s, Align + 3 * i - 1)]]
      BY <1>2, <2>1, <2>3, AlignAssumption, UnitsAssumption DEF ParseUnitKeyBlock, RecordLen
    <3>2. \A i \in 1..Units : At(s, Align + 3 * i - 1) = s[(Align + (3 * i))]
      BY AlignAssumption DEF At
    <3> QED
      BY <2>3, <3>1, <3>2
  <2> QED
    BY <2>2, <2>3, AlignAssumption, UnitsAssumption
<1> QED
  BY <1>1, <1>2, AlignAssumption

\* A copy of a mastered file, cut or padded, is refused or read as it was made.
LEMMA FileParse ==
    ASSUME NEW S, NEW file, NEW keys, CellRun(S, keys, Units), Mastered(file, keys),
           NEW b, NEW n \in Nat, CellRun(S, b, n), \A i \in 1..n : i <= FileLen => b[i] = file[i]
    PROVE  /\ ParseUnitKeyFile(b).error = "none" =>
                 /\ ParseUnitKeyFile(b).directories = <<Directory>>
                 /\ ParseUnitKeyFile(b).keys = keys
           /\ n >= FileLen => ParseUnitKeyFile(b).error = "none"
<1>1. PICK A \in Nat, U \in Nat, st \in Nat, long \in Nat, end \in Nat :
         /\ A = Align /\ U = Units /\ st = Start /\ A >= 2 /\ U >= 1 /\ st >= A + 11
         /\ long = A + 3 * U /\ end = FileLen /\ end = (st + long) + A
  BY AlignAssumption, UnitsAssumption, StartIsAligned DEF HeaderCells, FileLen
<1> DEFINE s == From(b, Align)
           t == From(b, Start)
<1>2. /\ Len(b) = n /\ b \in Seq(S) /\ Len(keys) = U /\ keys \in Seq(S)
  BY <1>1 DEF CellRun
<1>3. \A i \in 1..n : i <= end => b[i] = file[i]
  BY <1>1
<1>4. \A d \in Nat : d <= n => Len(From(b, d)) = n - d /\ \A i \in 1..(n - d) : From(b, d)[i] = b[d + i]
  <2> SUFFICES ASSUME NEW d \in Nat, d <= n
               PROVE  Len(From(b, d)) = n - d /\ \A i \in 1..(n - d) : From(b, d)[i] = b[d + i]
    OBVIOUS
  <2>1. From(b, d) = SubSeq(b, d + 1, n)
    BY <1>2 DEF From
  <2>2. SubSeq(b, d + 1, n) = [i \in 1..(n - (d + 1) + 1) |-> b[i + (d + 1) - 1]]
    BY <1>2
  <2>3. n - (d + 1) + 1 = n - d /\ \A i \in 1..(n - d) : i + (d + 1) - 1 = d + i
    OBVIOUS
  <2>4. SubSeq(b, d + 1, n) = [i \in 1..(n - d) |-> b[d + i]]
    BY <2>2, <2>3
  <2>5. n - d \in Nat
    OBVIOUS
  <2> QED
    BY <2>1, <2>4, <2>5
<1>5. CASE n < A
  <2>1. ParseUnitKeyFile(b).error = "Truncated"
    BY <1>1, <1>2, <1>5 DEF ParseUnitKeyFile
  <2> QED
    BY <1>1, <1>5, <2>1
<1>6. CASE n >= A
  <2>1. PICK k \in Nat : k = n - A /\ Len(s) = k /\ \A i \in 1..k : s[i] = b[A + i]
    BY <1>1, <1>4, <1>6
  <2>2. \A i \in 1..11 : i <= k => i \in 1..k /\ A + i \in 1..n /\ A + i <= end
    BY <1>1, <2>1
  <2>3. \A i \in 1..11 : i <= k => s[i] = file[A + i]
    BY <1>3, <2>1, <2>2
  <2>4. /\ file[A + 2] = 1 /\ file[A + 5] = 1 /\ file[A + 6] = 0 /\ file[A + 7] = 2
        /\ file[A + 9] = Units /\ file[A + 11] = Units
    BY <1>1 DEF Mastered
  <2>5. /\ ParseHeader(s).error = "none" <=> k >= 11
        /\ k >= 11 => ParseHeader(s).directories = <<Directory>>
    <3> HIDE DEF s
    <3>1. /\ k >= 4 => s[2] = 1
          /\ k >= 7 => s[7] = 2
          /\ k >= 11 => s[5] = 1 /\ s[6] = 0 /\ s[9] = Units /\ s[11] = Units
      BY <2>3, <2>4
    <3> QED
      BY <2>1, <3>1, HeaderParse
  <2>6. At(b, 0) = st
    <3>1. 1 \in 1..n /\ 1 <= end /\ 0 + 1 = 1
      BY <1>1, <1>6
    <3> QED
      BY <1>1, <1>3, <3>1 DEF At, Mastered
  <2> HIDE DEF s
  <2>7. CASE k < 11
    <3>1. ParseUnitKeyFile(b).error = ParseHeader(s).error
      BY <1>1, <1>2, <1>6, <2>5, <2>7 DEF ParseUnitKeyFile, s
    <3> QED
      BY <1>1, <2>1, <2>5, <2>7, <3>1
  <2>8. CASE k >= 11 /\ st >= n
    <3>1. ParseUnitKeyFile(b).error = "OversizedRecord"
      BY <1>1, <1>2, <1>6, <2>5, <2>6, <2>8 DEF ParseUnitKeyFile, s
    <3> QED
      BY <1>1, <2>8, <3>1
  <2>9. CASE k >= 11 /\ st < n
    <3>1. PICK l \in Nat : l = n - st /\ Len(t) = l /\ \A i \in 1..l : t[i] = b[st + i]
      BY <1>1, <1>4, <2>9
    <3>2. l >= A => t[1] = U
      <4>1. 1 \in 1..l /\ st + 1 \in 1..n /\ st + 1 <= end
        BY <1>1, <2>9, <3>1
      <4>2. t[1] = file[st + 1]
        BY <1>3, <3>1, <4>1
      <4> QED
        BY <1>1, <4>2 DEF Mastered
    <3> HIDE DEF t
    <3>3. /\ ParseUnitKeyBlock(t).error = "none" <=> l >= long
          /\ l >= long => ParseUnitKeyBlock(t).keys = [i \in 1..U |-> t[(A + (3 * i))]]
      <4>1. l = Len(t) /\ (l >= Align => t[1] = Units) /\ long = Align + 3 * Units
        BY <1>1, <3>1, <3>2
      <4>2. /\ ParseUnitKeyBlock(t).error = "none" <=> l >= long
            /\ l >= long =>
                  ParseUnitKeyBlock(t).keys = [i \in 1..Units |-> t[(Align + (3 * i))]]
        BY <4>1, BlockParse, Zenon
      <4> QED
        BY <1>1, <4>2, Zenon
    <3>4. st % A = 0
      BY <1>1, StartIsAligned
    <3>5. CASE l < long
      <4>1. ParseUnitKeyFile(b).error = ParseUnitKeyBlock(t).error
        BY <1>1, <1>2, <1>6, <2>5, <2>6, <2>9, <3>3, <3>4, <3>5 DEF ParseUnitKeyFile, s, t
      <4> QED
        BY <1>1, <3>1, <3>3, <3>5, <4>1
    <3>6. CASE l >= long
      <4>1. ParseUnitKeyFile(b) =
               [error |-> "none", directories |-> ParseHeader(s).directories,
                keys |-> ParseUnitKeyBlock(t).keys]
        BY <1>1, <1>2, <1>6, <2>5, <2>6, <2>9, <3>3, <3>4, <3>6 DEF ParseUnitKeyFile, s, t
      <4>2. ASSUME NEW i \in 1..U PROVE t[(A + (3 * i))] = keys[i]
        <5>1. PICK c \in Nat : c = A + (3 * i) /\ c \in 1..l /\ st + c \in 1..n /\ st + c <= end
          <6>1. l = n - st /\ l >= long
            BY <3>1, <3>6
          <6>2. PICK c \in Nat : c = A + (3 * i) /\ 1 <= c /\ c <= long
            BY <1>1
          <6>3. c \in 1..l /\ st + c \in 1..n /\ st + c <= end
            BY <1>1, <6>1, <6>2
          <6> QED
            BY <6>2, <6>3
        <5>2. t[c] = file[st + c]
          BY <1>3, <3>1, <5>1
        <5> QED
          BY <1>1, <5>1, <5>2 DEF Mastered
      <4>3. [i \in 1..U |-> t[(A + (3 * i))]] = keys
        <5>1. keys = [i \in 1..U |-> keys[i]]
          BY <1>2
        <5> QED
          BY <4>2, <5>1
      <4> QED
        BY <2>5, <2>9, <3>3, <3>6, <4>1, <4>3
    <3> QED
      BY <1>1, <3>1, <3>5, <3>6
  <2> QED
    BY <1>1, <2>1, <2>7, <2>8, <2>9
<1> QED
  BY <1>1, <1>5, <1>6
-----------------------------------------------------------------------------
(* The keys of a volume *)

LEMMA AtomsDiffer == ASSUME NEW a, NEW b PROVE Atom(a) = Atom(b) <=> a = b
<1>1. <<"atom", {}, {}, a>> = <<"atom", {}, {}, b>> <=> a = b
  OBVIOUS
<1> QED
  BY <1>1 DEF Atom

\* An atom is the outcome of no cipher.
LEMMA AtomIsOpaque ==
    ASSUME NEW op \in {"E", "D"}, NEW k, NEW a PROVE Inside(op, k, Atom(a)) = {}
<1>1. PICK t : t = <<"atom", {}, {}, a>>
  OBVIOUS
<1>2. t[1] # op
  BY <1>1
<1>3. Inside(op, k, {t}) = {}
  BY <1>2 DEF Inside
<1> QED
  BY <1>1, <1>3 DEF Atom

LEMMA XorTwice == ASSUME NEW a, NEW b PROVE Xor(Xor(a, b), b) = a
  BY DEF Xor

VukOf(d, e) == DeriveVuk(MediaKey(d), VolumeId(e))
IdTerm(e) == <<"atom", {}, {}, <<"IDv", e>>>>
VukTerm(d, e) == <<"D", MediaKey(d), VolumeId(e), "">>

\* A VUK is a block of two terms, one of the Media Key, one of the Volume ID.
LEMMA VukTerms ==
    ASSUME NEW d, NEW e
    PROVE  VukOf(d, e) = {VukTerm(d, e), IdTerm(e)} /\ VukTerm(d, e) # IdTerm(e)
<1>1. Decrypt(MediaKey(d), VolumeId(e)) = {VukTerm(d, e)}
  BY AtomIsOpaque, DecryptOpaque DEF VolumeId, VukTerm
<1>2. VukTerm(d, e)[1] = "D" /\ IdTerm(e)[1] = "atom"
  BY DEF VukTerm, IdTerm
<1>3. VolumeId(e) = {IdTerm(e)}
  BY DEF VolumeId, Atom, IdTerm
<1>4. Xor({VukTerm(d, e)}, {IdTerm(e)}) = {VukTerm(d, e), IdTerm(e)}
  BY <1>2, XorDisjoint
<1> QED
  BY <1>1, <1>2, <1>3, <1>4 DEF VukOf, DeriveVuk, AesG

LEMMA VuksDiffer ==
    ASSUME NEW d, NEW e, NEW c, NEW f
    PROVE  VukOf(d, e) = VukOf(c, f) <=> d = c /\ e = f
<1> SUFFICES ASSUME VukOf(d, e) = VukOf(c, f) PROVE d = c /\ e = f
  OBVIOUS
<1>1. VukTerm(d, e) \in {VukTerm(c, f), IdTerm(f)}
  BY VukTerms
<1>2. VukTerm(d, e)[1] = "D" /\ IdTerm(f)[1] = "atom"
  BY DEF VukTerm, IdTerm
<1>3. VukTerm(d, e) = VukTerm(c, f)
  BY <1>1, <1>2
<1>4. /\ VukTerm(d, e)[2] = MediaKey(d) /\ VukTerm(c, f)[2] = MediaKey(c)
      /\ VukTerm(d, e)[3] = VolumeId(e) /\ VukTerm(c, f)[3] = VolumeId(f)
  BY DEF VukTerm
<1>5. <<"Km", d>> = <<"Km", c>> /\ <<"IDv", e>> = <<"IDv", f>>
  BY <1>3, <1>4, AtomsDiffer DEF MediaKey, VolumeId
<1> QED
  BY <1>5

\* The encrypted title keys of an edition's Unit_Key_RO.inf.
EncKey(e, n) == Encrypt(VukOf(e, e), TitleKeyOf(e, n))

LEMMA TitleKeysDiffer ==
    ASSUME NEW e, NEW m, NEW p, NEW n
    PROVE  TitleKeyOf(e, m) = TitleKeyOf(p, n) <=> e = p /\ m = n
<1>1. <<"Kcu", e, m>> = <<"Kcu", p, n>> <=> e = p /\ m = n
  OBVIOUS
<1> QED
  BY <1>1, AtomsDiffer DEF TitleKeyOf

LEMMA EncKeyIs ==
    ASSUME NEW e, NEW n
    PROVE  EncKey(e, n) = {<<"E", VukOf(e, e), TitleKeyOf(e, n), "">>}
  BY AtomIsOpaque, EncryptOpaque DEF EncKey, TitleKeyOf

LEMMA EncKeysDiffer ==
    ASSUME NEW e, NEW m, NEW p, NEW n
    PROVE  EncKey(e, m) = EncKey(p, n) <=> e = p /\ m = n
<1> SUFFICES ASSUME EncKey(e, m) = EncKey(p, n) PROVE e = p /\ m = n
  OBVIOUS
<1>1. PICK s, t : /\ s = <<"E", VukOf(e, e), TitleKeyOf(e, m), "">>
                  /\ t = <<"E", VukOf(p, p), TitleKeyOf(p, n), "">>
  OBVIOUS
<1>2. EncKey(e, m) = {s} /\ EncKey(p, n) = {t}
  BY <1>1, EncKeyIs
<1>3. s[3] = t[3] /\ s[3] = TitleKeyOf(e, m) /\ t[3] = TitleKeyOf(p, n)
  BY <1>1, <1>2
<1>4. TitleKeyOf(e, m) = TitleKeyOf(p, n)
  BY <1>3
<1> QED
  <2>1. TitleKeyOf(e, m) = TitleKeyOf(p, n) <=> e = p /\ m = n
    BY TitleKeysDiffer
  <2> QED
    BY <1>4, <2>1

\* A title key comes out of its own encrypted title key under its own VUK only.
LEMMA KeyComesOut ==
    ASSUME NEW k, NEW e, NEW m, NEW p, NEW n
    PROVE  Decrypt(k, EncKey(e, m)) = TitleKeyOf(p, n) <=> k = VukOf(e, e) /\ e = p /\ m = n
<1>1. CASE k = VukOf(e, e)
  <2>1. Decrypt(k, EncKey(e, m)) = TitleKeyOf(e, m)
    BY <1>1, EncKeyIs, DecryptOpens
  <2> QED
    BY <1>1, <2>1, TitleKeysDiffer
<1>2. CASE k # VukOf(e, e)
  <2>1. PICK d : d = <<"D", k, EncKey(e, m), "">>
    OBVIOUS
  <2>2. Decrypt(k, EncKey(e, m)) = {d}
    BY <1>2, <2>1, EncKeyIs, DecryptTellsNothing
  <2>3. PICK t : t = <<"atom", {}, {}, <<"Kcu", p, n>>>>
    OBVIOUS
  <2>4. TitleKeyOf(p, n) = {t}
    BY <2>3 DEF TitleKeyOf, Atom
  <2>5. d[1] = "D" /\ t[1] = "atom"
    BY <2>1, <2>3
  <2> QED
    BY <1>2, <2>2, <2>4, <2>5
<1> QED
  BY <1>1, <1>2
-----------------------------------------------------------------------------
(* The clips *)

SeedTerm == <<"atom", {}, {}, <<"seed">>>>
IvTerm == <<"atom", {}, {}, <<"IV0_AACS">>>>
VideoTerm(e, n) == <<"atom", {}, {}, <<"video", e, n>>>>
AudioTerm(e, n) == <<"atom", {}, {}, <<"audio", e, n>>>>

\* Block keys tell their title keys apart.
LEMMA BlockKeysDiffer ==
    ASSUME NEW j, NEW k PROVE BlockKey(j, Seed) = BlockKey(k, Seed) <=> j = k
<1>1. ASSUME NEW i
      PROVE  \E t : /\ t = <<"E", i, Seed, "">> /\ t[1] = "E" /\ t[2] = i
                    /\ BlockKey(i, Seed) = {t, SeedTerm}
  <2>1. PICK t : t = <<"E", i, Seed, "">>
    OBVIOUS
  <2>2. Encrypt(i, Seed) = {t}
    BY <2>1, AtomIsOpaque, EncryptOpaque DEF Seed
  <2>3. t[1] = "E" /\ t[2] = i /\ SeedTerm[1] = "atom"
    BY <2>1 DEF SeedTerm
  <2>4. Xor({t}, {SeedTerm}) = {t, SeedTerm}
    BY <2>3, XorDisjoint
  <2>5. Seed = {SeedTerm}
    BY DEF Seed, Atom, SeedTerm
  <2> QED
    BY <2>1, <2>2, <2>3, <2>4, <2>5 DEF BlockKey
<1>2. PICK s : s[1] = "E" /\ s[2] = j /\ BlockKey(j, Seed) = {s, SeedTerm}
  BY <1>1
<1>5. PICK t : t[1] = "E" /\ t[2] = k /\ BlockKey(k, Seed) = {t, SeedTerm}
  BY <1>1
<1>3. SeedTerm[1] = "atom"
  BY DEF SeedTerm
<1>4. BlockKey(j, Seed) = BlockKey(k, Seed) => s = t
  BY <1>2, <1>3, <1>5
<1> QED
  BY <1>2, <1>4, <1>5

LEMMA CbcOfTwo ==
    ASSUME NEW k, NEW iv, NEW x, NEW y
    PROVE  CbcEncrypt(k, iv, <<x, y>>) =
              <<Encrypt(k, Xor(x, iv)), Encrypt(k, Xor(y, Encrypt(k, Xor(x, iv))))>>
<1> DEFINE c == Encrypt(k, Xor(x, iv))
           F(f) == [n \in 0..2 |-> IF n = 0 THEN iv ELSE Encrypt(k, Xor(<<x, y>>[n], f[n - 1]))]
           g == [n \in 0..2 |-> IF n = 0 THEN iv
                                ELSE IF n = 1 THEN c ELSE Encrypt(k, Xor(y, c))]
           h == CHOOSE f : f = F(f)
<1>1. g = F(g)
  <2>1. <<x, y>>[1] = x /\ <<x, y>>[2] = y
    OBVIOUS
  <2> QED
    BY <2>1
<1>2. h = F(h)
  <2>1. \E f : f = F(f)
    BY <1>1
  <2> HIDE DEF F
  <2> QED
    BY <2>1
<1>3. CbcEncrypt(k, iv, <<x, y>>) = [n \in 1..2 |-> h[n]]
  <2>1. Len(<<x, y>>) = 2
    OBVIOUS
  <2> QED
    BY <2>1 DEF CbcEncrypt, h, F
<1> HIDE DEF h
<1>4. h[0] = iv /\ h[1] = Encrypt(k, Xor(x, h[0])) /\ h[2] = Encrypt(k, Xor(y, h[1]))
  BY <1>2
<1>5. h[1] = c /\ h[2] = Encrypt(k, Xor(y, c))
  BY <1>4
<1> HIDE DEF c
<1>6. [n \in 1..2 |-> h[n]] = <<h[1], h[2]>>
  OBVIOUS
<1> QED
  BY <1>3, <1>5, <1>6 DEF c

LEMMA OneAndTwo == ASSUME NEW x, NEW y, NEW z PROVE <<x>> \o <<y, z>> = <<x, y, z>>
<1>1. /\ Len(<<x>>) = 1 /\ Len(<<y, z>>) = 2 /\ <<x>>[1] = x
      /\ <<y, z>>[1] = y /\ <<y, z>>[2] = z
  OBVIOUS
<1>2. <<x>> \in Seq({x, y, z}) /\ <<y, z>> \in Seq({x, y, z})
  OBVIOUS
<1>3. PICK s : s = <<x>> \o <<y, z>>
  OBVIOUS
<1>4. /\ s \in Seq({x, y, z}) /\ Len(s) = 1 + 2
      /\ \A i \in 1..(1 + 2) : s[i] = IF i <= 1 THEN <<x>>[i] ELSE <<y, z>>[i - 1]
  BY <1>1, <1>2, <1>3, ConcatProperties
<1>5. s[1] = x /\ s[2] = y /\ s[3] = z
  BY <1>1, <1>4
<1>6. s = <<x, y, z>>
  BY <1>4, <1>5
<1> QED
  BY <1>3, <1>6

\* A clip is played with its own title key and no other.
LEMMA PlayedOnlyWithItsKey ==
    ASSUME NEW j, NEW k, NEW p, NEW n
    PROVE  DecryptAlignedUnit(j, EncryptAlignedUnit(k, Clip(p, n))) = Clip(p, n) <=> j = k
<1> DEFINE video == Atom(<<"video", p, n>>)
           audio == Atom(<<"audio", p, n>>)
           J == BlockKey(j, Seed)
           K == BlockKey(k, Seed)
<1>1. PICK c1 : c1 = Encrypt(K, Xor(video, Iv0))
  OBVIOUS
<1>2. PICK c2 : c2 = Encrypt(K, Xor(audio, c1))
  OBVIOUS
<1>3. PICK d1 : d1 = Xor(Decrypt(J, c1), Iv0)
  OBVIOUS
<1>4. PICK d2 : d2 = Xor(Decrypt(J, c2), c1)
  OBVIOUS
<1>5. EncryptAlignedUnit(k, Clip(p, n)) = <<Seed, c1, c2>>
  <2>1. Clip(p, n)[1] = Seed /\ Tail(Clip(p, n)) = <<video, audio>>
    <3> HIDE DEF video, audio
    <3>1. <<Seed, video, audio>>[1] = Seed /\ Tail(<<Seed, video, audio>>) = <<video, audio>>
      OBVIOUS
    <3> QED
      BY <3>1 DEF Clip, video, audio
  <2>2. CbcEncrypt(K, Iv0, <<video, audio>>) = <<c1, c2>>
    BY <1>1, <1>2, CbcOfTwo
  <2>3. <<Seed>> \o <<c1, c2>> = <<Seed, c1, c2>>
    BY OneAndTwo
  <2> QED
    BY <2>1, <2>2, <2>3, Zenon DEF EncryptAlignedUnit
<1>6. DecryptAlignedUnit(j, <<Seed, c1, c2>>) = <<Seed, d1, d2>>
  <2>1. /\ Len(<<Seed, c1, c2>>) = UnitLen /\ <<Seed, c1, c2>>[1] = Seed
        /\ Tail(<<Seed, c1, c2>>) = <<c1, c2>>
    BY DEF UnitLen
  <2>2. CbcDecrypt(J, Iv0, <<c1, c2>>) = <<d1, d2>>
    <3> HIDE DEF J
    <3>1. Len(<<c1, c2>>) = 2 /\ <<c1, c2>>[1] = c1 /\ <<c1, c2>>[2] = c2 /\ 2 - 1 = 1
      OBVIOUS
    <3>2. CbcDecrypt(J, Iv0, <<c1, c2>>) =
             [i \in 1..2 |-> Xor(Decrypt(J, <<c1, c2>>[i]), IF i = 1 THEN Iv0 ELSE <<c1, c2>>[i - 1])]
      BY <3>1, Zenon DEF CbcDecrypt
    <3>3. \A i \in 1..2 : Xor(Decrypt(J, <<c1, c2>>[i]), IF i = 1 THEN Iv0 ELSE <<c1, c2>>[i - 1])
             = <<d1, d2>>[i]
      <4>1. \A i \in 1..2 : i = 1 \/ i = 2
        OBVIOUS
      <4> QED
        BY <1>3, <1>4, <3>1, <4>1
    <3>4. <<d1, d2>> = [i \in 1..2 |-> <<d1, d2>>[i]]
      OBVIOUS
    <3> QED
      BY <3>2, <3>3, <3>4
  <2>3. <<Seed>> \o <<d1, d2>> = <<Seed, d1, d2>>
    BY OneAndTwo
  <2> QED
    BY <2>1, <2>2, <2>3, Zenon DEF DecryptAlignedUnit
<1>7. Clip(p, n) = <<Seed, d1, d2>> <=> d1 = video /\ d2 = audio
  <2>1. Clip(p, n) = <<Seed, video, audio>>
    BY DEF Clip
  <2> HIDE DEF video, audio
  <2> QED
    BY <2>1
<1>8. /\ video = {VideoTerm(p, n)} /\ audio = {AudioTerm(p, n)} /\ Iv0 = {IvTerm}
      /\ VideoTerm(p, n) # IvTerm /\ VideoTerm(p, n)[1] = "atom"
      /\ AudioTerm(p, n)[1] = "atom" /\ IvTerm[1] = "atom"
  <2>1. <<"video", p, n>>[1] = "video" /\ <<"IV0_AACS">>[1] = "IV0_AACS"
    OBVIOUS
  <2>2. VideoTerm(p, n)[4] = <<"video", p, n>> /\ IvTerm[4] = <<"IV0_AACS">>
    BY DEF VideoTerm, IvTerm
  <2>3. VideoTerm(p, n) # IvTerm
    BY <2>1, <2>2
  <2> QED
    BY <2>3 DEF Iv0, Atom, VideoTerm, AudioTerm, IvTerm
<1> HIDE DEF video, audio, J, K
<1>9. PICK e1 : e1 = <<"E", K, Xor(video, Iv0), "">> /\ e1[1] = "E" /\ c1 = {e1}
  <2>1. Xor(video, Iv0) = {VideoTerm(p, n), IvTerm}
    BY <1>8, XorDisjoint
  <2>2. Inside("D", K, Xor(video, Iv0)) = {}
    BY <1>8, <2>1, TwoTermsAreOpaque
  <2>3. c1 = {<<"E", K, Xor(video, Iv0), "">>}
    BY <1>1, <2>2, EncryptOpaque
  <2>4. <<"E", K, Xor(video, Iv0), "">>[1] = "E"
    OBVIOUS
  <2> QED
    BY <2>3, <2>4
<1>10. c2 = {<<"E", K, Xor(audio, c1), "">>}
  <2>1. Xor(audio, c1) = {AudioTerm(p, n), e1} /\ AudioTerm(p, n) # e1
    <3>1. AudioTerm(p, n) # e1
      BY <1>8, <1>9
    <3>2. Xor({AudioTerm(p, n)}, {e1}) = {AudioTerm(p, n), e1}
      BY <3>1, XorDisjoint
    <3> QED
      BY <1>8, <1>9, <3>1, <3>2
  <2>2. Inside("D", K, Xor(audio, c1)) = {}
    BY <2>1, TwoTermsAreOpaque
  <2> QED
    BY <1>2, <2>2, EncryptOpaque
<1>11. CASE j = k
  <2>1. J = K
    BY <1>11 DEF J, K
  <2>2. Decrypt(J, c1) = Xor(video, Iv0) /\ Decrypt(J, c2) = Xor(audio, c1)
    BY <1>9, <1>10, <2>1, DecryptOpens
  <2>3. d1 = video /\ d2 = audio
    BY <1>3, <1>4, <2>2, XorTwice
  <2> QED
    BY <1>5, <1>6, <1>7, <1>11, <2>3
<1>12. CASE j # k
  <2>1. J # K
    BY <1>12, BlockKeysDiffer DEF J, K
  <2>2. PICK t : t = <<"D", J, c1, "">> /\ t[1] = "D"
    <3>1. <<"D", J, c1, "">>[1] = "D"
      OBVIOUS
    <3> QED
      BY <3>1
  <2>3. Decrypt(J, c1) = {t}
    BY <1>9, <2>1, <2>2, DecryptTellsNothing
  <2>4. IvTerm \in d1
    BY <1>3, <1>8, <2>2, <2>3 DEF Xor
  <2>5. d1 # video
    BY <1>8, <2>4
  <2> QED
    BY <1>5, <1>6, <1>7, <1>12, <2>5
<1> QED
  BY <1>11, <1>12
-----------------------------------------------------------------------------
(* The volume.  x is a context: the edition of the disc, the VUK of each    *)
(* edition, and the VUK the KEYDB gives each.  What is stated with x at hand *)
(* is about constants, so it holds of primed values as well.                *)

context == <<pressed, vuk_of, [d \in Discs |-> VukForDisc(d)]>>

BlockIn(w, v) ==
    IF \E e \in Discs : w[e] = v
      THEN LET e == CHOOSE e \in Discs : w[e] = v IN VukOf(e, e)
      ELSE Atom(<<"K", v>>)

\* The key an unwrap used, told by the history of where its VUK came from.
UnlockKey(x, by) ==
    IF by.how = "derived" THEN VukOf(by.edition, x[1]) ELSE BlockIn(x[2], x[3][by.edition])
UnitOf(x, e, n, by) ==
    [id |-> n, encrypted_title_key |-> EncKey(e, n),
     title_key |-> IF by = None THEN None ELSE Decrypt(UnlockKey(x, by), EncKey(e, n))]
VolumeOf(x, m, e, by) ==
    [mkb |-> m, directories |-> <<Directory>>,
     cps_units |-> [n \in 1..Units |-> UnitOf(x, e, n, by)]]
By(by) == by = None \/ by \in Unlockers

\* No two editions have the same VUK, so a value tells its edition.
Editions(pr, w) ==
    /\ pr \in Discs /\ w \in [Discs -> Values]
    /\ \A d, e \in Discs : d # e => w[d] # w[e]

\* A copy of a file on the disc: of the disc's own edition in AACS/, of any in
\* DUPLICATE/, and of Unit_Key_RO.inf either cut or padded.
Edition(pr, p, e) == e \in Discs /\ (p = "AACS" => e = pr)
MkbCopy(pr, p, c) ==
    c = ReadError \/ c = Damaged \/ \E e : Edition(pr, p, e) /\ c = [edition |-> e]
UnitKeyCopy(pr, p, c) ==
    c = ReadError \/ \E e, l, g :
        /\ Edition(pr, p, e) /\ l \in Nat /\ g \in Nat /\ (l = 0 \/ g = 0)
        /\ c = [edition |-> e, lost |-> l, gained |-> g]
DirOk(pr, d) ==
    /\ d = [p \in Places |-> d[p]]
    /\ \A p \in Places :
          /\ d[p] = [f \in Files |-> d[p][f]]
          /\ MkbCopy(pr, p, d[p]["MKB"]) /\ UnitKeyCopy(pr, p, d[p]["UnitKey"])

\* What was read is of the disc's edition, or AACS/ no longer has the file.
Read(pr, d, f, e) == e \in Discs /\ (e # pr => d["AACS"][f] = ReadError)
MkbOk(pr, d, b) == b = Damaged \/ \E e : Read(pr, d, "MKB", e) /\ b = [edition |-> e]
VolOk(x, d, vol, by) ==
    /\ By(by)
    /\ \E m, e : Read(x[1], d, "MKB", m) /\ Read(x[1], d, "UnitKey", e) /\ vol = VolumeOf(x, m, e, by)
CopyOk(x, c) ==
    By(c.unlocker) /\ \E e \in Discs, n \in 1..Units : c.unit = UnitOf(x, e, n, c.unlocker)

VolumeInv ==
    /\ Editions(pressed, vuk_of)
    /\ DirOk(pressed, dir)
    /\ mkb_bytes # None => MkbOk(pressed, dir, mkb_bytes)
    /\ volume # None => VolOk(context, dir, volume, unlocker)
    /\ copy # None => volume # None /\ CopyOk(context, copy)

LEMMA ContextIs ==
    /\ context[1] = pressed /\ context[2] = vuk_of
    /\ \A d \in Discs : context[3][d] = VukForDisc(d)
<1>1. PICK f : f = [d \in Discs |-> VukForDisc(d)]
  OBVIOUS
<1>2. <<pressed, vuk_of, f>>[1] = pressed /\ <<pressed, vuk_of, f>>[2] = vuk_of
      /\ <<pressed, vuk_of, f>>[3] = f
  OBVIOUS
<1>3. context = <<pressed, vuk_of, f>>
  BY <1>1 DEF context
<1> QED
  BY <1>1, <1>2, <1>3

LEMMA ContextKept ==
    ASSUME UNCHANGED <<pressed, vuk_of, vars>> PROVE context' = context
<1>1. \A d : VukForDisc(d)' = VukForDisc(d)
  BY DEF vars, VukForDisc
<1> QED
  BY <1>1 DEF context

LEMMA BlockIs == ASSUME NEW v PROVE VukBlock(v) = BlockIn(vuk_of, v)
  BY DEF VukBlock, BlockIn, VukOf

\* The block of a value is the VUK of an edition only if it is its value.
LEMMA BlockOfEdition ==
    ASSUME NEW pr, NEW w, Editions(pr, w), NEW v, NEW p \in Discs
    PROVE  BlockIn(w, v) = VukOf(p, p) <=> v = w[p]
<1>1. CASE \E e \in Discs : w[e] = v
  <2>1. PICK e \in Discs : w[e] = v /\ e = CHOOSE c \in Discs : w[c] = v
    BY <1>1
  <2>2. BlockIn(w, v) = VukOf(e, e)
    BY <1>1, <2>1 DEF BlockIn
  <2>3. VukOf(e, e) = VukOf(p, p) <=> e = p
    BY VuksDiffer
  <2> QED
    BY <2>1, <2>2, <2>3 DEF Editions
<1>2. CASE ~\E e \in Discs : w[e] = v
  <2>1. BlockIn(w, v) = {<<"atom", {}, {}, <<"K", v>>>>}
    BY <1>2 DEF BlockIn, Atom
  <2>2. BlockIn(w, v) # VukOf(p, p)
    BY <2>1, VukTerms, SMTT(30)
  <2> QED
    BY <1>2, <2>2
<1> QED
  BY <1>1, <1>2

LEMMA BlockIsVuk == ASSUME NEW w, NEW v \in Values PROVE BlockIn(w, v) \in Vuks
<1>1. CASE \E e \in Discs : w[e] = v
  <2>1. PICK e \in Discs : e = CHOOSE c \in Discs : w[c] = v
    BY <1>1
  <2>2. BlockIn(w, v) = DeriveVuk(MediaKey(e), VolumeId(e))
    BY <1>1, <2>1 DEF BlockIn, VukOf
  <2> QED
    BY <2>2 DEF Vuks
<1>2. CASE ~\E e \in Discs : w[e] = v
  BY <1>2 DEF BlockIn, Vuks
<1> QED
  BY <1>1, <1>2

\* A volume is not None.
LEMMA VolumeIsVolume ==
    ASSUME NEW x, NEW m \in Discs, NEW e \in Discs, NEW by, by # None => UnlockKey(x, by) \in Vuks
    PROVE  VolumeOf(x, m, e, by) # None
<1>1. ASSUME NEW n \in 1..Units PROVE UnitOf(x, e, n, by) \in CpsUnits
  <2>1. EncKey(e, n) \in EncryptedKeys
    BY DEF EncKey, EncryptedKeys, VukOf
  <2>2. (IF by = None THEN None ELSE Decrypt(UnlockKey(x, by), EncKey(e, n)))
           \in {None} \cup {Decrypt(k, c) : k \in Vuks, c \in EncryptedKeys}
    BY <2>1
  <2> QED
    BY <2>1, <2>2 DEF UnitOf, CpsUnits
<1>2. VolumeOf(x, m, e, by) \in Volumes
  BY <1>1 DEF VolumeOf, Volumes
<1> QED
  BY <1>2, VolumesAssumption
-----------------------------------------------------------------------------
(* Reading Unit_Key_RO.inf *)

KeysOf(e) == [n \in 1..Units |-> EncKey(e, n)]
CellSet == Nat \cup EncryptedKeys

LEMMA KeysAre == ASSUME NEW e \in Discs PROVE CellRun(CellSet, KeysOf(e), Units)
<1>1. \A n \in 1..Units : EncKey(e, n) \in CellSet
  BY DEF EncKey, EncryptedKeys, VukOf, CellSet
<1>2. KeysOf(e) \in [1..Units -> CellSet]
  BY <1>1 DEF KeysOf
<1>3. \A n \in Nat : \A f : f \in [1..n -> CellSet] => f \in Seq(CellSet) /\ Len(f) = n
  OBVIOUS
<1> QED
  BY <1>2, <1>3, UnitsAssumption DEF CellRun

LEMMA FileOfEdition ==
    ASSUME Editions(pressed, vuk_of), NEW e \in Discs
    PROVE  /\ UnitKeyRo(e) = MasteredFile(Directory, KeysOf(e))
           /\ CellRun(CellSet, UnitKeyRo(e), FileLen) /\ Mastered(UnitKeyRo(e), KeysOf(e))
<1>1. VukBlock(vuk_of[e]) = VukOf(e, e)
  BY BlockIs, BlockOfEdition
<1>2. [n \in 1..Units |-> Encrypt(VukBlock(vuk_of[e]), TitleKeyOf(e, n))] = KeysOf(e)
  BY <1>1 DEF KeysOf, EncKey
<1>3. UnitKeyRo(e) = MasteredFile(Directory, KeysOf(e))
  BY <1>2 DEF UnitKeyRo
<1>4. Nat \subseteq CellSet
  BY DEF CellSet
<1>5. UnitKeyRo(e) \in Seq(CellSet) /\ Mastered(UnitKeyRo(e), KeysOf(e))
  BY <1>3, <1>4, KeysAre, MasteredCells
<1> QED
  BY <1>3, <1>5 DEF CellRun, Mastered

LEMMA LengthIsNat == FileLen \in Nat
  BY StartIsAligned, AlignAssumption, UnitsAssumption DEF FileLen

\* Read whole, the file of an edition gives its keys.
LEMMA WholeIsRead ==
    ASSUME Editions(pressed, vuk_of), NEW e \in Discs
    PROVE  ParseUnitKeyFile(UnitKeyRo(e)).keys = KeysOf(e)
<1>1. PICK file : file = UnitKeyRo(e)
  OBVIOUS
<1>2. CellRun(CellSet, file, FileLen) /\ Mastered(file, KeysOf(e))
  BY <1>1, FileOfEdition
<1>3. PICK n \in Nat : n = FileLen
  BY LengthIsNat
<1>4. CellRun(CellSet, file, n) /\ n >= FileLen
  BY <1>2, <1>3
<1>5. \A i \in 1..n : i <= FileLen => file[i] = file[i]
  OBVIOUS
<1> QED
  BY <1>1, <1>2, <1>3, <1>4, <1>5, KeysAre, FileParse

\* Read from a copy, it gives them or is refused.
LEMMA CopyIsRead ==
    ASSUME Editions(pressed, vuk_of), NEW e \in Discs, NEW l \in Nat, NEW g \in Nat, l = 0 \/ g = 0,
           NEW c, c = [edition |-> e, lost |-> l, gained |-> g],
           ParseUnitKeyFile(UnitKeyBytes(c)).error = "none"
    PROVE  /\ ParseUnitKeyFile(UnitKeyBytes(c)).directories = <<Directory>>
           /\ ParseUnitKeyFile(UnitKeyBytes(c)).keys = KeysOf(e)
<1>1. PICK bytes, cut, b :
         /\ bytes = UnitKeyRo(e) /\ cut = SubSeq(bytes, 1, Len(bytes) - l)
         /\ b = UnitKeyBytes(c) /\ Cat(b, cut, Zeros(g))
  BY DEF UnitKeyBytes, Cat
<1>2. CellRun(CellSet, bytes, FileLen) /\ Mastered(bytes, KeysOf(e))
  BY <1>1, FileOfEdition
<1>3. PICK N \in Nat, k \in Nat :
         N = FileLen /\ k <= N /\ (l = 0 => k = N) /\ k = IF l <= N THEN N - l ELSE 0
  BY LengthIsNat
<1>4. CellRun(CellSet, cut, k) /\ \A i \in 1..k : cut[i] = bytes[i]
  <2>1. Len(bytes) = N /\ bytes \in Seq(CellSet)
    BY <1>2, <1>3 DEF CellRun
  <2>2. SubSeq(bytes, 1, N - l) = [i \in 1..((N - l) - 1 + 1) |-> bytes[i + 1 - 1]]
    BY <2>1
  <2>3. 1..((N - l) - 1 + 1) = 1..k /\ \A i \in 1..k : i + 1 - 1 = i /\ i \in 1..N
    BY <1>3
  <2>4. cut = [i \in 1..k |-> bytes[i]]
    BY <1>1, <2>1, <2>2, <2>3
  <2>5. \A i \in 1..N : bytes[i] \in CellSet
    BY <2>1, ElementOfSeq
  <2>6. cut \in [1..k -> CellSet]
    BY <2>3, <2>4, <2>5
  <2>7. \A n \in Nat : \A f : f \in [1..n -> CellSet] => f \in Seq(CellSet) /\ Len(f) = n
    OBVIOUS
  <2> QED
    BY <2>4, <2>6, <2>7 DEF CellRun
<1>5. CellRun(CellSet, Zeros(g), g)
  <2>1. Zeros(g) \in Seq(CellSet) /\ Len(Zeros(g)) = g
    BY DEF Zeros, CellSet
  <2> QED
    BY <2>1 DEF CellRun
<1>6. CellRun(CellSet, b, k + g) /\ Found(b, 0, cut, k)
  BY <1>1, <1>4, <1>5, Cells
<1>7. PICK n \in Nat : n = k + g
  OBVIOUS
<1>8. ASSUME NEW i \in 1..n, i <= FileLen PROVE b[i] = bytes[i]
  <2>1. i \in 1..k /\ 0 + i = i
    BY <1>3, <1>7, <1>8
  <2>2. b[0 + i] = cut[i]
    BY <1>6, <2>1 DEF Found
  <2> QED
    BY <1>4, <2>1, <2>2
<1>9. /\ ParseUnitKeyFile(b).error = "none" =>
            /\ ParseUnitKeyFile(b).directories = <<Directory>>
            /\ ParseUnitKeyFile(b).keys = KeysOf(e)
  <2>1. CellRun(CellSet, b, n) /\ CellRun(CellSet, KeysOf(e), Units)
    BY <1>6, <1>7, KeysAre
  <2> QED
    BY <1>2, <1>8, <2>1, FileParse
<1> QED
  BY <1>1, <1>9
-----------------------------------------------------------------------------
(* Every step keeps the invariant *)

LEMMA VolumeInit1 == VolumeInit => VolumeInv
<1> SUFFICES ASSUME VolumeInit PROVE VolumeInv
  OBVIOUS
<1>1. Editions(pressed, vuk_of)
  BY DEF VolumeInit, Editions
<1>2. PICK d \in Discs :
         dir = [p \in Places |-> [f \in Files |-> Whole(f, IF p = "AACS" THEN pressed ELSE d)]]
  BY DEF VolumeInit
<1>3. DirOk(pressed, dir)
  <2>1. ASSUME NEW p \in Places
        PROVE  \E e : /\ Edition(pressed, p, e)
                      /\ dir[p] = [f \in Files |-> Whole(f, e)]
    BY <1>1, <1>2 DEF Editions, Edition
  <2>2. ASSUME NEW p \in Places
        PROVE  /\ dir[p] = [f \in Files |-> dir[p][f]]
               /\ MkbCopy(pressed, p, dir[p]["MKB"]) /\ UnitKeyCopy(pressed, p, dir[p]["UnitKey"])
    <3>1. PICK e : Edition(pressed, p, e) /\ dir[p] = [f \in Files |-> Whole(f, e)]
      BY <2>1
    <3>2. /\ dir[p]["MKB"] = [edition |-> e]
          /\ dir[p]["UnitKey"] = [edition |-> e, lost |-> 0, gained |-> 0]
      BY <3>1 DEF Files, Whole
    <3>3. 0 \in Nat
      OBVIOUS
    <3> QED
      BY <3>1, <3>2, <3>3 DEF MkbCopy, UnitKeyCopy
  <2> QED
    BY <1>2, <2>2 DEF DirOk
<1> QED
  BY <1>1, <1>3 DEF VolumeInit, VolumeInv

\* read_aacs_file returns the disc's own copy unless AACS/ has none.
LEMMA MkbIsRead ==
    ASSUME VolumeInv, ReadAacsFile("MKB") # ReadError
    PROVE  MkbOk(pressed, dir, ReadAacsFile("MKB"))
<1>1. \A p \in Places : MkbCopy(pressed, p, dir[p]["MKB"])
  BY DEF VolumeInv, DirOk
<1>2. "AACS" \in Places /\ "DUPLICATE" \in Places
  BY DEF Places
<1>3. CASE dir["AACS"]["MKB"] # ReadError
  <2>1. ReadAacsFile("MKB") = dir["AACS"]["MKB"]
    BY <1>3 DEF ReadAacsFile
  <2> QED
    BY <1>1, <1>2, <1>3, <2>1 DEF MkbCopy, MkbOk, Edition, Read
<1>4. CASE dir["AACS"]["MKB"] = ReadError
  <2>1. ReadAacsFile("MKB") = dir["DUPLICATE"]["MKB"]
    BY <1>4 DEF ReadAacsFile
  <2> QED
    BY <1>1, <1>2, <1>4, <2>1 DEF MkbCopy, MkbOk, Edition, Read
<1> QED
  BY <1>3, <1>4

LEMMA UnitKeyIsRead ==
    ASSUME VolumeInv, ReadAacsFile("UnitKey") # ReadError
    PROVE  \E e, l, g :
              /\ Read(pressed, dir, "UnitKey", e) /\ l \in Nat /\ g \in Nat /\ (l = 0 \/ g = 0)
              /\ ReadAacsFile("UnitKey") = [edition |-> e, lost |-> l, gained |-> g]
<1>1. \A p \in Places : UnitKeyCopy(pressed, p, dir[p]["UnitKey"])
  BY DEF VolumeInv, DirOk
<1>2. "AACS" \in Places /\ "DUPLICATE" \in Places
  BY DEF Places
<1>3. CASE dir["AACS"]["UnitKey"] # ReadError
  <2>1. ReadAacsFile("UnitKey") = dir["AACS"]["UnitKey"]
    BY <1>3 DEF ReadAacsFile
  <2> QED
    BY <1>1, <1>2, <1>3, <2>1 DEF UnitKeyCopy, Edition, Read
<1>4. CASE dir["AACS"]["UnitKey"] = ReadError
  <2>1. ReadAacsFile("UnitKey") = dir["DUPLICATE"]["UnitKey"]
    BY <1>4 DEF ReadAacsFile
  <2> QED
    BY <1>1, <1>2, <1>4, <2>1 DEF UnitKeyCopy, Edition, Read
<1> QED
  BY <1>3, <1>4

LEMMA ReadMkbKeeps == ASSUME VolumeInv, ReadMkb, UNCHANGED vars PROVE VolumeInv'
<1>1. context' = context
  BY ContextKept DEF ReadMkb
<1>2. MkbOk(pressed, dir, mkb_bytes')
  BY MkbIsRead DEF ReadMkb
<1> QED
  BY <1>1, <1>2 DEF VolumeInv, ReadMkb

LEMMA ReadUnitKeyRoKeeps == ASSUME VolumeInv, ReadUnitKeyRo, UNCHANGED vars PROVE VolumeInv'
<1>1. context' = context
  BY ContextKept DEF ReadUnitKeyRo
<1>2. PICK read, file :
         /\ read = ReadAacsFile("UnitKey") /\ file = ParseUnitKeyFile(UnitKeyBytes(read))
         /\ IF read = ReadError \/ mkb_bytes = Damaged \/ file.error # "none"
              THEN UNCHANGED <<volume, unlocker>>
              ELSE volume' = OpenedFrom(mkb_bytes, file) /\ unlocker' = None
  BY DEF ReadUnitKeyRo
<1>3. mkb_bytes # None /\ mkb_bytes' = None /\ UNCHANGED <<pressed, vuk_of, dir, copy>>
  BY DEF ReadUnitKeyRo
<1>4. CASE UNCHANGED <<volume, unlocker>>
  BY <1>1, <1>3, <1>4 DEF VolumeInv
<1>5. CASE /\ read # ReadError /\ mkb_bytes # Damaged /\ file.error = "none"
           /\ volume' = OpenedFrom(mkb_bytes, file) /\ unlocker' = None
  <2>1. PICK e, l, g :
           /\ Read(pressed, dir, "UnitKey", e) /\ l \in Nat /\ g \in Nat /\ (l = 0 \/ g = 0)
           /\ read = [edition |-> e, lost |-> l, gained |-> g]
    BY <1>2, <1>5, UnitKeyIsRead
  <2>2. file.directories = <<Directory>> /\ file.keys = KeysOf(e)
    BY <1>2, <1>5, <2>1, CopyIsRead DEF VolumeInv, Read
  <2>3. PICK m : Read(pressed, dir, "MKB", m) /\ mkb_bytes = [edition |-> m]
    BY <1>3, <1>5 DEF VolumeInv, MkbOk
  <2>4. OpenedFrom(mkb_bytes, file) = VolumeOf(context, m, e, None)
    <3>1. \A n \in 1..Units : UnitOf(context, e, n, None) =
             [id |-> n, encrypted_title_key |-> KeysOf(e)[n], title_key |-> None]
      BY DEF UnitOf, KeysOf
    <3>2. DOMAIN KeysOf(e) = 1..Units
      BY DEF KeysOf
    <3> QED
      BY <2>2, <2>3, <3>1, <3>2 DEF OpenedFrom, VolumeOf
  <2>5. volume' = VolumeOf(context, m, e, None)
    BY <1>5, <2>4
  <2>6. volume' # None
    BY <2>1, <2>3, <2>5, VolumeIsVolume DEF Read
  <2>7. VolOk(context, dir, volume', unlocker')
    BY <1>5, <2>1, <2>3, <2>5, ContextIs DEF VolOk, By
  <2> QED
    BY <1>1, <1>3, <2>6, <2>7 DEF VolumeInv
<1> QED
  BY <1>2, <1>4, <1>5

\* An unwrap with the key of an unlocker leaves the volume of that unlocker.
LEMMA Unwrapped ==
    ASSUME NEW m, NEW e, NEW old, NEW by \in Unlockers,
           volume = VolumeOf(context, m, e, old)
    PROVE  UnwrapTitleKeys(UnlockKey(context, by)) = VolumeOf(context, m, e, by)
<1>1. PICK k : k = UnlockKey(context, by)
  OBVIOUS
<1>2. by # None
  BY VolumesAssumption
<1>3. /\ volume.mkb = m /\ volume.directories = <<Directory>>
      /\ volume.cps_units = [n \in 1..Units |-> UnitOf(context, e, n, old)]
  BY DEF VolumeOf
<1>4. ASSUME NEW n \in 1..Units
      PROVE  [volume.cps_units[n] EXCEPT !.title_key =
                 Decrypt(k, volume.cps_units[n].encrypted_title_key)]
             = UnitOf(context, e, n, by)
  <2>1. volume.cps_units[n] = UnitOf(context, e, n, old)
    BY <1>3
  <2>2. UnitOf(context, e, n, old).encrypted_title_key = EncKey(e, n)
    BY DEF UnitOf
  <2>3. [UnitOf(context, e, n, old) EXCEPT !.title_key = Decrypt(k, EncKey(e, n))]
           = [id |-> n, encrypted_title_key |-> EncKey(e, n), title_key |-> Decrypt(k, EncKey(e, n))]
    BY DEF UnitOf
  <2>4. UnitOf(context, e, n, by) =
           [id |-> n, encrypted_title_key |-> EncKey(e, n), title_key |-> Decrypt(k, EncKey(e, n))]
    BY <1>1, <1>2 DEF UnitOf
  <2> QED
    BY <2>1, <2>2, <2>3, <2>4
<1>5. [n \in 1..Units |-> [volume.cps_units[n] EXCEPT !.title_key =
          Decrypt(k, volume.cps_units[n].encrypted_title_key)]]
         = [n \in 1..Units |-> UnitOf(context, e, n, by)]
  BY <1>4
<1>6. DOMAIN volume.cps_units = 1..Units
  BY <1>3
<1>7. UnwrapTitleKeys(k) =
         [volume EXCEPT !.cps_units =
             [n \in 1..Units |-> [volume.cps_units[n] EXCEPT !.title_key =
                Decrypt(k, volume.cps_units[n].encrypted_title_key)]]]
  BY <1>6 DEF UnwrapTitleKeys
<1>8. UnwrapTitleKeys(k) =
         [volume EXCEPT !.cps_units = [n \in 1..Units |-> UnitOf(context, e, n, by)]]
  BY <1>5, <1>7
<1>9. PICK u : u = [n \in 1..Units |-> UnitOf(context, e, n, by)]
  OBVIOUS
<1>10. [volume EXCEPT !.cps_units = u] =
          [mkb |-> m, directories |-> <<Directory>>, cps_units |-> u]
  <2>1. PICK old_units : volume = [mkb |-> m, directories |-> <<Directory>>, cps_units |-> old_units]
    BY DEF VolumeOf
  <2> QED
    BY <2>1
<1> QED
  BY <1>1, <1>8, <1>9, <1>10 DEF VolumeOf

\* Whatever unwraps the volume keeps the invariant, if its key is known.
LEMMA UnlockKeeps ==
    ASSUME VolumeInv, volume # None, mkb_bytes = None, NEW by \in Unlockers,
           UnlockKey(context, by) \in Vuks,
           volume' = UnwrapTitleKeys(UnlockKey(context, by)), unlocker' = by,
           UNCHANGED <<pressed, vuk_of, dir, mkb_bytes, copy>>, UNCHANGED vars
    PROVE  VolumeInv'
<1>1. context' = context
  BY ContextKept
<1>2. PICK m, e : /\ Read(pressed, dir, "MKB", m) /\ Read(pressed, dir, "UnitKey", e)
                  /\ volume = VolumeOf(context, m, e, unlocker)
  BY ContextIs DEF VolumeInv, VolOk
<1>3. volume' = VolumeOf(context, m, e, by)
  BY <1>2, Unwrapped
<1>4. volume' # None
  BY <1>2, <1>3, VolumeIsVolume DEF Read
<1>5. VolOk(context, dir, volume', unlocker')
  BY <1>2, <1>3, ContextIs DEF VolOk, By
<1> QED
  BY <1>1, <1>4, <1>5 DEF VolumeInv

LEMMA LookupType ==
    ASSUME IInv, NEW d \in Discs PROVE VukForDisc(d) \in Values \cup {None}
<1>1. "VUK" \in Fields
  BY LeadersAssumption
<1>2. by_disc_id[d] \in Values \cup {None} /\ disc_records[d] \in DiscRecords \cup {None}
  BY DEF IInv, TypeOK
<1>3. disc_records[d] # None => disc_records[d].fields["VUK"] \in Values \cup {None}
  BY <1>1, <1>2 DEF DiscRecords
<1> QED
  BY <1>2, <1>3 DEF VukForDisc

LEMMA UnlockByKeyDbKeeps ==
    ASSUME VolumeInv, IInv, NEW p \in Places, UnlockByKeyDb(p), UNCHANGED vars PROVE VolumeInv'
<1>1. PICK id : /\ id = DiscId(dir[p]["UnitKey"]) /\ id # None /\ VukForDisc(id) # None
                /\ volume' = UnwrapTitleKeys(VukBlock(VukForDisc(id)))
                /\ unlocker' = [how |-> "keydb", edition |-> id]
  BY DEF UnlockByKeyDb
<1>2. id \in Discs
  <2>1. UnitKeyCopy(pressed, p, dir[p]["UnitKey"])
    BY DEF VolumeInv, DirOk
  <2>2. PICK e, l, g : e \in Discs /\ dir[p]["UnitKey"] = [edition |-> e, lost |-> l, gained |-> g]
    BY <2>1 DEF UnlockByKeyDb, UnitKeyCopy, Edition
  <2>3. dir[p]["UnitKey"].edition = e
    BY <2>2
  <2> QED
    BY <1>1, <2>2, <2>3 DEF DiscId
<1>3. PICK by : by = [how |-> "keydb", edition |-> id]
  OBVIOUS
<1>4. by \in Unlockers /\ by.how = "keydb" /\ by.edition = id
  BY <1>2, <1>3 DEF Unlockers
<1>5. UnlockKey(context, by) = BlockIn(vuk_of, VukForDisc(id))
  BY <1>2, <1>4, ContextIs DEF UnlockKey
<1>6. UnlockKey(context, by) \in Vuks
  BY <1>1, <1>2, <1>5, LookupType, BlockIsVuk
<1>7. volume' = UnwrapTitleKeys(UnlockKey(context, by))
  BY <1>1, <1>5, BlockIs
<1> QED
  BY <1>1, <1>3, <1>4, <1>6, <1>7, UnlockKeeps DEF UnlockByKeyDb

LEMMA UnlockByDeviceKeyKeeps ==
    ASSUME VolumeInv, UnlockByDeviceKey, UNCHANGED vars PROVE VolumeInv'
<1>1. PICK m \in Discs : volume.mkb = m
  <2>1. PICK m, e : m \in Discs /\ volume = VolumeOf(context, m, e, unlocker)
    BY DEF VolumeInv, VolOk, Read, UnlockByDeviceKey
  <2> QED
    BY <2>1 DEF VolumeOf
<1>2. PICK by : by = [how |-> "derived", edition |-> m]
  OBVIOUS
<1>3. by \in Unlockers /\ by.how = "derived" /\ by.edition = m
  BY <1>2 DEF Unlockers
<1>4. UnlockKey(context, by) = VukOf(m, pressed)
  BY <1>3, ContextIs DEF UnlockKey
<1>5. VukOf(m, pressed) \in Vuks
  BY DEF VolumeInv, Editions, Vuks, VukOf
<1>6. volume' = UnwrapTitleKeys(VukOf(m, pressed)) /\ unlocker' = by
  BY <1>1, <1>2 DEF UnlockByDeviceKey, VukOf
<1> QED
  BY <1>3, <1>4, <1>5, <1>6, UnlockKeeps DEF UnlockByDeviceKey

LEMMA TakeCopyKeeps ==
    ASSUME VolumeInv, NEW n \in 1..Units, TakeCopy(n), UNCHANGED vars PROVE VolumeInv'
<1>1. context' = context
  BY ContextKept DEF TakeCopy
<1>2. PICK m, e : e \in Discs /\ By(unlocker) /\ volume = VolumeOf(context, m, e, unlocker)
  BY DEF VolumeInv, VolOk, Read, TakeCopy
<1>3. volume.cps_units[n] = UnitOf(context, e, n, unlocker)
  BY <1>2 DEF VolumeOf
<1>4. copy'.unit = UnitOf(context, e, n, unlocker) /\ copy'.unlocker = unlocker
  BY <1>3 DEF TakeCopy
<1>5. CopyOk(context, copy')
  BY <1>2, <1>4 DEF CopyOk
<1> QED
  BY <1>1, <1>5 DEF VolumeInv, TakeCopy

LEMMA HarmKeeps ==
    ASSUME VolumeInv, NEW p \in Places, NEW f \in Files, Harm(p, f), UNCHANGED vars PROVE VolumeInv'
<1>1. context' = context
  BY ContextKept DEF Harm
<1>2. PICK c : c \in Worse(f, dir[p][f]) /\ dir' = [dir EXCEPT ![p][f] = c]
  BY DEF Harm
<1>3. PICK e : e \in Discs /\ dir[p][f] = Whole(f, e)
  <2>1. <<p, f>> \in Places \X Files /\ <<p, f>>[1] = p /\ <<p, f>>[2] = f
    OBVIOUS
  <2>2. dir[p][f] \in {Whole(f, e) : e \in Discs}
    BY <2>1 DEF Harm, Harmed
  <2> QED
    BY <2>2
<1>4. Whole(f, e) # None
  <2>1. Whole(f, e) \in [edition : Discs] \cup [edition : Discs, lost : Nat, gained : Nat]
    BY <1>3 DEF Whole, Files
  <2> QED
    BY <2>1, VolumesAssumption
<1>5. DirOk(pressed, dir)
  BY DEF VolumeInv
<1>6. /\ dir' = [q \in Places |-> dir'[q]]
      /\ \A q \in Places : dir'[q] = [h \in Files |-> dir'[q][h]]
      /\ \A q \in Places, h \in Files : dir'[q][h] = IF q = p /\ h = f THEN c ELSE dir[q][h]
  BY <1>2, <1>5 DEF DirOk
<1>7. f = "MKB" => MkbCopy(pressed, p, c)
  BY <1>2 DEF Worse, MkbCopy
<1>8. ASSUME f = "UnitKey" PROVE UnitKeyCopy(pressed, p, c)
  <2>1. UnitKeyCopy(pressed, p, dir[p][f])
    BY <1>5, <1>8 DEF DirOk
  <2>2. PICK a, l, g :
           /\ Edition(pressed, p, a) /\ l \in Nat /\ g \in Nat
           /\ dir[p][f] = [edition |-> a, lost |-> l, gained |-> g]
    BY <1>3, <1>4, <2>1 DEF UnitKeyCopy, ReadError
  <2>3. l = 0 /\ g = 0
    <3>1. [edition |-> a, lost |-> l, gained |-> g] = [edition |-> e, lost |-> 0, gained |-> 0]
      BY <1>3, <1>8, <2>2 DEF Whole
    <3>2. [edition |-> a, lost |-> l, gained |-> g].lost = 0
          /\ [edition |-> a, lost |-> l, gained |-> g].gained = 0
      BY <3>1
    <3> QED
      BY <3>2
  <2>4. \/ c = ReadError
        \/ \E n \in CutLens : c = [dir[p][f] EXCEPT !.lost = n]
        \/ \E n \in PadLens : c = [dir[p][f] EXCEPT !.gained = n]
    BY <1>2, <1>8 DEF Worse
  <2>5. \/ c = ReadError
        \/ \E n \in Nat : c = [edition |-> a, lost |-> n, gained |-> 0]
        \/ \E n \in Nat : c = [edition |-> a, lost |-> 0, gained |-> n]
    BY <2>2, <2>3, <2>4, WearAssumption
  <2>6. 0 \in Nat
    OBVIOUS
  <2> QED
    BY <2>2, <2>5, <2>6 DEF UnitKeyCopy
<1>9. "MKB" \in Files /\ "UnitKey" \in Files /\ "AACS" \in Places
  BY DEF Files, Places
<1>10. DirOk(pressed, dir')
  <2>1. ASSUME NEW q \in Places
        PROVE  MkbCopy(pressed, q, dir'[q]["MKB"]) /\ UnitKeyCopy(pressed, q, dir'[q]["UnitKey"])
    <3>1. MkbCopy(pressed, q, dir[q]["MKB"]) /\ UnitKeyCopy(pressed, q, dir[q]["UnitKey"])
      BY <1>5 DEF DirOk
    <3>2. MkbCopy(pressed, q, dir'[q]["MKB"])
      BY <1>6, <1>7, <1>9, <3>1
    <3>3. UnitKeyCopy(pressed, q, dir'[q]["UnitKey"])
      BY <1>6, <1>8, <1>9, <3>1
    <3> QED
      BY <3>2, <3>3
  <2> QED
    BY <1>6, <2>1 DEF DirOk
<1>11. \A h \in Files : dir["AACS"][h] = ReadError => dir'["AACS"][h] = ReadError
  BY <1>3, <1>4, <1>6, <1>9 DEF ReadError
<1>12. \A h \in Files : \A a : Read(pressed, dir, h, a) => Read(pressed, dir', h, a)
  BY <1>11 DEF Read
<1>13. \A b : MkbOk(pressed, dir, b) => MkbOk(pressed, dir', b)
  BY <1>9, <1>12 DEF MkbOk
<1>14. \A vol, by : VolOk(context, dir, vol, by) => VolOk(context, dir', vol, by)
  BY <1>9, <1>12, ContextIs DEF VolOk
<1> QED
  BY <1>1, <1>10, <1>13, <1>14 DEF VolumeInv, Harm

LEMMA VolumeStep ==
    ASSUME VolumeInv, IInv, VolumeNext, UNCHANGED vars PROVE VolumeInv'
<1>1. CASE \E p \in Places : UnlockByKeyDb(p) \/ \E f \in Files : Harm(p, f)
  BY <1>1, UnlockByKeyDbKeeps, HarmKeeps
<1>2. CASE \E n \in 1..Units : TakeCopy(n)
  BY <1>2, TakeCopyKeeps
<1> QED
  BY <1>1, <1>2, ReadMkbKeeps, ReadUnitKeyRoKeeps, UnlockByDeviceKeyKeeps DEF VolumeNext

\* While the KEYDB is scanned there is no volume yet, and no copy of one.
LEMMA ScanStep ==
    ASSUME VolumeInv, ScanNext PROVE VolumeInv'
<1>1. UNCHANGED volumeVars /\ volume = None /\ mkb_bytes = None /\ copy = None
  BY DEF ScanNext, VolumeInv
<1> QED
  BY <1>1 DEF volumeVars, VolumeInv

DiscInv == IInv /\ VolumeInv

LEMMA DiscInvInit == DiscInit => DiscInv
  BY InitIInv, VolumeInit1 DEF DiscInit, DiscInv

LEMMA DiscInvStep == DiscInv /\ [DiscNext]_discVars => DiscInv'
<1> SUFFICES ASSUME DiscInv, [DiscNext]_discVars PROVE DiscInv'
  OBVIOUS
<1>1. ASSUME UNCHANGED <<vars, volumeVars>> PROVE DiscInv'
  <2>1. IInv'
    <3>1. [Next]_vars
      BY <1>1
    <3> QED
      BY <3>1, NextIInv DEF DiscInv
  <2>2. context' = context
    BY <1>1, ContextKept DEF volumeVars
  <2>3. VolumeInv'
    BY <1>1, <2>2 DEF volumeVars, VolumeInv, DiscInv
  <2> QED
    BY <2>1, <2>3 DEF DiscInv
<1>2. CASE ScanNext
  <2>1. IInv'
    BY <1>2, NextIInv DEF ScanNext, DiscInv
  <2> QED
    BY <1>2, <2>1, ScanStep DEF DiscInv
<1>3. CASE PlayNext
  <2>1. IInv'
    BY <1>3, NextIInv DEF PlayNext, DiscInv
  <2>2. VolumeInv'
    BY <1>3, VolumeStep DEF PlayNext, DiscInv
  <2> QED
    BY <2>1, <2>2 DEF DiscInv
<1>4. UNCHANGED discVars => UNCHANGED <<vars, volumeVars>>
  BY DEF discVars
<1> QED
  BY <1>1, <1>2, <1>3, <1>4 DEF DiscNext

LEMMA DiscInvariance == DiscSpec => []DiscInv
  BY DiscInvInit, DiscInvStep, PTL DEF DiscSpec
-----------------------------------------------------------------------------
(* What follows from the invariant *)

LEMMA MasteredFollows == ASSUME DiscInv PROVE OpenedVolumeIsMastered
<1> SUFFICES ASSUME volume # None
             PROVE  \E e \in Discs :
                /\ [n \in DOMAIN volume.cps_units |-> volume.cps_units[n].encrypted_title_key]
                      = ParseUnitKeyFile(UnitKeyRo(e)).keys
                /\ Len(volume.cps_units) = Units
                /\ volume.directories[1].titles = <<Units, Units>>
                /\ e # pressed => dir["AACS"]["UnitKey"] = ReadError
                /\ volume.mkb # pressed => dir["AACS"]["MKB"] = ReadError
  BY DEF OpenedVolumeIsMastered
<1>1. PICK m, e : /\ Read(pressed, dir, "MKB", m) /\ Read(pressed, dir, "UnitKey", e)
                  /\ volume = VolumeOf(context, m, e, unlocker)
  BY ContextIs DEF DiscInv, VolumeInv, VolOk
<1>2. /\ volume.mkb = m /\ volume.directories = <<Directory>>
      /\ volume.cps_units = [n \in 1..Units |-> UnitOf(context, e, n, unlocker)]
  BY <1>1 DEF VolumeOf
<1>3. \A n \in 1..Units : volume.cps_units[n].encrypted_title_key = EncKey(e, n)
  BY <1>2 DEF UnitOf
<1>4. DOMAIN volume.cps_units = 1..Units /\ Len(volume.cps_units) = Units
  BY <1>2, UnitsAssumption
<1>5. [n \in DOMAIN volume.cps_units |-> volume.cps_units[n].encrypted_title_key] = KeysOf(e)
  BY <1>3, <1>4 DEF KeysOf
<1>6. ParseUnitKeyFile(UnitKeyRo(e)).keys = KeysOf(e)
  BY <1>1, WholeIsRead DEF DiscInv, VolumeInv, Read
<1>7. volume.directories[1].titles = <<Units, Units>>
  BY <1>2 DEF Directory
<1> QED
  BY <1>1, <1>2, <1>4, <1>5, <1>6, <1>7 DEF Read

\* The unlock was right exactly when its key is the VUK of the disc's edition.
LEMMA RightUnlock ==
    ASSUME DiscInv, NEW by \in Unlockers
    PROVE  UnlockedRight(by) <=> UnlockKey(context, by) = VukOf(pressed, pressed)
<1>1. by # None /\ by.edition \in Discs
  BY VolumesAssumption DEF Unlockers
<1>2. CASE by.how = "derived"
  <2>1. UnlockKey(context, by) = VukOf(by.edition, pressed)
    BY <1>2, ContextIs DEF UnlockKey
  <2> QED
    BY <1>1, <1>2, <2>1, VuksDiffer DEF UnlockedRight
<1>3. CASE by.how # "derived"
  <2>1. UnlockKey(context, by) = BlockIn(vuk_of, VukForDisc(by.edition))
    BY <1>1, <1>3, ContextIs DEF UnlockKey
  <2>2. VukForDisc(by.edition) = VukInFile(by.edition)
    BY <1>1, LookupIs DEF DiscInv, LookupFindsTheVuk, VukInFile
  <2> QED
    BY <1>1, <1>3, <2>1, <2>2, BlockOfEdition
    DEF UnlockedRight, DiscInv, VolumeInv, Editions
<1> QED
  BY <1>2, <1>3

LEMMA CopyFollows == ASSUME DiscInv PROVE CopyPlaysAsUnlocked
<1> SUFFICES ASSUME copy # None, NEW n \in 1..Units
             PROVE  DecryptUnit(copy.unit, ClipOnDisc(n)) = Clip(pressed, n)
                    <=> /\ UnlockedRight(copy.unlocker)
                        /\ copy.unit.id = n
                        /\ copy.unit.encrypted_title_key =
                              Encrypt(VukBlock(vuk_of[pressed]), TitleKeyOf(pressed, n))
  BY DEF CopyPlaysAsUnlocked
<1>1. PICK e \in Discs, m \in 1..Units : copy.unit = UnitOf(context, e, m, copy.unlocker)
  BY DEF DiscInv, VolumeInv, CopyOk
<1>2. PICK by : by = copy.unlocker /\ By(by)
  BY DEF DiscInv, VolumeInv, CopyOk
<1>3. PICK key : key = IF by = None THEN None ELSE Decrypt(UnlockKey(context, by), EncKey(e, m))
  OBVIOUS
<1>4. copy.unit.id = m /\ copy.unit.encrypted_title_key = EncKey(e, m)
      /\ copy.unit.title_key = key
  BY <1>1, <1>2, <1>3 DEF UnitOf
<1>5. pressed \in Discs /\ Encrypt(VukBlock(vuk_of[pressed]), TitleKeyOf(pressed, n)) = EncKey(pressed, n)
  BY BlockIs, BlockOfEdition DEF DiscInv, VolumeInv, Editions, EncKey
<1>6. EncKey(e, m) = EncKey(pressed, n) <=> e = pressed /\ m = n
  BY EncKeysDiffer
<1>7. DecryptUnit(copy.unit, ClipOnDisc(n)) = Clip(pressed, n) <=> key = TitleKeyOf(pressed, n)
  <2>1. TitleKeyOf(pressed, n) # None
    BY <1>5, VolumesAssumption
  <2>2. CASE key = None
    <3>1. DecryptUnit(copy.unit, ClipOnDisc(n)) = <<"InvalidValue">>
      BY <1>4, <2>2 DEF DecryptUnit
    <3>2. Len(<<"InvalidValue">>) = 1 /\ Len(Clip(pressed, n)) = 3
      BY DEF Clip
    <3> QED
      BY <2>1, <2>2, <3>1, <3>2
  <2>3. CASE key # None
    <3>1. DecryptUnit(copy.unit, ClipOnDisc(n)) = DecryptAlignedUnit(key, ClipOnDisc(n))
      BY <1>4, <2>3 DEF DecryptUnit
    <3> QED
      BY <3>1, PlayedOnlyWithItsKey DEF ClipOnDisc
  <2> QED
    BY <2>2, <2>3
<1>8. key = TitleKeyOf(pressed, n) <=> UnlockedRight(by) /\ m = n /\ e = pressed
  <2>1. CASE by = None
    <3>1. TitleKeyOf(pressed, n) # None
      BY <1>5, VolumesAssumption
    <3> QED
      BY <1>3, <2>1, <3>1 DEF UnlockedRight
  <2>2. CASE by # None
    <3>1. by \in Unlockers
      BY <1>2, <2>2 DEF By
    <3>2. key = TitleKeyOf(pressed, n) <=>
             UnlockKey(context, by) = VukOf(e, e) /\ e = pressed /\ m = n
      BY <1>3, <2>2, KeyComesOut
    <3> QED
      BY <3>1, <3>2, RightUnlock
  <2> QED
    BY <2>1, <2>2
<1> QED
  BY <1>2, <1>4, <1>5, <1>6, <1>7, <1>8

\* AacsVolume::open yields the CPS units and titles of one mastered file, all of
\* them, however the copies in AACS/ and AACS/DUPLICATE/ were cut or padded: the
\* disc's own, unless a file in AACS/ cannot be read at all.
THEOREM OpenedIsMastered == DiscSpec => []OpenedVolumeIsMastered
  BY DiscInvariance, MasteredFollows, PTL

\* decrypt_unit with a copied CPS unit plays the clips of its number exactly when
\* the last unwrap_title_keys before the copy had the disc's own VUK, looked up
\* in the KEYDB or derived, and the unit came from the disc's own file.
THEOREM CopyPlays == DiscSpec => []CopyPlaysAsUnlocked
  BY DiscInvariance, CopyFollows, PTL
-----------------------------------------------------------------------------
(* The usage rules of UsageFile: structures and blocks *)

\* Two decimal digits are a byte's two nibbles.
LEMMA TwoDigits ==
    ASSUME NEW v \in 0..99
    PROVE  Bcd2(v) \in 0..255 /\ Digits(Bcd2(v)) = v
<1>1. PICK q \in 0..9, r \in 0..9 : v = 10 * q + r /\ q = v \div 10 /\ r = v % 10
  OBVIOUS
<1>2. Bcd2(v) = 16 * q + r
  <2>1. (16 * q) % 256 = 16 * q
    BY <1>1
  <2> QED
    BY <1>1, <2>1 DEF Bcd2, ByteMod
<1>3. (16 * q + r) \div 16 = q /\ (16 * q + r) % 16 = r
  BY <1>1
<1> QED
  BY <1>1, <1>2, <1>3 DEF Digits

SetDates == [year : 0..9999, month : 0..99, day : 0..99, hour : 0..99, minute : 0..99,
             timezone : 0..255]
NoDate == [year |-> 0, month |-> 0, day |-> 0, hour |-> 0, minute |-> 0, timezone |-> 0]

LEMMA YearIs ==
    ASSUME NEW y \in 0..9999
    PROVE  /\ y % 10000 = y
           /\ y \div 100 \in 0..99 /\ y % 100 \in 0..99 /\ 100 * (y \div 100) + (y % 100) = y
<1>1. y % 10000 = y
  OBVIOUS
<1>2. y \div 100 \in 0..99 /\ y % 100 \in 0..99 /\ 100 * (y \div 100) + (y % 100) = y
  OBVIOUS
<1> QED
  BY <1>1, <1>2

LEMMA SevenCells ==
    ASSUME NEW a \in Nat, NEW b \in Nat, NEW c \in Nat, NEW d \in Nat, NEW e \in Nat,
           NEW f \in Nat, NEW g \in Nat, NEW s, s = <<a, b, c, d, e, f, g>>
    PROVE  /\ s \in Seq(Nat) /\ Len(s) = 7 /\ s[1] = a /\ s[2] = b /\ s[3] = c /\ s[4] = d
           /\ s[5] = e /\ s[6] = f /\ s[7] = g
OBVIOUS

LEMMA DigitsAreByte ==
    ASSUME NEW v \in 0..99 PROVE Bcd2(v) \in Nat
<1>1. Bcd2(v) \in 0..255
  BY TwoDigits
<1> QED
  BY <1>1

\* Seven bytes that are the digits of a date.
AreDigits(a, b, m, t, h, i, z) ==
    /\ a \in 0..99 /\ b \in 0..99 /\ m \in 0..99 /\ t \in 0..99 /\ h \in 0..99 /\ i \in 0..99
    /\ z \in Nat

AreBytesOf(s, a, b, m, t, h, i, z) ==
    /\ s \in Seq(Nat) /\ Len(s) = 7
    /\ DateOf(s) = [year |-> 100 * a + b, month |-> m, day |-> t, hour |-> h, minute |-> i,
                    timezone |-> z]

LEMMA BytesOfDate ==
    ASSUME NEW a, NEW b, NEW m, NEW t, NEW h, NEW i, NEW z, AreDigits(a, b, m, t, h, i, z)
    PROVE  AreBytesOf(<<Bcd2(a), Bcd2(b), Bcd2(m), Bcd2(t), Bcd2(h), Bcd2(i), z>>,
                      a, b, m, t, h, i, z)
<1>0. PICK s : s = <<Bcd2(a), Bcd2(b), Bcd2(m), Bcd2(t), Bcd2(h), Bcd2(i), z>>
  OBVIOUS
<1>1. /\ Bcd2(a) \in Nat /\ Bcd2(b) \in Nat /\ Bcd2(m) \in Nat /\ Bcd2(t) \in Nat
      /\ Bcd2(h) \in Nat /\ Bcd2(i) \in Nat
  BY DigitsAreByte, Zenon DEF AreDigits
<1>2. /\ s \in Seq(Nat) /\ Len(s) = 7
      /\ s[1] = Bcd2(a) /\ s[2] = Bcd2(b) /\ s[3] = Bcd2(m) /\ s[4] = Bcd2(t)
      /\ s[5] = Bcd2(h) /\ s[6] = Bcd2(i) /\ s[7] = z
  BY <1>0, <1>1, SevenCells DEF AreDigits
<1>3. /\ Digits(Bcd2(a)) = a /\ Digits(Bcd2(b)) = b /\ Digits(Bcd2(m)) = m
      /\ Digits(Bcd2(t)) = t /\ Digits(Bcd2(h)) = h /\ Digits(Bcd2(i)) = i
  BY TwoDigits, ZenonT(30) DEF AreDigits
<1>4. DateOf(s) = [year |-> 100 * a + b, month |-> m, day |-> t, hour |-> h,
                   minute |-> i, timezone |-> z]
  BY <1>2, <1>3, Zenon DEF DateOf
<1> QED
  BY <1>0, <1>2, <1>4, Zenon DEF AreBytesOf

\* A date comes back from its bytes.
LEMMA DateBytesReadBack ==
    ASSUME NEW d \in SetDates
    PROVE  DateBytes(d) \in Seq(Nat) /\ Len(DateBytes(d)) = 7 /\ DateOf(DateBytes(d)) = d
<1>1. d.year \in 0..9999
  BY DEF SetDates
<1>2. /\ d.month \in 0..99 /\ d.day \in 0..99 /\ d.hour \in 0..99 /\ d.minute \in 0..99
      /\ d.timezone \in Nat
  BY DEF SetDates
<1>3. d = [year |-> d.year, month |-> d.month, day |-> d.day, hour |-> d.hour,
           minute |-> d.minute, timezone |-> d.timezone]
  BY DEF SetDates
<1>4. PICK y : y = d.year
  BY SMTT(30)
<1>5. y \in 0..9999
  BY <1>1, <1>4
<1>6. PICK a, b : a = y \div 100 /\ b = y % 100
  OBVIOUS
<1>7. y % 10000 = y /\ a \in 0..99 /\ b \in 0..99 /\ 100 * a + b = y
  BY <1>5, <1>6, YearIs
<1>8. DateBytes(d) = <<Bcd2(a), Bcd2(b), Bcd2(d.month), Bcd2(d.day), Bcd2(d.hour),
                       Bcd2(d.minute), d.timezone>>
  BY <1>4, <1>6, <1>7 DEF DateBytes
<1>9. AreBytesOf(DateBytes(d), a, b, d.month, d.day, d.hour, d.minute, d.timezone)
  <2>1. AreBytesOf(<<Bcd2(a), Bcd2(b), Bcd2(d.month), Bcd2(d.day), Bcd2(d.hour),
                     Bcd2(d.minute), d.timezone>>,
                   a, b, d.month, d.day, d.hour, d.minute, d.timezone)
    <3>1. AreDigits(a, b, d.month, d.day, d.hour, d.minute, d.timezone)
      BY <1>2, <1>7 DEF AreDigits
    <3> QED
      BY <3>1, BytesOfDate, Zenon
  <2> QED
    BY <1>8, <2>1, Zenon
<1> QED
  BY <1>3, <1>4, <1>7, <1>9 DEF AreBytesOf

LEMMA ZeroDateIs ==
    ZeroDate = NoDate /\ NoDate \in SetDates
<1>1. PICK s : s = Repeat(DateLen, 0)
  OBVIOUS
<1>2. s[1] = 0 /\ s[2] = 0 /\ s[3] = 0 /\ s[4] = 0 /\ s[5] = 0 /\ s[6] = 0 /\ s[7] = 0
  BY <1>1 DEF Repeat, DateLen
<1>3. Digits(0) = 0
  BY DEF Digits
<1>4. ZeroDate = NoDate
  BY <1>1, <1>2, <1>3 DEF ZeroDate, DateOf, NoDate
<1> QED
  BY <1>4 DEF NoDate, SetDates

\* So does a date that is not set.
LEMMA DateReadBack ==
    ASSUME NEW d \in TitleDates
    PROVE  /\ WrittenDate(d) \in Seq(Nat) /\ Len(WrittenDate(d)) = 7
           /\ ReadDate(WrittenDate(d)) = d
<1>1. CASE d = Undefined
  <2>1. WrittenDate(d) = DateBytes(NoDate)
    BY <1>1, ZeroDateIs DEF WrittenDate
  <2>2. DateOf(DateBytes(NoDate)) = ZeroDate
    BY ZeroDateIs, DateBytesReadBack
  <2> QED
    BY <1>1, <2>1, <2>2, ZeroDateIs, DateBytesReadBack DEF ReadDate
<1>2. CASE d # Undefined
  <2>1. d \in SetDates /\ d # NoDate
    BY <1>2 DEF TitleDates, SetDates, NoDate
  <2>2. WrittenDate(d) = DateBytes(d)
    BY <1>2 DEF WrittenDate
  <2> QED
    BY <2>1, <2>2, ZeroDateIs, DateBytesReadBack DEF ReadDate
<1> QED
  BY <1>1, <1>2
-----------------------------------------------------------------------------
(* Typed structures and their blocks *)

BlockType == [type : Nat, version : Nat, data : Seq(Nat)]
ReadBack(r) == ToBlock(r) \in BlockType /\ FromBlock(ToBlock(r)) = r

LEMMA BlockIsBlock ==
    ASSUME NEW type \in Nat, NEW data \in Seq(Nat)
    PROVE  /\ Block(type, data) \in BlockType /\ Block(type, data).type = type
           /\ Block(type, data).data = data
BY DEF Block, BlockType, Version

LEMMA CciBack ==
    ASSUME NEW c \in {"CopyControlNotAsserted", "ReservedNoMoreCopy", "CopyOneGeneration",
                      "NeverCopy"}
    PROVE  /\ CciBits[c] \in 0..3
           /\ \A b \in Nat : b % 4 = CciBits[c] => CciOf(b) = c
<1>1. /\ CciBits["CopyControlNotAsserted"] = 0 /\ CciBits["ReservedNoMoreCopy"] = 1
      /\ CciBits["CopyOneGeneration"] = 2 /\ CciBits["NeverCopy"] = 3
      /\ DOMAIN CciBits = {"CopyControlNotAsserted", "ReservedNoMoreCopy", "CopyOneGeneration",
                           "NeverCopy"}
  BY DEF CciBits
<1>2. CciBits[c] \in 0..3
  BY <1>1
<1>3. ASSUME NEW b \in Nat, b % 4 = CciBits[c] PROVE CciOf(b) = c
  <2>1. \A e \in DOMAIN CciBits : CciBits[e] = b % 4 <=> e = c
    BY <1>1, <1>3
  <2>2. c \in DOMAIN CciBits
    BY <1>1
  <2> QED
    BY <2>1, <2>2 DEF CciOf
<1> QED
  BY <1>2, <1>3

\* The first two bytes of Basic CCI.
FirstBits(x, epn, c) == x \in Nat /\ (Bit(x, 4) = 1) = epn /\ x % 4 = c
SecondBits(y, image, digital, apstb) ==
    y \in Nat /\ (Bit(y, 16) = 1) = image /\ (Bit(y, 8) = 1) = digital /\ y % 8 = apstb

LEMMA FirstByte ==
    ASSUME NEW epn \in BOOLEAN, NEW c \in 0..3
    PROVE  FirstBits(4 * Flag(epn) + c, epn, c)
<1>1. PICK x : x = 4 * Flag(epn) + c
  OBVIOUS
<1>2. PICK e : e = Flag(epn)
  OBVIOUS
<1>3. e \in 0..1 /\ (e = 1) = epn
  BY <1>2 DEF Flag
<1>4. x = 4 * e + c
  BY <1>1, <1>2
<1>5. x \in Nat /\ x % 4 = c /\ x \div 4 = e /\ e % 2 = e
  BY <1>3, <1>4
<1> QED
  BY <1>1, <1>3, <1>5 DEF Bit, FirstBits

LEMMA SecondByte ==
    ASSUME NEW image \in BOOLEAN, NEW digital \in BOOLEAN, NEW apstb \in 0..7
    PROVE  SecondBits(16 * Flag(image) + 8 * Flag(digital) + (apstb % 8), image, digital, apstb)
<1>1. PICK y : y = 16 * Flag(image) + 8 * Flag(digital) + (apstb % 8)
  OBVIOUS
<1>2. PICK i, d : i = Flag(image) /\ d = Flag(digital)
  OBVIOUS
<1>3. i \in 0..1 /\ (i = 1) = image /\ d \in 0..1 /\ (d = 1) = digital
  BY <1>2 DEF Flag
<1>4. y = 16 * i + 8 * d + apstb
  <2>1. apstb % 8 = apstb
    OBVIOUS
  <2> QED
    BY <1>1, <1>2, <2>1
<1>5. y \in Nat /\ y % 8 = apstb /\ y \div 16 = i /\ i % 2 = i
  BY <1>3, <1>4
<1>6. (y \div 8) % 2 = d
  <2>1. y \div 8 = 2 * i + d
    BY <1>3, <1>4
  <2> QED
    BY <1>3, <2>1
<1> QED
  BY <1>1, <1>3, <1>5, <1>6 DEF Bit, SecondBits

LEMMA BasicBack ==
    ASSUME NEW r, IsBasic(r) PROVE ReadBack(r)
<1>1. TitleBits \in Nat
  BY SectorAssumption
<1>2. /\ r.type = 257 /\ r.epn_unasserted \in BOOLEAN
      /\ r.cci \in {"CopyControlNotAsserted", "ReservedNoMoreCopy", "CopyOneGeneration",
                    "NeverCopy"}
      /\ r.image_constraint \in BOOLEAN /\ r.digital_only \in BOOLEAN /\ r.apstb \in 0..7
      /\ r.titles \in Seq({"Basic", "Enhanced"}) /\ Len(r.titles) <= TitleBits
  BY DEF IsBasic
<1>3. r = [type |-> 257, epn_unasserted |-> r.epn_unasserted, cci |-> r.cci,
           image_constraint |-> r.image_constraint, digital_only |-> r.digital_only,
           apstb |-> r.apstb, titles |-> r.titles]
  BY DEF IsBasic
<1>4. PICK x, y : /\ x = 4 * Flag(r.epn_unasserted) + CciBits[r.cci]
                  /\ y = 16 * Flag(r.image_constraint) + 8 * Flag(r.digital_only) + (r.apstb % 8)
  OBVIOUS
<1>5. CciBits[r.cci] \in 0..3 /\ \A b \in Nat : b % 4 = CciBits[r.cci] => CciOf(b) = r.cci
  BY <1>2, CciBack
<1>6. /\ x \in Nat /\ y \in Nat
      /\ (Bit(x, 4) = 1) = r.epn_unasserted /\ x % 4 = CciBits[r.cci]
      /\ (Bit(y, 16) = 1) = r.image_constraint /\ (Bit(y, 8) = 1) = r.digital_only
      /\ y % 8 = r.apstb
  <2>1. FirstBits(x, r.epn_unasserted, CciBits[r.cci])
    BY <1>2, <1>4, <1>5, FirstByte, Zenon
  <2>2. SecondBits(y, r.image_constraint, r.digital_only, r.apstb)
    <3>1. SecondBits(16 * Flag(r.image_constraint) + 8 * Flag(r.digital_only) + (r.apstb % 8),
                     r.image_constraint, r.digital_only, r.apstb)
      BY <1>2, SecondByte
    <3> QED
      BY <1>4, <3>1, Zenon
  <2> QED
    BY <2>1, <2>2, Zenon DEF FirstBits, SecondBits
<1>7. CciOf(x) = r.cci
  BY <1>5, <1>6
<1>8. PICK head, map : /\ head = <<x, y, Len(r.titles)>>
                       /\ map = [n \in 1..TitleBits |->
                                   IF n \in DOMAIN r.titles THEN Flag(r.titles[n] = "Enhanced")
                                   ELSE 0]
  OBVIOUS
<1>9. Len(r.titles) \in Nat /\ DOMAIN r.titles = 1..Len(r.titles)
  BY <1>2
<1>10. head \in Seq(Nat) /\ Len(head) = 3 /\ head[1] = x /\ head[2] = y /\ head[3] = Len(r.titles)
  BY <1>6, <1>8, <1>9
<1>11. map \in Seq(Nat) /\ Len(map) = TitleBits
  <2>1. \A b : Flag(b) \in Nat
    BY DEF Flag
  <2>2. map \in [1..TitleBits -> Nat]
    BY <1>8, <2>1
  <2> QED
    BY <1>1, <2>2
<1>12. PICK data : data = head \o map
  OBVIOUS
<1>13. /\ data \in Seq(Nat) /\ Len(data) = 3 + TitleBits
       /\ data[1] = x /\ data[2] = y /\ data[3] = Len(r.titles)
       /\ \A n \in 1..TitleBits : data[3 + n] = map[n]
  <2>1. /\ data \in Seq(Nat) /\ Len(data) = Len(head) + Len(map)
        /\ \A c \in 1..Len(head) : data[c] = head[c]
        /\ \A i \in 1..Len(map) : data[Len(head) + i] = map[i]
    BY <1>10, <1>11, <1>12, Joined, Zenon
  <2>2. 1 \in 1..3 /\ 2 \in 1..3 /\ 3 \in 1..3
    OBVIOUS
  <2> QED
    BY <1>10, <1>11, <2>1, <2>2, Zenon
<1>14. ToBlock(r) = Block(257, data)
  BY <1>2, <1>4, <1>8, <1>12 DEF ToBlock, BasicBlock
<1>15. ToBlock(r) \in BlockType /\ ToBlock(r).type = 257 /\ ToBlock(r).data = data
  BY <1>13, <1>14, BlockIsBlock
<1>16. FromBlock(ToBlock(r)) = BasicOf(ToBlock(r))
  BY <1>15 DEF FromBlock
<1>17. ~(Len(data) # BasicLen \/ data[3] > TitleBits)
  BY <1>1, <1>2, <1>9, <1>13 DEF BasicLen
<1>18. [n \in 1..data[3] |-> IF data[3 + n] = 1 THEN "Enhanced" ELSE "Basic"] = r.titles
  <2>1. ASSUME NEW n \in 1..Len(r.titles)
        PROVE  (IF data[3 + n] = 1 THEN "Enhanced" ELSE "Basic") = r.titles[n]
    <3>1. n \in 1..TitleBits
      BY <1>1, <1>2, <1>9
    <3>2. data[3 + n] = Flag(r.titles[n] = "Enhanced")
      BY <1>8, <1>9, <1>13, <3>1
    <3>3. r.titles[n] \in {"Basic", "Enhanced"}
      BY <1>2
    <3> QED
      BY <3>2, <3>3 DEF Flag
  <2>2. [n \in 1..Len(r.titles) |-> r.titles[n]] = r.titles
    BY <1>2
  <2> QED
    BY <1>13, <2>1, <2>2, Zenon
<1>19. BasicOf(ToBlock(r)) =
          [type |-> 257, epn_unasserted |-> Bit(x, 4) = 1, cci |-> CciOf(x),
           image_constraint |-> Bit(y, 16) = 1, digital_only |-> Bit(y, 8) = 1,
           apstb |-> y % 8,
           titles |-> [n \in 1..data[3] |-> IF data[3 + n] = 1 THEN "Enhanced" ELSE "Basic"]]
  BY <1>13, <1>15, <1>17, ZenonT(30) DEF BasicOf
<1>20. BasicOf(ToBlock(r)) = r
  BY <1>3, <1>6, <1>7, <1>18, <1>19
<1> QED
  BY <1>15, <1>16, <1>20 DEF ReadBack

\* What stands between two sequences.
StandsAt(t, w, a, b) == SubSeq(w, a + 1, a + b) = t

LEMMA Between ==
    ASSUME NEW V, NEW s \in Seq(V), NEW t \in Seq(V), NEW u \in Seq(V), Len(t) # 0
    PROVE  StandsAt(t, (s \o t) \o u, Len(s), Len(t))
<1>1. PICK a \in Nat : a = Len(s)
  OBVIOUS
<1>2. PICK b \in Nat \ {0} : b = Len(t)
  OBVIOUS
<1>3. PICK v \in Seq(V) : v = s \o t /\ Len(v) = a + b
  BY <1>1, <1>2, ConcatProperties
<1>4. PICK m \in Nat, n \in Nat : m = a + 1 /\ n = a + b
  OBVIOUS
<1>5. m \in 1..Len(v) /\ n \in 1..Len(v)
  BY <1>3, <1>4
<1>6. SubSeq(v \o u, m, n) = SubSeq(v, m, n)
  BY <1>5, SubSeqOfConcat1, Zenon
<1>7. m \in Len(s) + 1..Len(s) + Len(t) /\ n \in Len(s) + 1..Len(s) + Len(t)
  BY <1>1, <1>2, <1>4
<1>8. SubSeq(s \o t, m, n) = SubSeq(t, m - Len(s), n - Len(s))
  BY <1>7, SubSeqOfConcat2, Zenon
<1>9. m - Len(s) = 1 /\ n - Len(s) = b
  BY <1>1, <1>4
<1>10. SubSeq(t, 1, b) = t
  BY <1>2, SubSeqFull, Zenon
<1>11. SubSeq(v \o u, m, n) = t
  BY <1>3, <1>6, <1>8, <1>9, <1>10, Zenon
<1> QED
  BY <1>1, <1>2, <1>3, <1>4, <1>11 DEF StandsAt

LEMMA InFront ==
    ASSUME NEW V, NEW s \in Seq(V), NEW u \in Seq(V), NEW t, NEW a \in Nat, NEW b \in Nat \ {0},
           a + b <= Len(s), StandsAt(t, s, a, b)
    PROVE  StandsAt(t, s \o u, a, b)
<1>1. PICK m \in Nat, n \in Nat : m = a + 1 /\ n = a + b
  OBVIOUS
<1>2. m \in 1..Len(s) /\ n \in 1..Len(s)
  BY <1>1
<1>3. SubSeq(s \o u, m, n) = SubSeq(s, m, n)
  BY <1>2, SubSeqOfConcat1, Zenon
<1> QED
  BY <1>1, <1>3 DEF StandsAt

LEMMA UsageBack ==
    ASSUME NEW r,
           r \in [type : {273}, title_id : Nat, cacheable : BOOLEAN, period : Nat,
                  after : TitleDates, before : TitleDates]
    PROVE  ReadBack(r)
<1>1. /\ r.type = 273 /\ r.title_id \in Nat /\ r.cacheable \in BOOLEAN /\ r.period \in Nat
      /\ r.after \in TitleDates /\ r.before \in TitleDates
      /\ r = [type |-> 273, title_id |-> r.title_id, cacheable |-> r.cacheable,
              period |-> r.period, after |-> r.after, before |-> r.before]
  OBVIOUS
<1>2. PICK head, after, before, last :
         /\ head = <<r.title_id, Flag(~r.cacheable), r.period>> /\ last = <<0>>
         /\ after = WrittenDate(r.after) /\ before = WrittenDate(r.before)
  OBVIOUS
<1>3. Flag(~r.cacheable) \in Nat /\ (Flag(~r.cacheable) % 2 = 0) = r.cacheable
  BY <1>1 DEF Flag
<1>4. /\ head \in Seq(Nat) /\ Len(head) = 3
      /\ head[1] = r.title_id /\ head[2] = Flag(~r.cacheable) /\ head[3] = r.period
  BY <1>1, <1>2, <1>3
<1>5. /\ after \in Seq(Nat) /\ Len(after) = 7 /\ ReadDate(after) = r.after
      /\ before \in Seq(Nat) /\ Len(before) = 7 /\ ReadDate(before) = r.before
  BY <1>1, <1>2, DateReadBack
<1>6. last \in Seq(Nat) /\ Len(last) = 1
  BY <1>2
<1>7. PICK a, b, data : a = head \o after /\ b = a \o before /\ data = b \o last
  OBVIOUS
<1>8. a \in Seq(Nat) /\ IsJoin(a, head, after)
  BY <1>4, <1>5, <1>7, JoinedEnds, Zenon
<1>9. b \in Seq(Nat) /\ IsJoin(b, a, before)
  BY <1>5, <1>7, <1>8, JoinedEnds, Zenon
<1>10. data \in Seq(Nat) /\ IsJoin(data, b, last)
  BY <1>6, <1>7, <1>9, JoinedEnds, Zenon
<1>11. /\ Len(a) = 10 /\ Len(b) = 17 /\ Len(data) = 18
       /\ data[1] = r.title_id /\ data[2] = Flag(~r.cacheable) /\ data[3] = r.period
  <2>1. Len(a) = 10 /\ a[1] = head[1] /\ a[2] = head[2] /\ a[3] = head[3]
    BY <1>4, <1>5, <1>8 DEF IsJoin
  <2>2. Len(b) = 17 /\ b[1] = a[1] /\ b[2] = a[2] /\ b[3] = a[3]
    BY <1>5, <1>9, <2>1, SMTT(30) DEF IsJoin
  <2>3. Len(data) = 18 /\ data[1] = b[1] /\ data[2] = b[2] /\ data[3] = b[3]
    BY <1>6, <1>10, <2>2, SMTT(30) DEF IsJoin
  <2> QED
    BY <1>4, <2>1, <2>2, <2>3
<1>12. SubSeq(data, 4, 10) = after
  <2>1. StandsAt(after, b, 3, 7)
    <3>1. Len(after) # 0
      BY <1>5
    <3>2. StandsAt(after, b, Len(head), Len(after))
      BY <1>4, <1>5, <1>7, <3>1, Between, Zenon
    <3> QED
      BY <1>4, <1>5, <3>2, Zenon
  <2>2. 3 + 7 <= Len(b) /\ 7 \in Nat \ {0} /\ 3 \in Nat
    BY <1>11
  <2>3. StandsAt(after, data, 3, 7)
    <3>1. StandsAt(after, b \o last, 3, 7)
      BY <1>6, <1>9, <2>1, <2>2, InFront
    <3> QED
      BY <1>7, <3>1, Zenon
  <2> QED
    BY <2>3 DEF StandsAt
<1>13. SubSeq(data, 11, 17) = before
  <2>1. Len(before) # 0
    BY <1>5
  <2>2. StandsAt(before, data, Len(a), Len(before))
    BY <1>5, <1>6, <1>7, <1>8, <2>1, Between, Zenon
  <2> QED
    BY <1>5, <1>11, <2>2 DEF StandsAt
<1>14. ToBlock(r) = Block(273, data)
  BY <1>1, <1>2, <1>7 DEF ToBlock, UsageBlock
<1>15. ToBlock(r) \in BlockType /\ ToBlock(r).type = 273 /\ ToBlock(r).data = data
  BY <1>10, <1>14, BlockIsBlock
<1>16. FromBlock(ToBlock(r)) = UsageOf(ToBlock(r))
  BY <1>15 DEF FromBlock
<1>17. Len(data) = UsageLen
  BY <1>11 DEF UsageLen, DateLen
<1>18. UsageOf(ToBlock(r)) =
          [type |-> 273, title_id |-> data[1], cacheable |-> data[2] % 2 = 0, period |-> data[3],
           after |-> ReadDate(SubSeq(data, 4, 10)), before |-> ReadDate(SubSeq(data, 11, 17))]
  BY <1>15, <1>17, Zenon DEF UsageOf
<1>19. UsageOf(ToBlock(r)) = r
  BY <1>1, <1>3, <1>5, <1>11, <1>12, <1>13, <1>18, ZenonT(30)
<1> QED
  BY <1>15, <1>16, <1>19 DEF ReadBack

LEMMA BindingBack ==
    ASSUME NEW t \in {<<"Media", 1>>, <<"Content", 2>>, <<"DeviceContent", 3>>,
                      <<"DeviceMedia", 4>>} \cup {<<"Reserved", b>> : b \in {0} \cup 5..255}
    PROVE  BindingByte(t) \in Nat /\ BindingOf(BindingByte(t)) = t
<1>1. /\ Bindings[1] = "Media" /\ Bindings[2] = "Content" /\ Bindings[3] = "DeviceContent"
      /\ Bindings[4] = "DeviceMedia"
  BY DEF Bindings
<1>2. CASE t \in {<<"Reserved", b>> : b \in {0} \cup 5..255}
  <2>1. PICK b \in {0} \cup 5..255 : t = <<"Reserved", b>>
    BY <1>2
  <2>2. t[1] = "Reserved" /\ t[2] = b
    BY <2>1
  <2>3. b \in Nat /\ b \notin 1..4
    OBVIOUS
  <2> QED
    BY <2>1, <2>2, <2>3 DEF BindingByte, BindingOf
<1>3. ASSUME NEW b \in 1..4, t[1] = Bindings[b], t = <<Bindings[b], b>>
      PROVE  BindingByte(t) \in Nat /\ BindingOf(BindingByte(t)) = t
  <2>1. t[1] # "Reserved"
    BY <1>1, <1>3
  <2>2. \A c \in 1..4 : Bindings[c] = t[1] <=> c = b
    BY <1>1, <1>3
  <2>3. BindingByte(t) = CHOOSE c \in 1..4 : Bindings[c] = t[1]
    BY <2>1 DEF BindingByte
  <2>4. BindingByte(t) = b
    BY <2>2, <2>3
  <2> QED
    BY <1>3, <2>4 DEF BindingOf
<1>4. CASE t = <<"Media", 1>>
  BY <1>1, <1>3, <1>4
<1>5. CASE t = <<"Content", 2>>
  BY <1>1, <1>3, <1>5
<1>6. CASE t = <<"DeviceContent", 3>>
  BY <1>1, <1>3, <1>6
<1>7. CASE t = <<"DeviceMedia", 4>>
  BY <1>1, <1>3, <1>7
<1> QED
  BY <1>2, <1>4, <1>5, <1>6, <1>7

LEMMA OnlineBack ==
    ASSUME NEW r,
           r \in [type : {274}, unit_key_status : Nat,
                  binding : {<<"Media", 1>>, <<"Content", 2>>, <<"DeviceContent", 3>>,
                             <<"DeviceMedia", 4>>}
                              \cup {<<"Reserved", b>> : b \in {0} \cup 5..255}]
    PROVE  ReadBack(r)
<1>1. /\ r.type = 274 /\ r.unit_key_status \in Nat
      /\ r = [type |-> 274, unit_key_status |-> r.unit_key_status, binding |-> r.binding]
  OBVIOUS
<1>2. BindingByte(r.binding) \in Nat /\ BindingOf(BindingByte(r.binding)) = r.binding
  BY BindingBack
<1>3. PICK data : data = <<r.unit_key_status, BindingByte(r.binding), 0>>
  OBVIOUS
<1>4. data \in Seq(Nat) /\ Len(data) = 3 /\ data[1] = r.unit_key_status
      /\ data[2] = BindingByte(r.binding)
  BY <1>1, <1>2, <1>3
<1>5. ToBlock(r) = Block(274, data)
  BY <1>1, <1>3 DEF ToBlock, OnlineBlock
<1>6. ToBlock(r) \in BlockType /\ ToBlock(r).type = 274 /\ ToBlock(r).data = data
  BY <1>4, <1>5, BlockIsBlock
<1>7. FromBlock(ToBlock(r)) = OnlineOf(ToBlock(r))
  BY <1>6 DEF FromBlock
<1>8. OnlineOf(ToBlock(r)) = r
  BY <1>1, <1>2, <1>4, <1>6 DEF OnlineOf, OnlineLen
<1> QED
  BY <1>6, <1>7, <1>8 DEF ReadBack

LEMMA OutputsBack ==
    ASSUME NEW r, r \in [type : {275}, outputs : Nat] PROVE ReadBack(r)
<1>1. r.type = 275 /\ r.outputs \in Nat /\ r = [type |-> 275, outputs |-> r.outputs]
  OBVIOUS
<1>2. PICK data : data = <<r.outputs>>
  OBVIOUS
<1>3. data \in Seq(Nat) /\ Len(data) = 1 /\ data[1] = r.outputs
  BY <1>1, <1>2
<1>4. ToBlock(r) = Block(275, data)
  BY <1>1, <1>2 DEF ToBlock, OutputsBlock
<1>5. ToBlock(r) \in BlockType /\ ToBlock(r).type = 275 /\ ToBlock(r).data = data
  BY <1>3, <1>4, BlockIsBlock
<1>6. FromBlock(ToBlock(r)) = OutputsOf(ToBlock(r))
  BY <1>5 DEF FromBlock
<1>7. OutputsOf(ToBlock(r)) = r
  BY <1>1, <1>3, <1>5 DEF OutputsOf, OutputsLen
<1> QED
  BY <1>5, <1>6, <1>7 DEF ReadBack

\* A block of any other type is its own structure.
LEMMA OtherBack ==
    ASSUME NEW r, r \in [type : Nat \ {257, 273, 274, 275}, version : Nat, data : Seq(Nat)]
    PROVE  ReadBack(r)
<1>1. /\ r.type \in Nat /\ r.type # 257 /\ r.type # 273 /\ r.type # 274 /\ r.type # 275
      /\ r \in BlockType /\ r = [type |-> r.type, version |-> r.version, data |-> r.data]
  BY DEF BlockType
<1>2. ToBlock(r) = r
  BY <1>1 DEF ToBlock
<1>3. FromBlock(r) = r
  BY <1>1 DEF FromBlock
<1> QED
  BY <1>1, <1>2, <1>3 DEF ReadBack

\* Every rule comes back from its block.
LEMMA RuleReadBack ==
    ASSUME NEW r \in Rules PROVE ReadBack(r)
<1>1. IsRule(r)
  BY RulesAssumption
<1> QED
  BY <1>1, BasicBack, UsageBack, OnlineBack, OutputsBack, OtherBack DEF IsRule

-----------------------------------------------------------------------------
(* The usage rules of UsageFile: areas *)

LEMMA BlockFields ==
    ASSUME NEW b \in BlockType
    PROVE  b.type \in Nat /\ b.version \in Nat /\ b.data \in Seq(Nat) /\ Len(b.data) \in Nat
<1>1. b.type \in Nat /\ b.version \in Nat /\ b.data \in Seq(Nat)
  BY DEF BlockType
<1> QED
  BY <1>1

LEMMA BytesOfBlock ==
    ASSUME NEW b \in BlockType
    PROVE  /\ BlockBytes(b) \in Seq(Nat) /\ Len(BlockBytes(b)) = 3 + Len(b.data)
           /\ BlockBytes(b)[1] = b.type /\ BlockBytes(b)[2] = b.version
           /\ BlockBytes(b)[3] = Len(b.data) % LenMod
           /\ \A i \in 1..Len(b.data) : BlockBytes(b)[3 + i] = b.data[i]
<1>1. b.type \in Nat /\ b.version \in Nat /\ b.data \in Seq(Nat) /\ Len(b.data) \in Nat
  BY DEF BlockType
<1>2. PICK l : l = Len(b.data) % LenMod
  OBVIOUS
<1>3. l \in Nat
  <2>1. PICK n \in Nat, P \in Nat \ {0} : n = Len(b.data) /\ P = LenMod
    BY <1>1, SectorAssumption
  <2>2. n % P \in 0..(P - 1)
    BY <2>1, Division
  <2>3. n % P \in Nat
    BY <2>2
  <2> QED
    BY <1>2, <2>1, <2>3, Zenon
<1>4. PICK head : head = <<b.type, b.version, l>>
  OBVIOUS
<1>5. head \in Seq(Nat) /\ Len(head) = 3 /\ head[1] = b.type /\ head[2] = b.version /\ head[3] = l
  BY <1>1, <1>3, <1>4
<1>6. BlockBytes(b) = head \o b.data
  BY <1>2, <1>4 DEF BlockBytes
<1>7. /\ head \o b.data \in Seq(Nat) /\ Len(head \o b.data) = Len(head) + Len(b.data)
      /\ \A c \in 1..Len(head) : (head \o b.data)[c] = head[c]
      /\ \A i \in 1..Len(b.data) : (head \o b.data)[Len(head) + i] = b.data[i]
  BY <1>1, <1>5, Joined, Zenon
<1>8. 1 \in 1..3 /\ 2 \in 1..3 /\ 3 \in 1..3
  OBVIOUS
<1> QED
  BY <1>2, <1>5, <1>6, <1>7, <1>8, Zenon

\* upto[n] is the first n blocks as they are written.
Written(blocks, upto) ==
    /\ upto \in [0..Len(blocks) -> Seq(Nat)]
    /\ upto[0] = <<>>
    /\ \A n \in 1..Len(blocks) : upto[n] = upto[n - 1] \o BlockBytes(blocks[n])

LEMMA RunUpto ==
    ASSUME NEW blocks \in Seq(BlockType)
    PROVE  \E upto : Written(blocks, upto) /\ Run(blocks) = upto[Len(blocks)]
<1> DEFINE N == Len(blocks)
           F(f) == [n \in 0..N |-> IF n = 0 THEN <<>> ELSE f[n - 1] \o BlockBytes(blocks[n])]
           G == [n \in 1..N |-> [s \in Seq(Nat) |-> s \o BlockBytes(blocks[n])]]
           upto == CHOOSE f : f = F(f)
<1>1. ASSUME NEW s \in Seq(Nat), NEW n \in 1..N PROVE s \o BlockBytes(blocks[n]) \in Seq(Nat)
  <2>1. blocks[n] \in BlockType
    OBVIOUS
  <2>2. BlockBytes(blocks[n]) \in Seq(Nat)
    BY <2>1, BytesOfBlock
  <2> QED
    BY <2>2, ConcatProperties
<1>2. PICK f \in [0..N -> Seq(Nat)] : f = F(f)
  <2>1. G \in [1..N -> [Seq(Nat) -> Seq(Nat)]]
    BY <1>1
  <2>2. PICK base \in Seq(Nat) : base = <<>>
    BY EmptySeq
  <2>3. N \in Nat
    OBVIOUS
  <2> HIDE DEF N, G
  <2>4. PICK f \in [0..N -> Seq(Nat)] : IsRecursion(f, N, base, G)
    BY <2>1, <2>3, RecursionExists
  <2>5. ASSUME NEW n \in 0..N, n # 0 PROVE G[n][f[n - 1]] = f[n - 1] \o BlockBytes(blocks[n])
    <3>1. n \in 1..N /\ n - 1 \in 0..N
      BY <2>3, <2>5
    <3> QED
      BY <3>1 DEF G
  <2>6. f = F(f)
    BY <2>2, <2>4, <2>5 DEF IsRecursion
  <2> QED
    BY <2>6
<1>3. upto = F(upto)
  <2> HIDE DEF F
  <2> QED
    BY <1>2
<1>4. \A n \in 0..N : upto[n] = f[n]
  <2> DEFINE S == {n \in Nat : n <= N => upto[n] = f[n]}
  <2> HIDE DEF upto
  <2>1. 0 \in S
    BY <1>2, <1>3
  <2>2. ASSUME NEW n \in S PROVE n + 1 \in S
    <3>1. SUFFICES ASSUME n + 1 <= N PROVE upto[n + 1] = f[n + 1]
      OBVIOUS
    <3>2. n + 1 \in 0..N /\ n + 1 # 0 /\ (n + 1) - 1 = n /\ upto[n] = f[n]
      BY <3>1
    <3>3. upto[n + 1] = upto[n] \o BlockBytes(blocks[n + 1])
      BY <1>3, <3>2
    <3>4. f[n + 1] = f[n] \o BlockBytes(blocks[n + 1])
      BY <1>2, <3>2
    <3> QED
      BY <3>2, <3>3, <3>4
  <2>3. S = Nat
    <3>1. S \subseteq Nat
      OBVIOUS
    <3> HIDE DEF S
    <3> QED
      BY <2>1, <2>2, <3>1, SetInduction
  <2> QED
    BY <2>3
<1>5. Written(blocks, f)
  <2>1. f[0] = <<>>
    BY <1>2
  <2>2. ASSUME NEW n \in 1..N PROVE f[n] = f[n - 1] \o BlockBytes(blocks[n])
    <3>1. n \in 0..N /\ n # 0
      OBVIOUS
    <3> QED
      BY <1>2, <3>1
  <2> QED
    BY <2>1, <2>2 DEF Written
<1>6. Run(blocks) = upto[N]
  BY DEF Run
<1>7. N \in 0..N
  OBVIOUS
<1> QED
  BY <1>4, <1>5, <1>6, <1>7

\* Where the blocks stand in w: block n from cell ends[n - 1] + 1 to ends[n].
BlockAt(w, b, at) ==
    /\ w[at + 1] = b.type /\ w[at + 2] = b.version /\ w[at + 3] = Len(b.data) % LenMod
    /\ \A i \in 1..Len(b.data) : w[at + 3 + i] = b.data[i]

Stand(w, blocks, ends, m) ==
    /\ ends \in [0..Len(blocks) -> Nat] /\ ends[0] = 0
    /\ \A n \in 1..Len(blocks) : ends[n] = ends[n - 1] + 3 + Len(blocks[n].data)
    /\ Len(w) = ends[m]
    /\ \A n \in 1..m : ends[n] <= Len(w) /\ BlockAt(w, blocks[n], ends[n - 1])

LEMMA RunStands ==
    ASSUME NEW blocks \in Seq(BlockType)
    PROVE  Run(blocks) \in Seq(Nat) /\ \E ends : Stand(Run(blocks), blocks, ends, Len(blocks))
<1> DEFINE N == Len(blocks)
<1>1. PICK upto : Written(blocks, upto) /\ Run(blocks) = upto[N]
  BY RunUpto
<1>2. N \in Nat /\ N \in 0..N
  OBVIOUS
<1>3. PICK ends : ends = [n \in 0..N |-> Len(upto[n])]
  OBVIOUS
<1>4. ASSUME NEW n \in 1..N
      PROVE  /\ n \in 0..N /\ n - 1 \in 0..N /\ blocks[n] \in BlockType
             /\ upto[n] \in Seq(Nat) /\ upto[n - 1] \in Seq(Nat)
             /\ BlockBytes(blocks[n]) \in Seq(Nat)
             /\ upto[n] = upto[n - 1] \o BlockBytes(blocks[n])
             /\ IsJoin(upto[n], upto[n - 1], BlockBytes(blocks[n]))
             /\ ends[n] = ends[n - 1] + 3 + Len(blocks[n].data)
  <2>1. n \in 0..N /\ n - 1 \in 0..N /\ blocks[n] \in BlockType
    BY <1>2
  <2>2. upto[n] \in Seq(Nat) /\ upto[n - 1] \in Seq(Nat)
        /\ upto[n] = upto[n - 1] \o BlockBytes(blocks[n])
    BY <1>1, <2>1 DEF Written
  <2>3. BlockBytes(blocks[n]) \in Seq(Nat) /\ Len(BlockBytes(blocks[n])) = 3 + Len(blocks[n].data)
    BY <2>1, BytesOfBlock
  <2>4. IsJoin(upto[n], upto[n - 1], BlockBytes(blocks[n]))
    BY <2>2, <2>3, JoinedEnds, Zenon
  <2>5. ends[n] = Len(upto[n]) /\ ends[n - 1] = Len(upto[n - 1])
    BY <1>3, <2>1
  <2>6. Len(upto[n - 1]) \in Nat /\ Len(blocks[n].data) \in Nat
    BY <2>1, <2>2, BlockFields, LenProperties
  <2>7. ends[n] = ends[n - 1] + 3 + Len(blocks[n].data)
    <3>1. PICK c \in Nat, d \in Nat : c = Len(upto[n - 1]) /\ d = Len(blocks[n].data)
      BY <2>6
    <3>2. Len(upto[n]) = c + (3 + d)
      BY <2>3, <2>4, <3>1 DEF IsJoin
    <3>3. c + (3 + d) = c + 3 + d
      OBVIOUS
    <3> QED
      BY <2>5, <3>1, <3>2, <3>3
  <2> QED
    BY <2>1, <2>2, <2>3, <2>4, <2>7
<1>5. ends \in [0..N -> Nat] /\ ends[0] = 0
  <2>1. \A n \in 0..N : Len(upto[n]) \in Nat
    BY <1>1 DEF Written
  <2>2. Len(upto[0]) = 0 /\ 0 \in 0..N
    BY <1>1, <1>2 DEF Written
  <2> QED
    BY <1>3, <2>1, <2>2
<1> DEFINE S == {m \in Nat : m <= N => Stand(upto[m], blocks, ends, m)}
<1>6. 0 \in S
  <2>1. Len(upto[0]) = ends[0]
    BY <1>3, <1>2
  <2>2. \A n \in 1..N : ends[n] = ends[n - 1] + 3 + Len(blocks[n].data)
    BY <1>4
  <2>3. \A n \in 1..0 : FALSE
    OBVIOUS
  <2>4. Stand(upto[0], blocks, ends, 0)
    BY <1>5, <2>1, <2>2, <2>3, Zenon DEF Stand
  <2> QED
    BY <2>4
<1>7. ASSUME NEW m \in S PROVE m + 1 \in S
  <2>1. SUFFICES ASSUME m + 1 <= N PROVE Stand(upto[m + 1], blocks, ends, m + 1)
    OBVIOUS
  <2>2. m + 1 \in 1..N /\ (m + 1) - 1 = m /\ m \in Nat /\ m \in 0..N
    BY <2>1
  <2>3. Stand(upto[m], blocks, ends, m)
    BY <2>1, <2>2
  <2>4. PICK b : b = blocks[m + 1]
    OBVIOUS
  <2>5. /\ b \in BlockType /\ upto[m] \in Seq(Nat) /\ upto[m + 1] \in Seq(Nat)
        /\ BlockBytes(b) \in Seq(Nat)
        /\ IsJoin(upto[m + 1], upto[m], BlockBytes(b))
        /\ ends[m + 1] = ends[m] + 3 + Len(b.data)
    BY <1>4, <2>2, <2>4, Zenon
  <2>6. /\ Len(BlockBytes(b)) = 3 + Len(b.data)
        /\ BlockBytes(b)[1] = b.type /\ BlockBytes(b)[2] = b.version
        /\ BlockBytes(b)[3] = Len(b.data) % LenMod
        /\ \A i \in 1..Len(b.data) : BlockBytes(b)[3 + i] = b.data[i]
    BY <2>5, BytesOfBlock
  <2>7. Len(b.data) \in Nat /\ ends[m] \in Nat /\ Len(upto[m]) = ends[m]
    BY <1>5, <2>2, <2>3, <2>5, SMTT(30) DEF BlockType, Stand
  <2>8. PICK L \in Nat, D \in Nat : L = ends[m] /\ D = Len(b.data)
    BY <2>7
  <2>9. Len(upto[m + 1]) = L + 3 + D /\ ends[m + 1] = L + 3 + D
    <3>1. Len(upto[m + 1]) = L + (3 + D)
      BY <2>5, <2>6, <2>7, <2>8 DEF IsJoin
    <3>2. L + (3 + D) = L + 3 + D
      OBVIOUS
    <3> QED
      BY <2>5, <2>8, <3>1, <3>2
  <2>10. BlockAt(upto[m + 1], b, ends[m])
    <3>1. \A i \in 1..(3 + D) : upto[m + 1][L + i] = BlockBytes(b)[i]
      BY <2>5, <2>6, <2>7, <2>8 DEF IsJoin
    <3>2. 1 \in 1..(3 + D) /\ 2 \in 1..(3 + D) /\ 3 \in 1..(3 + D)
      BY <2>8
    <3>3. \A i \in 1..D : 3 + i \in 1..(3 + D) /\ L + (3 + i) = L + 3 + i
      OBVIOUS
    <3> QED
      BY <2>6, <2>8, <3>1, <3>2, <3>3, ZenonT(30) DEF BlockAt
  <2>11. ASSUME NEW n \in 1..m
         PROVE  ends[n] <= Len(upto[m + 1]) /\ BlockAt(upto[m + 1], blocks[n], ends[n - 1])
    <3>1. n \in 1..N /\ n \in 0..N /\ n - 1 \in 0..N
      BY <2>2
    <3>2. ends[n] <= L /\ BlockAt(upto[m], blocks[n], ends[n - 1])
      BY <2>3, <2>7, <2>8 DEF Stand
    <3>3. PICK c \in Nat, d \in Nat : c = ends[n - 1] /\ d = Len(blocks[n].data)
      <4>1. blocks[n] \in BlockType
        BY <3>1
      <4>2. ends[n - 1] \in Nat /\ Len(blocks[n].data) \in Nat
        BY <1>5, <3>1, <4>1, BlockFields
      <4> QED
        BY <4>2
    <3>4. c + 3 + d <= L
      BY <1>4, <3>1, <3>2, <3>3
    <3>5. \A i \in 1..L : upto[m + 1][i] = upto[m][i]
      BY <2>5, <2>7, <2>8 DEF IsJoin
    <3>6. c + 1 \in 1..L /\ c + 2 \in 1..L /\ c + 3 \in 1..L /\ \A i \in 1..d : c + 3 + i \in 1..L
      <4>1. c \in Nat /\ d \in Nat /\ L \in Nat
        BY <3>3, <2>8
      <4> HIDE <3>3
      <4> QED
        BY <3>4, <4>1
    <3>7. BlockAt(upto[m + 1], blocks[n], c)
      BY <3>2, <3>3, <3>5, <3>6 DEF BlockAt
    <3>8. ends[n] \in Nat
      BY <1>5, <3>1
    <3> QED
      BY <2>9, <3>2, <3>3, <3>7, <3>8
  <2>12. \A n \in 1..(m + 1) : ends[n] <= Len(upto[m + 1]) /\ BlockAt(upto[m + 1], blocks[n], ends[n - 1])
    <3>1. ASSUME NEW n \in 1..(m + 1)
          PROVE ends[n] <= Len(upto[m + 1]) /\ BlockAt(upto[m + 1], blocks[n], ends[n - 1])
      <4>1. CASE n = m + 1
        BY <2>2, <2>4, <2>9, <2>10, <4>1
      <4>2. CASE n # m + 1
        <5>1. n \in 1..m
          BY <2>2, <4>2
        <5> QED
          BY <2>11, <5>1
      <4> QED
        BY <4>1, <4>2
    <3> QED
      BY <3>1
  <2> QED
    BY <1>4, <1>5, <2>9, <2>12 DEF Stand
<1>8. S = Nat
  <2>1. S \subseteq Nat
    OBVIOUS
  <2> HIDE DEF S
  <2> QED
    BY <1>6, <1>7, <2>1, SetInduction
<1>9. N \in S
  BY <1>2, <1>8
<1>10. Stand(Run(blocks), blocks, ends, N)
  BY <1>1, <1>9
<1>11. Run(blocks) \in Seq(Nat)
  BY <1>1, <1>2 DEF Written
<1> QED
  BY <1>10, <1>11

-----------------------------------------------------------------------------
(* The usage rules of UsageFile: an area is read *)

ParseType == [error : BOOLEAN, at : Nat, blocks : Seq(BlockType)]

LEMMA ParseTypeFields ==
    ASSUME NEW acc \in ParseType
    PROVE  /\ acc.error \in BOOLEAN /\ acc.at \in Nat /\ acc.blocks \in Seq(BlockType)
           /\ [acc EXCEPT !.error = TRUE] \in ParseType
           /\ [acc EXCEPT !.error = TRUE].error = TRUE
BY DEF ParseType

\* One turn of the loop of parse_area, when there is a block.
ReadsBlock(area, acc, at, n) ==
    ParseBlock(area, acc) =
       [error |-> FALSE, at |-> at + 3 + n,
        blocks |-> Append(acc.blocks,
           [type |-> area[at + 1], version |-> area[at + 2],
            data |-> SubSeq(area, at + 4, at + 3 + n)])]

LEMMA TurnReads ==
    ASSUME NEW area \in Seq(Nat), NEW acc \in ParseType, acc.error = FALSE,
           NEW at \in Nat, at = acc.at, at + 3 <= Len(area),
           NEW n \in Nat, n = area[at + 3], at + 3 + n <= Len(area)
    PROVE  ReadsBlock(area, acc, at, n)
<1>1. Len(area) \in Nat
  OBVIOUS
<1>2. ~(acc.error \/ at + 3 > Len(area)) /\ ~(at + 3 + n > Len(area))
  BY <1>1, SMTT(30)
<1> QED
  BY <1>2, Zenon DEF ReadsBlock, ParseBlock, BlockHeaderLen

\* And when there is none.
LEMMA TurnFails ==
    ASSUME NEW area \in Seq(Nat), NEW acc \in ParseType,
           \/ acc.error
           \/ acc.at + 3 > Len(area)
           \/ acc.at + 3 + area[acc.at + 3] > Len(area)
    PROVE  ParseBlock(area, acc) = [acc EXCEPT !.error = TRUE]
BY Zenon DEF ParseBlock, BlockHeaderLen

LEMMA TurnType ==
    ASSUME NEW area \in Seq(Nat), NEW acc \in ParseType
    PROVE  ParseBlock(area, acc) \in ParseType
<1>1. CASE acc.error \/ acc.at + 3 > Len(area) \/ acc.at + 3 + area[acc.at + 3] > Len(area)
  BY <1>1, TurnFails, ParseTypeFields
<1>2. CASE ~(acc.error \/ acc.at + 3 > Len(area) \/ acc.at + 3 + area[acc.at + 3] > Len(area))
  <2>1. acc.error = FALSE
    BY <1>2, ParseTypeFields
  <2>2. PICK at \in Nat : at = acc.at
    BY ParseTypeFields
  <2>3. PICK l \in Nat : l = Len(area)
    OBVIOUS
  <2>4. at + 3 <= l
    BY <1>2, <2>2, <2>3
  <2>5. at + 1 \in 1..l /\ at + 2 \in 1..l /\ at + 3 \in 1..l
    BY <2>4
  <2>6. area[at + 1] \in Nat /\ area[at + 2] \in Nat /\ area[at + 3] \in Nat
    BY <2>3, <2>5
  <2>7. PICK n \in Nat : n = area[at + 3]
    BY <2>6
  <2>8. at + 3 + n <= l
    BY <1>2, <2>2, <2>3, <2>7
  <2>9. ReadsBlock(area, acc, at, n)
    BY <2>1, <2>2, <2>3, <2>4, <2>7, <2>8, TurnReads, Zenon
  <2>10. SubSeq(area, at + 4, at + 3 + n) \in Seq(Nat)
    <3>1. PICK lo \in Nat, hi \in Nat : lo = at + 3 /\ hi = at + 3 + n
      OBVIOUS
    <3>2. lo <= hi /\ hi <= Len(area) /\ lo + 1 = at + 4
      BY <2>3, <2>8, <3>1
    <3>3. SubSeq(area, lo + 1, hi) \in Seq(Nat)
      BY <3>2, Part, Zenon
    <3> QED
      BY <3>1, <3>2, <3>3
  <2>11. PICK b : b = [type |-> area[at + 1], version |-> area[at + 2],
                       data |-> SubSeq(area, at + 4, at + 3 + n)]
    OBVIOUS
  <2>12. b \in BlockType
    BY <2>6, <2>10, <2>11 DEF BlockType
  <2>13. Append(acc.blocks, b) \in Seq(BlockType)
    BY <2>12, ParseTypeFields, AppendProperties
  <2>14. at + 3 + n \in Nat
    OBVIOUS
  <2> QED
    BY <2>9, <2>11, <2>13, <2>14 DEF ParseType, ReadsBlock
<1> QED
  BY <1>1, <1>2

\* p[n] is what parse_area has after n blocks.
Parses(area, loops, p) ==
    /\ p \in [0..loops -> ParseType]
    /\ p[0] = NothingRead
    /\ \A n \in 1..loops : p[n] = ParseBlock(area, p[n - 1])

LEMMA ParseUpto ==
    ASSUME NEW area \in Seq(Nat), NEW loops \in Nat
    PROVE  \E p : Parses(area, loops, p) /\ ParseArea(area, loops) = p[loops]
<1> DEFINE F(f) == [n \in 0..loops |-> IF n = 0 THEN NothingRead ELSE ParseBlock(area, f[n - 1])]
           G == [n \in 1..loops |-> [acc \in ParseType |-> ParseBlock(area, acc)]]
           upto == CHOOSE f : f = F(f)
<1>2. PICK f \in [0..loops -> ParseType] : f = F(f)
  <2>1. G \in [1..loops -> [ParseType -> ParseType]]
    BY TurnType
  <2>2. PICK base \in ParseType : base = NothingRead
    <3>1. <<>> \in Seq(BlockType)
      BY EmptySeq
    <3> QED
      BY <3>1 DEF ParseType, NothingRead
  <2> HIDE DEF G
  <2>4. PICK f \in [0..loops -> ParseType] : IsRecursion(f, loops, base, G)
    BY <2>1, RecursionExists
  <2>5. ASSUME NEW n \in 0..loops, n # 0 PROVE G[n][f[n - 1]] = ParseBlock(area, f[n - 1])
    <3>1. n \in 1..loops /\ n - 1 \in 0..loops
      BY <2>5
    <3>2. f[n - 1] \in ParseType
      BY <3>1
    <3> QED
      BY <3>1, <3>2 DEF G
  <2>6. f = F(f)
    BY <2>2, <2>4, <2>5 DEF IsRecursion
  <2> QED
    BY <2>6
<1>3. upto = F(upto)
  <2> HIDE DEF F
  <2> QED
    BY <1>2
<1>4. \A n \in 0..loops : upto[n] = f[n]
  <2> DEFINE S == {n \in Nat : n <= loops => upto[n] = f[n]}
  <2> HIDE DEF upto
  <2>1. 0 \in S
    BY <1>2, <1>3
  <2>2. ASSUME NEW n \in S PROVE n + 1 \in S
    <3>1. SUFFICES ASSUME n + 1 <= loops PROVE upto[n + 1] = f[n + 1]
      OBVIOUS
    <3>2. n + 1 \in 0..loops /\ n + 1 # 0 /\ (n + 1) - 1 = n /\ upto[n] = f[n]
      BY <3>1
    <3>3. upto[n + 1] = ParseBlock(area, upto[n])
      BY <1>3, <3>2
    <3>4. f[n + 1] = ParseBlock(area, f[n])
      BY <1>2, <3>2
    <3> QED
      BY <3>2, <3>3, <3>4
  <2>3. S = Nat
    <3>1. S \subseteq Nat
      OBVIOUS
    <3> HIDE DEF S
    <3> QED
      BY <2>1, <2>2, <3>1, SetInduction
  <2> QED
    BY <2>3
<1>5. Parses(area, loops, f)
  <2>1. f[0] = NothingRead
    BY <1>2
  <2>2. ASSUME NEW n \in 1..loops PROVE f[n] = ParseBlock(area, f[n - 1])
    <3>1. n \in 0..loops /\ n # 0
      OBVIOUS
    <3> QED
      BY <1>2, <3>1
  <2> QED
    BY <2>1, <2>2 DEF Parses
<1>6. ParseArea(area, loops) = upto[loops]
  BY DEF ParseArea
<1>7. loops \in 0..loops
  OBVIOUS
<1> QED
  BY <1>4, <1>5, <1>6, <1>7

\* area begins as w does, as far as both go.
Begins(area, w) == \A i \in 1..Len(w) : i <= Len(area) => area[i] = w[i]
Fit(blocks) == \A n \in 1..Len(blocks) : Len(blocks[n].data) < LenMod

LEMMA SmallRemainder ==
    ASSUME NEW n \in Nat, NEW P \in Nat \ {0}, n < P
    PROVE  n % P = n
OBVIOUS

ReadOrError(area, acc, at, b) ==
    IF at + 3 + Len(b.data) <= Len(area)
    THEN ParseBlock(area, acc) =
            [error |-> FALSE, at |-> at + 3 + Len(b.data), blocks |-> Append(acc.blocks, b)]
    ELSE ParseBlock(area, acc).error

\* A block that stands in w is read from an area that begins as w does.
LEMMA BlockRead ==
    ASSUME NEW area \in Seq(Nat), NEW w \in Seq(Nat), Begins(area, w),
           NEW b \in BlockType, Len(b.data) < LenMod,
           NEW at \in Nat, BlockAt(w, b, at), at + 3 + Len(b.data) <= Len(w),
           NEW acc \in ParseType, acc.error = FALSE, acc.at = at
    PROVE  ReadOrError(area, acc, at, b)
<1>1. PICK l \in Nat, m \in Nat, n \in Nat : l = Len(area) /\ m = Len(w) /\ n = Len(b.data)
  BY BlockFields
<1>2. at + 3 + n <= m
  BY <1>1
<1>3. CASE at + 3 > l
  <2>1. ParseBlock(area, acc) = [acc EXCEPT !.error = TRUE]
    BY <1>1, <1>3, TurnFails
  <2>2. ~(at + 3 + n <= l)
    BY <1>3
  <2> QED
    BY <1>1, <2>1, <2>2, ParseTypeFields DEF ReadOrError
<1>4. CASE at + 3 <= l
  <2>1. at + 3 \in 1..m /\ at + 1 \in 1..m /\ at + 2 \in 1..m /\ at + 1 <= l /\ at + 2 <= l
    BY <1>2, <1>4
  <2>2. area[at + 3] = w[at + 3] /\ area[at + 1] = w[at + 1] /\ area[at + 2] = w[at + 2]
    BY <1>1, <1>4, <2>1, Zenon DEF Begins
  <2>3. area[at + 3] = n
    <3>1. PICK P \in Nat \ {0} : P = LenMod
      BY SectorAssumption
    <3>2. n < P
      BY <1>1, <3>1
    <3>3. n % P = n
      BY <3>2, SmallRemainder, Zenon
    <3> QED
      BY <1>1, <2>2, <3>1, <3>3, Zenon DEF BlockAt
  <2>4. CASE at + 3 + n > l
    <3>1. ParseBlock(area, acc) = [acc EXCEPT !.error = TRUE]
      BY <1>1, <2>3, <2>4, TurnFails
    <3>2. ~(at + 3 + n <= l)
      BY <2>4
    <3> QED
      BY <1>1, <3>1, <3>2, ParseTypeFields DEF ReadOrError
  <2>5. CASE at + 3 + n <= l
    <3>1. ReadsBlock(area, acc, at, n)
      BY <1>1, <1>4, <2>3, <2>5, TurnReads, Zenon
    <3>2. SubSeq(area, at + 4, at + 3 + n) = b.data
      <4>1. PICK lo \in Nat, hi \in Nat : lo = at + 3 /\ hi = at + 3 + n
        OBVIOUS
      <4>2. lo <= hi /\ hi <= Len(area) /\ lo + 1 = at + 4 /\ hi - lo = n
        <5>1. lo <= hi /\ hi <= l /\ lo + 1 = at + 4 /\ hi - lo = n
          BY <2>5, <4>1
        <5> QED
          BY <1>1, <5>1
      <4>3. PICK x \in Seq(Nat) : x = SubSeq(area, lo + 1, hi) /\ IsPart(x, area, lo, hi)
        BY <4>2, Part, Zenon
      <4>4. ASSUME NEW i \in 1..n PROVE x[i] = b.data[i]
        <5>1. at + 3 + i \in 1..m /\ at + 3 + i <= l
          BY <1>2, <2>5
        <5>2. area[at + 3 + i] = w[at + 3 + i]
          BY <1>1, <5>1, Zenon DEF Begins
        <5>3. w[at + 3 + i] = b.data[i]
          BY <1>1 DEF BlockAt
        <5>4. x[i] = area[lo + i]
          BY <4>2, <4>3 DEF IsPart
        <5> QED
          BY <4>1, <5>2, <5>3, <5>4
      <4>5. x = b.data
        <5>1. b.data \in Seq(Nat) /\ Len(x) = Len(b.data)
          BY <1>1, <4>2, <4>3, BlockFields DEF IsPart
        <5>2. \A i \in 1..Len(x) : x[i] = b.data[i]
          BY <1>1, <4>4, <5>1
        <5> QED
          BY <5>1, <5>2, SameSequence
      <4> QED
        BY <4>1, <4>2, <4>3, <4>5
    <3>3. b = [type |-> area[at + 1], version |-> area[at + 2],
               data |-> SubSeq(area, at + 4, at + 3 + n)]
      <4>1. b = [type |-> b.type, version |-> b.version, data |-> b.data]
        BY DEF BlockType
      <4> QED
        BY <2>2, <3>2, <4>1, Zenon DEF BlockAt
    <3> QED
      BY <1>1, <2>5, <3>1, <3>3, Zenon DEF ReadOrError, ReadsBlock
  <2> QED
    BY <2>4, <2>5
<1> QED
  BY <1>3, <1>4

\* An area that begins as blocks are written is read as these blocks, or, when
\* it ends before them, not at all.
LEMMA AreaRead ==
    ASSUME NEW blocks \in Seq(BlockType), Fit(blocks), NEW area \in Seq(Nat),
           Begins(area, Run(blocks))
    PROVE  IF Len(Run(blocks)) <= Len(area)
           THEN ParseArea(area, Len(blocks)) =
                   [error |-> FALSE, at |-> Len(Run(blocks)), blocks |-> blocks]
           ELSE ParseArea(area, Len(blocks)).error
<1> DEFINE N == Len(blocks)
<1>1. PICK w \in Seq(Nat) : w = Run(blocks)
  BY RunStands
<1>2. PICK ends : Stand(w, blocks, ends, N)
  BY <1>1, RunStands
<1>3. N \in Nat /\ N \in 0..N /\ Len(area) \in Nat
  OBVIOUS
<1>4. PICK p : Parses(area, N, p) /\ ParseArea(area, N) = p[N]
  BY <1>3, ParseUpto
<1>5. /\ ends \in [0..N -> Nat] /\ ends[0] = 0 /\ Len(w) = ends[N]
      /\ \A n \in 1..N : /\ ends[n] = ends[n - 1] + 3 + Len(blocks[n].data)
                         /\ ends[n] <= Len(w) /\ BlockAt(w, blocks[n], ends[n - 1])
  BY <1>2 DEF Stand
<1> DEFINE Good(n) ==
              IF ends[n] <= Len(area)
              THEN p[n] = [error |-> FALSE, at |-> ends[n], blocks |-> SubSeq(blocks, 1, n)]
              ELSE p[n].error
           S == {n \in Nat : n <= N => Good(n)}
<1>6. 0 \in S
  <2>1. p[0] = NothingRead
    BY <1>4 DEF Parses
  <2>2. SubSeq(blocks, 1, 0) = <<>>
    BY SubSeqEmpty
  <2>3. 0 <= Len(area)
    BY <1>3
  <2>4. Good(0)
    BY <1>5, <2>1, <2>2, <2>3 DEF NothingRead
  <2> QED
    BY <2>4
<1>7. ASSUME NEW n \in S PROVE n + 1 \in S
  <2>1. SUFFICES ASSUME n + 1 <= N PROVE Good(n + 1)
    OBVIOUS
  <2>2. n \in Nat /\ n + 1 \in 1..N /\ (n + 1) - 1 = n /\ n \in 0..N /\ n + 1 \in 0..N
    BY <2>1
  <2>3. Good(n)
    BY <2>1
  <2> HIDE DEF Good
  <2>4. PICK b : b = blocks[n + 1]
    OBVIOUS
  <2>5. b \in BlockType /\ Len(b.data) < LenMod
    BY <2>2, <2>4 DEF Fit
  <2>6. PICK at \in Nat, d \in Nat : at = ends[n] /\ d = Len(b.data)
    BY <1>5, <2>2, <2>5, BlockFields
  <2>7. ends[n + 1] = at + 3 + d /\ at + 3 + d <= Len(w) /\ BlockAt(w, b, at)
    BY <1>5, <2>2, <2>4, <2>6
  <2>8. p[n] \in ParseType /\ p[n + 1] = ParseBlock(area, p[n])
    BY <1>4, <2>2 DEF Parses
  <2>9. CASE at <= Len(area)
    <3>1. p[n] = [error |-> FALSE, at |-> at, blocks |-> SubSeq(blocks, 1, n)]
      BY <2>3, <2>6, <2>9 DEF Good
    <3>2. p[n].error = FALSE /\ p[n].at = at /\ p[n].blocks = SubSeq(blocks, 1, n)
      BY <3>1
    <3>3. ReadOrError(area, p[n], at, b)
      BY <1>1, <2>5, <2>6, <2>7, <2>8, <3>2, BlockRead
    <3>4. Append(SubSeq(blocks, 1, n), b) = SubSeq(blocks, 1, n + 1)
      <4>1. 1 \in 1..Len(blocks) + 1 /\ n + 1 \in 1..Len(blocks)
        BY <2>2
      <4> QED
        BY <2>2, <2>4
    <3> QED
      BY <2>6, <2>7, <2>8, <3>2, <3>3, <3>4 DEF Good, ReadOrError
  <2>10. CASE ~(at <= Len(area))
    <3>1. p[n].error
      BY <2>3, <2>6, <2>10 DEF Good
    <3>2. ParseBlock(area, p[n]) = [p[n] EXCEPT !.error = TRUE]
      BY <2>8, <3>1, TurnFails
    <3>3. ~(at + 3 + d <= Len(area))
      BY <1>3, <2>10
    <3> QED
      BY <2>7, <2>8, <3>2, <3>3, ParseTypeFields DEF Good
  <2> QED
    BY <2>9, <2>10
<1>8. S = Nat
  <2>1. S \subseteq Nat
    OBVIOUS
  <2> HIDE DEF S
  <2> QED
    BY <1>6, <1>7, <2>1, SetInduction
<1>9. Good(N)
  <2>1. N \in S
    BY <1>3, <1>8
  <2> QED
    BY <1>3, <2>1
<1>10. SubSeq(blocks, 1, N) = blocks
  OBVIOUS
<1> QED
  BY <1>1, <1>4, <1>5, <1>9, <1>10

\* What is read of blocks that may be too long: as many as are asked for, and
\* what they were as far as all of them fit.
FitTo(blocks, n) == \A o \in 1..n : Len(blocks[o].data) < LenMod
Leads(got, blocks, loops) ==
    /\ got \in Seq(BlockType) /\ Len(got) = loops
    /\ \A n \in 1..loops : FitTo(blocks, n) => got[n] = blocks[n]
LeadIsRead(read, blocks, loops) == read.error = FALSE => Leads(read.blocks, blocks, loops)

\* An area that begins as blocks are written is read as they were, as far as all
\* of them fit; it may end before them, or hold blocks too long.
LEMMA LeadRead ==
    ASSUME NEW blocks \in Seq(BlockType), NEW area \in Seq(Nat), Begins(area, Run(blocks)),
           NEW loops \in Nat, loops <= Len(blocks)
    PROVE  /\ ParseArea(area, loops).error \in BOOLEAN
           /\ LeadIsRead(ParseArea(area, loops), blocks, loops)
<1> DEFINE N == Len(blocks)
<1>1. PICK w \in Seq(Nat) : w = Run(blocks)
  BY RunStands
<1>2. PICK ends : Stand(w, blocks, ends, N)
  BY <1>1, RunStands
<1>3. N \in Nat /\ Len(area) \in Nat /\ loops \in 0..loops
  OBVIOUS
<1>4. PICK p : Parses(area, loops, p) /\ ParseArea(area, loops) = p[loops]
  BY ParseUpto
<1>5. /\ ends \in [0..N -> Nat] /\ ends[0] = 0
      /\ \A n \in 1..N : /\ ends[n] = ends[n - 1] + 3 + Len(blocks[n].data)
                         /\ ends[n] <= Len(w) /\ BlockAt(w, blocks[n], ends[n - 1])
  BY <1>2 DEF Stand
<1> DEFINE Good(n) == /\ LeadIsRead(p[n], blocks, n)
                      /\ p[n].error = FALSE /\ FitTo(blocks, n) => p[n].at = ends[n]
           S == {n \in Nat : n <= loops => Good(n)}
<1>6. 0 \in S
  <2>1. p[0] = NothingRead
    BY <1>4 DEF Parses
  <2>2. p[0].blocks = <<>> /\ p[0].at = 0
    BY <2>1 DEF NothingRead
  <2>3. p[0].blocks \in Seq(BlockType) /\ Len(p[0].blocks) = 0
    BY <2>2, EmptySeq
  <2>4. LeadIsRead(p[0], blocks, 0)
    BY <2>3 DEF LeadIsRead, Leads
  <2>5. Good(0)
    BY <1>5, <2>2, <2>4
  <2> HIDE DEF Good
  <2> QED
    BY <2>5
<1>7. ASSUME NEW n \in S PROVE n + 1 \in S
  <2> HIDE DEF Good
  <2>1. SUFFICES ASSUME n + 1 <= loops PROVE Good(n + 1)
    OBVIOUS
  <2>2. n \in Nat /\ n + 1 \in 1..N /\ (n + 1) - 1 = n /\ n \in 0..N /\ n \in 0..loops
        /\ n + 1 \in 1..loops
    BY <2>1
  <2>3. Good(n)
    BY <2>1
  <2>4. PICK q \in ParseType : q = p[n]
    BY <1>4, <2>2 DEF Parses
  <2>5. PICK r : r = p[n + 1] /\ r = ParseBlock(area, q)
    BY <1>4, <2>2, <2>4 DEF Parses
  <2>6. CASE q.error \/ q.at + 3 > Len(area) \/ q.at + 3 + area[q.at + 3] > Len(area)
    <3>1. r = [q EXCEPT !.error = TRUE]
      BY <2>5, <2>6, TurnFails
    <3>2. r.error = TRUE
      BY <3>1, ParseTypeFields
    <3> QED
      BY <2>5, <3>2 DEF Good, LeadIsRead
  <2>7. CASE ~(q.error \/ q.at + 3 > Len(area) \/ q.at + 3 + area[q.at + 3] > Len(area))
    <3>1. q.error = FALSE
      BY <2>7, ParseTypeFields
    <3>2. q.blocks \in Seq(BlockType) /\ Len(q.blocks) = n
          /\ \A o \in 1..n : FitTo(blocks, o) => q.blocks[o] = blocks[o]
      BY <2>3, <2>4, <3>1 DEF Good, LeadIsRead, Leads
    <3>3. r.blocks \in Seq(BlockType)
      <4>1. r \in ParseType
        BY <2>5, TurnType, Zenon
      <4> QED
        BY <4>1, ParseTypeFields
    <3>4. PICK c : r.blocks = Append(q.blocks, c)
      <4>1. PICK at \in Nat : at = q.at
        BY ParseTypeFields
      <4>2. PICK l \in Nat : l = Len(area)
        OBVIOUS
      <4>3. at + 3 <= l /\ at + 3 \in 1..l
        BY <2>7, <4>1, <4>2
      <4>4. PICK m \in Nat : m = area[at + 3]
        BY <4>2, <4>3
      <4>5. at + 3 + m <= l
        BY <2>7, <4>1, <4>2, <4>4
      <4>6. ReadsBlock(area, q, at, m)
        BY <3>1, <4>1, <4>2, <4>3, <4>4, <4>5, TurnReads, Zenon
      <4>7. r.blocks = Append(q.blocks,
               [type |-> area[at + 1], version |-> area[at + 2],
                data |-> SubSeq(area, at + 4, at + 3 + m)])
        BY <2>5, <4>6 DEF ReadsBlock
      <4> QED
        BY <4>7
    <3>5. Len(r.blocks) = n + 1 /\ \A o \in 1..n : r.blocks[o] = q.blocks[o]
      <4>1. PICK T : T = BlockType \cup {c}
        OBVIOUS
      <4>2. PICK x \in Seq(T) : x = q.blocks
        BY <3>2, <4>1
      <4>3. /\ Len(Append(x, c)) = Len(x) + 1
            /\ \A o \in 1..Len(x) : Append(x, c)[o] = x[o]
        <5>1. c \in T
          BY <4>1
        <5> QED
          BY <4>2, <5>1, AppendProperties
      <4>4. Len(x) = n
        BY <3>2, <4>2
      <4>5. r.blocks = Append(x, c)
        BY <3>4, <4>2
      <4> QED
        BY <4>2, <4>3, <4>4, <4>5, Zenon
    <3>6. ASSUME FitTo(blocks, n + 1)
          PROVE  r.error = FALSE =>
                    r.blocks[n + 1] = blocks[n + 1] /\ r.at = ends[n + 1]
      <4>1. FitTo(blocks, n)
        BY <2>2, <3>6 DEF FitTo
      <4>2. PICK b : b = blocks[n + 1]
        OBVIOUS
      <4>3. b \in BlockType /\ Len(b.data) < LenMod
        <5>1. n + 1 \in 1..(n + 1)
          BY <2>2
        <5> QED
          BY <2>2, <3>6, <4>2, <5>1 DEF FitTo
      <4>4. PICK at \in Nat, d \in Nat : at = ends[n] /\ d = Len(b.data)
        BY <1>5, <2>2, <4>3, BlockFields
      <4>5. ends[n + 1] = at + 3 + d /\ at + 3 + d <= Len(w) /\ BlockAt(w, b, at)
        BY <1>5, <2>2, <4>2, <4>4
      <4>6. q.at = at
        BY <2>3, <2>4, <3>1, <4>1, <4>4 DEF Good
      <4>7. ReadOrError(area, q, at, b)
        BY <1>1, <3>1, <4>3, <4>4, <4>5, <4>6, BlockRead
      <4>8. CASE at + 3 + d <= Len(area)
        <5>1. r = [error |-> FALSE, at |-> at + 3 + d, blocks |-> Append(q.blocks, b)]
          BY <2>5, <4>4, <4>7, <4>8 DEF ReadOrError
        <5>2. Append(q.blocks, b)[n + 1] = b
          BY <3>2, <4>3, AppendProperties
        <5> QED
          BY <4>2, <4>5, <5>1, <5>2
      <4>9. CASE ~(at + 3 + d <= Len(area))
        <5>1. r.error
          BY <2>5, <4>4, <4>7, <4>9, Zenon DEF ReadOrError
        <5> QED
          BY <5>1
      <4> QED
        BY <4>8, <4>9
    <3>7. ASSUME r.error = FALSE, NEW o \in 1..(n + 1), FitTo(blocks, o)
          PROVE  r.blocks[o] = blocks[o]
      <4>1. CASE o \in 1..n
        BY <3>2, <3>5, <3>7, <4>1
      <4>2. CASE ~(o \in 1..n)
        <5>1. o = n + 1
          BY <2>2, <4>2
        <5> QED
          BY <3>6, <3>7, <5>1
      <4> QED
        BY <4>1, <4>2
    <3>8. LeadIsRead(r, blocks, n + 1)
      BY <3>3, <3>5, <3>7 DEF LeadIsRead, Leads
    <3> QED
      BY <2>5, <3>6, <3>8 DEF Good
  <2> QED
    BY <2>6, <2>7
<1>8. S = Nat
  <2>1. S \subseteq Nat
    OBVIOUS
  <2> HIDE DEF S
  <2> QED
    BY <1>6, <1>7, <2>1, SetInduction
<1>9. Good(loops)
  <2>1. loops \in S
    BY <1>8
  <2> QED
    BY <2>1
<1>10. p[loops].error \in BOOLEAN
  <2>1. p[loops] \in ParseType
    BY <1>3, <1>4 DEF Parses
  <2> QED
    BY <2>1, ParseTypeFields
<1> QED
  BY <1>4, <1>9, <1>10

-----------------------------------------------------------------------------
(* The usage rules of UsageFile: the file *)

LEMMA ZeroCells ==
    ASSUME NEW n \in Nat
    PROVE  Repeat(n, 0) \in Seq(Nat) /\ Len(Repeat(n, 0)) = n
           /\ \A i \in 1..n : Repeat(n, 0)[i] = 0
<1>1. PICK s : s = Repeat(n, 0)
  OBVIOUS
<1>2. s \in [1..n -> Nat] /\ \A i \in 1..n : s[i] = 0
  BY <1>1 DEF Repeat
<1>3. s \in Seq(Nat) /\ Len(s) = n
  BY <1>2
<1> QED
  BY <1>1, <1>2, <1>3

\* The sequence x is s to n cells: cut, or padded.
Resized(x, s, n) == x \in Seq(Nat) /\ Len(x) = n /\ Begins(x, s)

LEMMA ResizeIs ==
    ASSUME NEW s \in Seq(Nat), NEW n \in Nat
    PROVE  Resized(Resize(s, n), s, n)
<1>1. PICK l \in Nat : l = Len(s)
  OBVIOUS
<1>2. CASE l >= n
  <2>1. Resize(s, n) = SubSeq(s, 1, n)
    BY <1>1, <1>2 DEF Resize
  <2>2. PICK x \in Seq(Nat) : x = SubSeq(s, 0 + 1, n) /\ IsPart(x, s, 0, n)
    <3>1. 0 \in Nat /\ 0 <= n /\ n <= Len(s)
      BY <1>1, <1>2
    <3> QED
      BY <3>1, Part, Zenon
  <2>3. Len(x) = n /\ \A i \in 1..n : x[i] = s[i]
    BY <2>2 DEF IsPart
  <2>4. \A i \in 1..l : i <= n => i \in 1..n
    OBVIOUS
  <2> QED
    BY <1>1, <2>1, <2>2, <2>3, <2>4 DEF Resized, Begins
<1>3. CASE ~(l >= n)
  <2>1. PICK k \in Nat : k = n - l
    BY <1>3
  <2>2. PICK z \in Seq(Nat) : z = Repeat(k, 0) /\ Len(z) = k
    BY ZeroCells
  <2>3. Resize(s, n) = s \o z
    BY <1>1, <1>3, <2>1, <2>2 DEF Resize
  <2>4. s \o z \in Seq(Nat) /\ IsJoin(s \o z, s, z)
    BY <2>2, JoinedEnds, Zenon
  <2>5. Len(s \o z) = l + k /\ \A i \in 1..l : (s \o z)[i] = s[i]
    BY <1>1, <2>2, <2>4, Zenon DEF IsJoin
  <2>6. l + k = n
    BY <2>1
  <2> QED
    BY <1>1, <2>3, <2>4, <2>5, <2>6, Zenon DEF Resized, Begins
<1> QED
  BY <1>2, <1>3

LEMMA AreaLenIs ==
    AreaLen \in Nat \ {0} /\ SectorLen \in Nat /\ SectorLen = 2 + AreaLen
BY SectorAssumption DEF AreaLen, AreaHeaderLen

LEMMA PrimaryIs ==
    ASSUME NEW blocks \in Seq(BlockType)
    PROVE  Resized(PrimaryArea(blocks), Run(blocks), AreaLen)
BY RunStands, AreaLenIs, ResizeIs DEF PrimaryArea

LEMMA RoundedUp ==
    ASSUME NEW t \in Nat, NEW A \in Nat \ {0}, A <= t
    PROVE  ((t + A - 1) \div A) * A \in Nat /\ t <= ((t + A - 1) \div A) * A
<1>1. PICK n \in Nat : n = t + A - 1
  OBVIOUS
<1>2. n \div A \in Nat /\ n % A \in 0..(A - 1) /\ n = ((n \div A) * A) + (n % A)
  BY Division
<1>3. PICK q \in Nat, m \in Nat : q = n \div A /\ m = n % A
  BY <1>2
<1>4. PICK x : x = q * A
  OBVIOUS
<1>5. x \in Nat
  BY <1>4
<1>6. m <= A - 1 /\ n = x + m
  BY <1>2, <1>3, <1>4
<1>7. t <= x
  BY <1>1, <1>5, <1>6
<1> QED
  BY <1>1, <1>3, <1>4, <1>5, <1>7

LEMMA SecondaryIs ==
    ASSUME NEW blocks \in Seq(BlockType)
    PROVE  \E k \in Nat : /\ Len(Run(blocks)) <= k
                          /\ Resized(SecondaryArea(blocks), Run(blocks), k)
<1>1. PICK run \in Seq(Nat) : run = Run(blocks)
  BY RunStands
<1>2. PICK A \in Nat \ {0} : A = AreaLen
  BY AreaLenIs
<1>3. PICK l \in Nat : l = Len(run)
  OBVIOUS
<1>4. PICK t \in Nat : t = (IF l > A THEN l ELSE A) /\ A <= t /\ l <= t
  OBVIOUS
<1>5. PICK k \in Nat : k = ((t + A - 1) \div A) * A /\ t <= k
  BY <1>4, RoundedUp
<1>6. l <= k
  BY <1>4, <1>5
<1>7. SecondaryArea(blocks) = Resize(run, k)
  BY <1>1, <1>2, <1>3, <1>4, <1>5, Zenon DEF SecondaryArea
<1> QED
  BY <1>1, <1>3, <1>6, <1>7, ResizeIs, Zenon

\* Where the areas of a file are.
AreaAt(file, at, blocks, len) ==
    /\ file[at + 1] = Len(blocks) % CountMod
    /\ \A i \in 1..Len(Run(blocks)) : i <= len => file[at + 2 + i] = Run(blocks)[i]

LaidOut(file, primary, secondary, has_secondary) ==
    /\ file \in Seq(Nat)
    /\ AreaAt(file, 0, primary, AreaLen)
    /\ IF has_secondary
       THEN \E k \in Nat : /\ Len(Run(secondary)) <= k /\ Len(file) = SectorLen + 2 + k
                           /\ AreaAt(file, SectorLen, secondary, k)
       ELSE Len(file) = SectorLen

\* A header and an area, put between front and more cells.
IsPut(file, front, blocks, len, more) ==
    /\ file \in Seq(Nat) /\ Len(file) = Len(front) + 2 + len + more
    /\ AreaAt(file, Len(front), blocks, len)

LEMMA AreaPut ==
    ASSUME NEW blocks \in Seq(BlockType), NEW area, NEW len \in Nat,
           Resized(area, Run(blocks), len), NEW front \in Seq(Nat), NEW back \in Seq(Nat)
    PROVE  /\ Header(blocks) \o area \in Seq(Nat)
           /\ IsPut((front \o (Header(blocks) \o area)) \o back, front, blocks, len, Len(back))
<1>1. PICK c \in Nat : c = Len(blocks) % CountMod
  <2>1. PICK n \in Nat, P \in Nat \ {0} : n = Len(blocks) /\ P = CountMod
    BY SectorAssumption
  <2>2. n % P \in 0..(P - 1)
    BY Division
  <2>3. n % P \in Nat
    BY <2>2
  <2> QED
    BY <2>1, <2>3, Zenon
<1>2. PICK head : head = Header(blocks)
  OBVIOUS
<1>3. head \in Seq(Nat) /\ Len(head) = 2 /\ head[1] = c
  BY <1>1, <1>2 DEF Header
<1>4. area \in Seq(Nat) /\ Len(area) = len /\ Begins(area, Run(blocks))
  BY DEF Resized
<1>5. PICK x \in Seq(Nat) : x = head \o area /\ IsJoin(x, head, area)
  BY <1>3, <1>4, JoinedEnds, Zenon
<1>6. PICK y \in Seq(Nat) : y = front \o x /\ IsJoin(y, front, x)
  BY <1>5, JoinedEnds, Zenon
<1>7. PICK z \in Seq(Nat) : z = y \o back /\ IsJoin(z, y, back)
  BY <1>6, JoinedEnds, Zenon
<1>8. PICK f \in Nat, b \in Nat : f = Len(front) /\ b = Len(back)
  OBVIOUS
<1>9. Len(x) = 2 + len
  BY <1>3, <1>4, <1>5 DEF IsJoin
<1>10. Len(y) = f + (2 + len)
  BY <1>6, <1>8, <1>9, Zenon DEF IsJoin
<1>11. Len(z) = (f + (2 + len)) + b
  BY <1>7, <1>8, <1>10, Zenon DEF IsJoin
<1>12. Len(z) = f + 2 + len + b
  <2>1. (f + (2 + len)) + b = f + 2 + len + b
    OBVIOUS
  <2> QED
    BY <1>11, <2>1
<1>13. \A i \in 1..(f + (2 + len)) : z[i] = y[i]
  BY <1>7, <1>10, Zenon DEF IsJoin
<1>15. \A i \in 1..(2 + len) : y[f + i] = x[i]
  BY <1>6, <1>8, <1>9, Zenon DEF IsJoin
<1>16. x[1] = c /\ \A i \in 1..len : x[2 + i] = area[i]
  <2>1. \A i \in 1..2 : x[i] = head[i]
    BY <1>3, <1>5, Zenon DEF IsJoin
  <2>2. \A i \in 1..len : x[2 + i] = area[i]
    BY <1>3, <1>4, <1>5, Zenon DEF IsJoin
  <2>3. 1 \in 1..2
    OBVIOUS
  <2> QED
    BY <1>3, <2>1, <2>2, <2>3
<1>17. z[f + 1] = c
  <2>1. 1 \in 1..(2 + len) /\ f + 1 \in 1..(f + (2 + len))
    OBVIOUS
  <2> QED
    BY <1>13, <1>15, <1>16, <2>1
<1>18. ASSUME NEW i \in 1..Len(Run(blocks)), i <= len PROVE z[f + 2 + i] = Run(blocks)[i]
  <2>1. i \in Nat \ {0}
    <3>1. Len(Run(blocks)) \in Nat
      BY RunStands
    <3> QED
      BY <3>1
  <2>2. i \in 1..len /\ 2 + i \in 1..(2 + len) /\ f + 2 + i \in 1..(f + (2 + len))
        /\ f + 2 + i = f + (2 + i)
    BY <1>18, <2>1
  <2>3. area[i] = Run(blocks)[i]
    BY <1>4, <1>18 DEF Begins
  <2> QED
    BY <1>13, <1>15, <1>16, <2>2, <2>3, Zenon
<1>19. AreaAt(z, f, blocks, len)
  BY <1>1, <1>17, <1>18 DEF AreaAt
<1> QED
  BY <1>2, <1>5, <1>6, <1>7, <1>8, <1>12, <1>19, Zenon DEF IsPut


LEMMA FirstPut ==
    ASSUME NEW blocks \in Seq(BlockType), NEW area, NEW len \in Nat,
           Resized(area, Run(blocks), len), NEW back \in Seq(Nat)
    PROVE  /\ Header(blocks) \o area \in Seq(Nat) /\ Len(Header(blocks) \o area) = 2 + len
           /\ IsPut((Header(blocks) \o area) \o back, <<>>, blocks, len, Len(back))
<1>1. PICK none \in Seq(Nat) : none = <<>> /\ Len(none) = 0
  BY EmptySeq
<1>2. PICK x \in Seq(Nat) : x = Header(blocks) \o area
  BY <1>1, AreaPut, Zenon
<1>3. IsPut((none \o (Header(blocks) \o area)) \o back, none, blocks, len, Len(back))
  BY <1>1, AreaPut, Zenon
<1>4. IsPut((none \o (Header(blocks) \o area)) \o none, none, blocks, len, Len(none))
  BY <1>1, AreaPut, Zenon
<1>5. none \o x = x /\ x \o none = x
  BY <1>1, ConcatEmptySeq
<1>6. IsPut(x \o back, <<>>, blocks, len, Len(back))
  BY <1>1, <1>2, <1>3, <1>5, Zenon
<1>7. IsPut(x, none, blocks, len, Len(none))
  BY <1>2, <1>4, <1>5, Zenon
<1>8. Len(x) = 2 + len
  <2>1. Len(x) = Len(none) + 2 + len + Len(none)
    BY <1>7, Zenon DEF IsPut
  <2>2. Len(none) + 2 + len + Len(none) = 2 + len
    BY <1>1
  <2> QED
    BY <2>1, <2>2, Zenon
<1> QED
  BY <1>2, <1>6, <1>8, Zenon

LEMMA SecondPut ==
    ASSUME NEW blocks \in Seq(BlockType), NEW area, NEW len \in Nat,
           Resized(area, Run(blocks), len), NEW front \in Seq(Nat)
    PROVE  IsPut(front \o (Header(blocks) \o area), front, blocks, len, 0)
<1>1. PICK none \in Seq(Nat) : none = <<>> /\ Len(none) = 0
  BY EmptySeq
<1>2. PICK x \in Seq(Nat) : x = Header(blocks) \o area
  BY <1>1, AreaPut, Zenon
<1>3. PICK y \in Seq(Nat) : y = front \o x
  BY <1>2, ConcatProperties
<1>4. IsPut((front \o (Header(blocks) \o area)) \o none, front, blocks, len, Len(none))
  BY <1>1, AreaPut, Zenon
<1>5. y \o none = y
  BY <1>1, ConcatEmptySeq
<1> QED
  BY <1>1, <1>2, <1>3, <1>4, <1>5, Zenon

LEMMA FileIsLaidOut ==
    ASSUME NEW primary \in Seq(BlockType), NEW secondary \in Seq(BlockType),
           NEW has_secondary \in BOOLEAN
    PROVE  LaidOut(FileBytes(primary, secondary, has_secondary),
                   primary, secondary, has_secondary)
<1>2. Resized(PrimaryArea(primary), Run(primary), AreaLen) /\ AreaLen \in Nat
  BY PrimaryIs, AreaLenIs
<1>3. PICK front : front = Header(primary) \o PrimaryArea(primary)
  OBVIOUS
<1>4. /\ front \in Seq(Nat) /\ Len(front) = 2 + AreaLen
      /\ \A back \in Seq(Nat) : IsPut(front \o back, <<>>, primary, AreaLen, Len(back))
  <2>1. \A back \in Seq(Nat) :
           /\ Header(primary) \o PrimaryArea(primary) \in Seq(Nat)
           /\ Len(Header(primary) \o PrimaryArea(primary)) = 2 + AreaLen
           /\ IsPut((Header(primary) \o PrimaryArea(primary)) \o back, <<>>, primary, AreaLen,
                    Len(back))
    BY <1>2, FirstPut, Zenon
  <2>2. \E back : back \in Seq(Nat)
    BY EmptySeq, Zenon
  <2> QED
    BY <1>3, <2>1, <2>2, Zenon
<1>5. Len(front) = SectorLen
  BY <1>4, AreaLenIs
<1>6. \A back \in Seq(Nat) : front \o back \in Seq(Nat) /\ AreaAt(front \o back, 0, primary, AreaLen)
  <2>1. Len(<<>>) = 0
    OBVIOUS
  <2> QED
    BY <1>4, <2>1, Zenon DEF IsPut
<1>7. CASE has_secondary
  <2>1. PICK k \in Nat : /\ Len(Run(secondary)) <= k
                         /\ Resized(SecondaryArea(secondary), Run(secondary), k)
    BY SecondaryIs
  <2>2. PICK back : back = Header(secondary) \o SecondaryArea(secondary)
    OBVIOUS
  <2>3. back \in Seq(Nat)
    BY <2>1, <2>2, EmptySeq, FirstPut, Zenon
  <2>4. IsPut(front \o back, front, secondary, k, 0)
    BY <1>4, <2>1, <2>2, SecondPut, Zenon
  <2>5. AreaAt(front \o back, SectorLen, secondary, k) /\ Len(front \o back) = SectorLen + 2 + k
    <3>1. AreaAt(front \o back, SectorLen, secondary, k)
          /\ Len(front \o back) = SectorLen + 2 + k + 0
      BY <1>5, <2>4, Zenon DEF IsPut
    <3>2. SectorLen + 2 + k + 0 = SectorLen + 2 + k
      BY AreaLenIs
    <3> QED
      BY <3>1, <3>2
  <2>6. FileBytes(primary, secondary, has_secondary) = front \o back
    BY <1>3, <1>7, <2>2 DEF FileBytes
  <2> QED
    BY <1>6, <1>7, <2>1, <2>3, <2>5, <2>6, Zenon DEF LaidOut
<1>8. CASE ~has_secondary
  <2>1. FileBytes(primary, secondary, has_secondary) = front \o <<>>
    BY <1>3, <1>8 DEF FileBytes
  <2>2. front \o <<>> = front /\ <<>> \in Seq(Nat)
    BY <1>4, ConcatEmptySeq, EmptySeq
  <2> QED
    BY <1>5, <1>6, <1>8, <2>1, <2>2, Zenon DEF LaidOut
<1> QED
  BY <1>7, <1>8

\* What is on the disc is the file, cut or padded by zeros.
CutOrPadded(bytes, file) ==
    /\ bytes \in Seq(Nat)
    /\ \A i \in 1..Len(bytes) : bytes[i] = IF i <= Len(file) THEN file[i] ELSE 0

\* Blocks that the length fields and the count of a header can hold.
Holds(blocks) == blocks \in Seq(BlockType) /\ Fit(blocks) /\ Len(blocks) < CountMod

IsRead(read, blocks, len) ==
    IF Len(Run(blocks)) <= len THEN read.error = FALSE /\ read.blocks = blocks ELSE read.error

\* An area in the bytes on the disc, from cell at + 3 to the end.
LEMMA AreaBegins ==
    ASSUME NEW blocks \in Seq(BlockType),
           NEW bytes \in Seq(Nat), NEW at \in Nat, NEW end \in Nat,
           at + 2 <= end, end <= Len(bytes),
           AreaAt(bytes, at, blocks, end - (at + 2))
    PROVE  \E area \in Seq(Nat) :
              /\ area = SubSeq(bytes, at + 3, end) /\ Len(area) = end - (at + 2)
              /\ Begins(area, Run(blocks))
<1>2. PICK lo \in Nat : lo = at + 2 /\ lo + 1 = at + 3
  OBVIOUS
<1>3. PICK len \in Nat : len = end - lo
  BY <1>2
<1>4. PICK area \in Seq(Nat) : area = SubSeq(bytes, lo + 1, end) /\ IsPart(area, bytes, lo, end)
  <2>1. lo <= end
    BY <1>2
  <2> QED
    BY <2>1, Part, Zenon
<1>5. Len(area) = len /\ \A i \in 1..len : area[i] = bytes[lo + i]
  BY <1>3, <1>4, Zenon DEF IsPart
<1>6. Begins(area, Run(blocks))
  <2>1. SUFFICES ASSUME NEW i \in 1..Len(Run(blocks)), i <= len PROVE area[i] = Run(blocks)[i]
    BY <1>5 DEF Begins
  <2>2. i \in Nat \ {0}
    <3>1. Len(Run(blocks)) \in Nat
      BY RunStands
    <3> QED
      BY <3>1
  <2>3. i \in 1..len
    BY <2>1, <2>2
  <2>4. bytes[lo + i] = Run(blocks)[i]
    BY <1>2, <1>3, <2>1, Zenon DEF AreaAt
  <2> QED
    BY <1>5, <2>3, <2>4
<1> QED
  BY <1>2, <1>3, <1>4, <1>5, <1>6, Zenon

LEMMA AreaOnDisc ==
    ASSUME NEW blocks, Holds(blocks),
           NEW bytes \in Seq(Nat), NEW at \in Nat, NEW end \in Nat,
           at + 2 <= end, end <= Len(bytes),
           AreaAt(bytes, at, blocks, end - (at + 2))
    PROVE  IsRead(ParseArea(SubSeq(bytes, at + 3, end), bytes[at + 1]), blocks, end - (at + 2))
<1>0. blocks \in Seq(BlockType) /\ Fit(blocks) /\ Len(blocks) < CountMod
  BY DEF Holds
<1>1. bytes[at + 1] = Len(blocks)
  <2>1. PICK n \in Nat, P \in Nat \ {0} : n = Len(blocks) /\ P = CountMod
    BY <1>0, SectorAssumption
  <2>2. n % P = n
    BY <1>0, <2>1, SmallRemainder, Zenon
  <2> QED
    BY <2>1, <2>2, Zenon DEF AreaAt
<1>3. PICK len : len = end - (at + 2)
  OBVIOUS
<1>4. PICK area \in Seq(Nat) : /\ area = SubSeq(bytes, at + 3, end) /\ Len(area) = len
                              /\ Begins(area, Run(blocks))
  BY <1>0, <1>3, AreaBegins
<1>7. IF Len(Run(blocks)) <= len
      THEN ParseArea(area, Len(blocks)) =
              [error |-> FALSE, at |-> Len(Run(blocks)), blocks |-> blocks]
      ELSE ParseArea(area, Len(blocks)).error
  BY <1>0, <1>4, AreaRead, Zenon
<1>8. Len(Run(blocks)) <= len =>
         ParseArea(area, Len(blocks)).error = FALSE /\ ParseArea(area, Len(blocks)).blocks = blocks
  BY <1>7
<1> QED
  BY <1>1, <1>3, <1>4, <1>7, <1>8, Zenon DEF IsRead

LEMMA RemainderAtMost ==
    ASSUME NEW n \in Nat, NEW P \in Nat \ {0}
    PROVE  n % P \in Nat /\ n % P <= n
<1>1. n \div P \in Nat /\ n % P \in 0..(P - 1) /\ n = ((n \div P) * P) + (n % P)
  BY Division
<1>2. PICK q \in Nat, m \in Nat : q = n \div P /\ m = n % P
  BY <1>1
<1>3. PICK x : x = q * P
  OBVIOUS
<1>4. x \in Nat
  BY <1>3
<1>5. n = x + m
  BY <1>1, <1>2, <1>3
<1> QED
  BY <1>2, <1>4, <1>5

CountOf(blocks) == Len(blocks) % CountMod

\* The same area, when blocks or their number may be too long.
LEMMA LeadOnDisc ==
    ASSUME NEW blocks \in Seq(BlockType),
           NEW bytes \in Seq(Nat), NEW at \in Nat, NEW end \in Nat,
           at + 2 <= end, end <= Len(bytes),
           AreaAt(bytes, at, blocks, end - (at + 2)),
           NEW read, read = ParseArea(SubSeq(bytes, at + 3, end), bytes[at + 1])
    PROVE  read.error \in BOOLEAN /\ LeadIsRead(read, blocks, CountOf(blocks))
<1>1. PICK c : c = CountOf(blocks)
  OBVIOUS
<1>2. c \in Nat /\ c <= Len(blocks)
  <2>1. PICK n \in Nat, P \in Nat \ {0} : n = Len(blocks) /\ P = CountMod
    BY SectorAssumption
  <2> QED
    BY <1>1, <2>1, RemainderAtMost, Zenon DEF CountOf
<1>3. bytes[at + 1] = c
  BY <1>1, Zenon DEF AreaAt, CountOf
<1>4. PICK area \in Seq(Nat) : area = SubSeq(bytes, at + 3, end) /\ Begins(area, Run(blocks))
  BY AreaBegins
<1> QED
  BY <1>1, <1>2, <1>3, <1>4, LeadRead, Zenon

\* An area of the file that the disc has kept, as far as m cells of it.
LEMMA AreaKept ==
    ASSUME NEW blocks \in Seq(BlockType), NEW file \in Seq(Nat), NEW bytes \in Seq(Nat),
           CutOrPadded(bytes, file), NEW at \in Nat, NEW k \in Nat, NEW m \in Nat,
           AreaAt(file, at, blocks, k), at + 2 + k <= Len(file), at + 2 + m <= Len(bytes),
           m <= k \/ Len(Run(blocks)) <= k
    PROVE  AreaAt(bytes, at, blocks, m)
<1>1. PICK l \in Nat, b \in Nat, r \in Nat : l = Len(file) /\ b = Len(bytes) /\ r = Len(Run(blocks))
  <2>1. Len(Run(blocks)) \in Nat
    BY RunStands
  <2> QED
    BY <2>1
<1>2. at + 2 + k <= l /\ at + 2 + m <= b
  BY <1>1
<1>3. \A i \in 1..b : i <= l => bytes[i] = file[i]
  BY <1>1, Zenon DEF CutOrPadded
<1>4. bytes[at + 1] = file[at + 1]
  <2>1. at + 1 \in 1..b /\ at + 1 <= l
    BY <1>2
  <2> QED
    BY <1>3, <2>1
<1>5. ASSUME NEW i \in 1..r, i <= m PROVE bytes[at + 2 + i] = Run(blocks)[i]
  <2>1. i <= k
    <3>1. m <= k \/ r <= k
      BY <1>1
    <3> QED
      BY <1>5, <3>1
  <2>2. at + 2 + i \in 1..b /\ at + 2 + i <= l
    BY <1>2, <1>5, <2>1
  <2>3. file[at + 2 + i] = Run(blocks)[i]
    BY <1>1, <2>1, Zenon DEF AreaAt
  <2> QED
    BY <1>3, <2>2, <2>3
<1> QED
  BY <1>1, <1>4, <1>5, Zenon DEF AreaAt

\* What ParseFile reads of the two areas, and what it makes of them.
PrimaryRead(bytes) == ParseArea(SubSeq(bytes, 3, SectorLen), bytes[1])
SecondaryRead(bytes) ==
    ParseArea(SubSeq(bytes, SectorLen + 3, Len(bytes)), bytes[SectorLen + 1])

OneArea(blocks) ==
    [error |-> FALSE, primary |-> blocks, secondary |-> <<>>, has_secondary |-> FALSE]
TwoAreas(blocks, more) ==
    [error |-> FALSE, primary |-> blocks, secondary |-> more, has_secondary |-> TRUE]

FileOf(bytes, primary, secondary) ==
    IF Len(bytes) < SectorLen THEN Failed
    ELSE IF primary.error THEN Failed
    ELSE IF Len(bytes) = SectorLen THEN OneArea(primary.blocks)
    ELSE IF Len(bytes) < SectorLen + 2 \/ secondary.error THEN Failed
    ELSE TwoAreas(primary.blocks, secondary.blocks)

LEMMA ParseFileIs ==
    ASSUME NEW bytes
    PROVE  ParseFile(bytes) = FileOf(bytes, PrimaryRead(bytes), SecondaryRead(bytes))
<1>1. AreaHeaderLen + 1 = 3 /\ SectorLen + AreaHeaderLen + 1 = SectorLen + 3
  BY AreaLenIs DEF AreaHeaderLen
<1>2. PrimaryRead(bytes) = ParseArea(SubSeq(bytes, AreaHeaderLen + 1, SectorLen), bytes[1])
  BY <1>1, Zenon DEF PrimaryRead
<1>3. SecondaryRead(bytes) =
         ParseArea(SubSeq(bytes, SectorLen + AreaHeaderLen + 1, Len(bytes)), bytes[SectorLen + 1])
  BY <1>1, Zenon DEF SecondaryRead
<1>4. AreaHeaderLen = 2
  BY DEF AreaHeaderLen
<1> QED
  BY <1>2, <1>3, <1>4, Zenon DEF ParseFile, FileOf, OneArea, TwoAreas

LEMMA FailedIs ==
    Failed.error
BY DEF Failed

LEMMA PrimaryKept ==
    ASSUME NEW primary \in Seq(BlockType), NEW secondary, NEW has_secondary \in BOOLEAN,
           NEW file, LaidOut(file, primary, secondary, has_secondary),
           NEW bytes, CutOrPadded(bytes, file), SectorLen <= Len(bytes)
    PROVE  AreaAt(bytes, 0, primary, SectorLen - (0 + 2))
<1>1. file \in Seq(Nat) /\ bytes \in Seq(Nat) /\ AreaAt(file, 0, primary, AreaLen)
  BY DEF LaidOut, CutOrPadded
<1>2. AreaLen \in Nat /\ SectorLen \in Nat /\ 0 + 2 + AreaLen = SectorLen /\ 0 \in Nat
      /\ SectorLen - (0 + 2) = AreaLen /\ AreaLen <= AreaLen
  BY AreaLenIs
<1>3. SectorLen <= Len(file)
  <2>1. CASE has_secondary
    <3>1. PICK k \in Nat : Len(file) = SectorLen + 2 + k
      BY <2>1, Zenon DEF LaidOut
    <3> QED
      BY <1>2, <3>1
  <2>2. CASE ~has_secondary
    BY <1>2, <2>2 DEF LaidOut
  <2> QED
    BY <2>1, <2>2
<1>4. AreaAt(bytes, 0, primary, AreaLen)
  <2>1. 0 + 2 + AreaLen <= Len(file) /\ 0 + 2 + AreaLen <= Len(bytes)
    BY <1>2, <1>3
  <2> QED
    BY <1>1, <1>2, <2>1, AreaKept, Zenon
<1> QED
  BY <1>2, <1>4, Zenon

LEMMA PrimaryIsRead ==
    ASSUME NEW primary \in Seq(BlockType), NEW secondary, NEW has_secondary \in BOOLEAN,
           NEW file, LaidOut(file, primary, secondary, has_secondary),
           NEW bytes, CutOrPadded(bytes, file), SectorLen <= Len(bytes)
    PROVE  /\ Holds(primary) => IsRead(PrimaryRead(bytes), primary, AreaLen)
           /\ PrimaryRead(bytes).error \in BOOLEAN
           /\ LeadIsRead(PrimaryRead(bytes), primary, CountOf(primary))
<1>1. bytes \in Seq(Nat)
  BY DEF CutOrPadded
<1>2. AreaLen \in Nat /\ SectorLen \in Nat /\ 0 \in Nat
      /\ SectorLen - (0 + 2) = AreaLen /\ 0 + 2 <= SectorLen /\ 0 + 3 = 3 /\ 0 + 1 = 1
  BY AreaLenIs
<1>5. AreaAt(bytes, 0, primary, SectorLen - (0 + 2))
  BY PrimaryKept, Zenon
<1>6. Holds(primary) =>
        IsRead(ParseArea(SubSeq(bytes, 0 + 3, SectorLen), bytes[0 + 1]), primary,
               SectorLen - (0 + 2))
  BY <1>1, <1>2, <1>5, AreaOnDisc, Zenon
<1>7. PICK read : read = ParseArea(SubSeq(bytes, 0 + 3, SectorLen), bytes[0 + 1])
  OBVIOUS
<1>8. read.error \in BOOLEAN /\ LeadIsRead(read, primary, CountOf(primary))
  BY <1>1, <1>2, <1>5, <1>7, LeadOnDisc, Zenon
<1> QED
  BY <1>2, <1>6, <1>7, <1>8, Zenon DEF PrimaryRead

LEMMA SecondaryIsRead ==
    ASSUME NEW primary, NEW secondary \in Seq(BlockType),
           NEW file, LaidOut(file, primary, secondary, TRUE),
           NEW bytes, CutOrPadded(bytes, file), SectorLen + 2 <= Len(bytes)
    PROVE  /\ (Holds(secondary) /\ Len(file) <= Len(bytes)) => SecondaryRead(bytes).error = FALSE
           /\ SecondaryRead(bytes).error \in BOOLEAN
           /\ LeadIsRead(SecondaryRead(bytes), secondary, CountOf(secondary))
<1>1. file \in Seq(Nat) /\ bytes \in Seq(Nat)
  BY DEF LaidOut, CutOrPadded
<1>2. PICK k \in Nat : /\ Len(Run(secondary)) <= k /\ Len(file) = SectorLen + 2 + k
                       /\ AreaAt(file, SectorLen, secondary, k)
  BY Zenon DEF LaidOut
<1>3. PICK S \in Nat : S = SectorLen
  BY AreaLenIs
<1>4. PICK b \in Nat : b = Len(bytes) /\ S + 2 <= b
  BY <1>1, <1>3
<1>5. PICK m \in Nat : m = b - (S + 2)
  <2>1. b - (S + 2) \in Nat
    BY <1>4
  <2> QED
    BY <2>1
<1>6. S + 2 + k <= Len(file) /\ S + 2 + m <= b
  BY <1>2, <1>3, <1>4, <1>5
<1>7. AreaAt(bytes, S, secondary, m)
  BY <1>1, <1>2, <1>3, <1>4, <1>6, AreaKept, Zenon
<1>8. AreaAt(bytes, S, secondary, b - (S + 2))
  BY <1>5, <1>7, Zenon
<1>9. b <= Len(bytes)
  BY <1>4
<1>10. PICK read : read = ParseArea(SubSeq(bytes, S + 3, b), bytes[S + 1])
  OBVIOUS
<1>11. Holds(secondary) => IsRead(read, secondary, m)
  <2>1. Holds(secondary) => IsRead(read, secondary, b - (S + 2))
    BY <1>1, <1>4, <1>8, <1>9, <1>10, AreaOnDisc, Zenon
  <2> QED
    BY <1>5, <2>1, Zenon
<1>13. read.error \in BOOLEAN /\ LeadIsRead(read, secondary, CountOf(secondary))
  BY <1>1, <1>4, <1>8, <1>9, <1>10, LeadOnDisc, Zenon
<1>14. read = SecondaryRead(bytes)
  BY <1>3, <1>4, <1>10, Zenon DEF SecondaryRead
<1>12. ASSUME Len(file) <= Len(bytes) PROVE Len(Run(secondary)) <= m
  <2>1. PICK r \in Nat : r = Len(Run(secondary))
    <3>1. Len(Run(secondary)) \in Nat
      BY RunStands
    <3> QED
      BY <3>1
  <2>2. r <= k /\ S + 2 + k <= b
    BY <1>2, <1>3, <1>4, <1>12, <2>1
  <2>3. r <= m
    BY <1>5, <2>2
  <2> QED
    BY <2>1, <2>3
<1> QED
  BY <1>11, <1>12, <1>13, <1>14, Zenon DEF IsRead

\* Beyond the end of a file there are no blocks.
LEMMA NothingBeyond ==
    ASSUME NEW primary, NEW secondary, NEW file, LaidOut(file, primary, secondary, FALSE),
           NEW bytes, CutOrPadded(bytes, file), SectorLen + 2 <= Len(bytes)
    PROVE  SecondaryRead(bytes) = NothingRead
<1>1. file \in Seq(Nat) /\ bytes \in Seq(Nat) /\ Len(file) = SectorLen
  BY Zenon DEF LaidOut, CutOrPadded
<1>2. PICK S \in Nat, b \in Nat : S = SectorLen /\ b = Len(bytes) /\ S + 2 <= b
  <2>1. PICK S \in Nat : S = SectorLen
    BY AreaLenIs
  <2>2. PICK b \in Nat : b = Len(bytes)
    BY <1>1
  <2> QED
    BY <2>1, <2>2
<1>3. bytes[S + 1] = 0
  <2>1. S + 1 \in 1..b /\ ~(S + 1 <= S)
    BY <1>2
  <2> QED
    BY <1>1, <1>2, <2>1, Zenon DEF CutOrPadded
<1>4. PICK lo \in Nat : lo = S + 2 /\ lo + 1 = S + 3
  OBVIOUS
<1>5. SubSeq(bytes, lo + 1, b) \in Seq(Nat)
  <2>1. lo <= b /\ b <= Len(bytes)
    BY <1>2, <1>4
  <2> QED
    BY <1>1, <2>1, Part, Zenon
<1>6. PICK area \in Seq(Nat) : area = SubSeq(bytes, S + 3, b)
  BY <1>4, <1>5, Zenon
<1>7. ParseArea(area, 0) = NothingRead
  <2>1. PICK p : Parses(area, 0, p) /\ ParseArea(area, 0) = p[0]
    BY ParseUpto
  <2> QED
    BY <2>1 DEF Parses
<1> QED
  BY <1>2, <1>3, <1>6, <1>7, Zenon DEF SecondaryRead

\* When a file that was cut or padded is refused.
ReadOrRefused(bytes, file, primary) ==
    /\ ~(Len(Run(primary)) <= AreaLen) => ParseFile(bytes).error
    /\ (Len(Run(primary)) <= AreaLen /\ bytes = file) => ParseFile(bytes).error = FALSE

LEMMA FileIsRead ==
    ASSUME NEW primary, NEW secondary, NEW has_secondary \in BOOLEAN,
           Holds(primary), Holds(secondary),
           NEW file, LaidOut(file, primary, secondary, has_secondary),
           NEW bytes, CutOrPadded(bytes, file)
    PROVE  ReadOrRefused(bytes, file, primary)
<1>0. primary \in Seq(BlockType) /\ secondary \in Seq(BlockType)
  BY DEF Holds
<1>1. PICK one, two : one = PrimaryRead(bytes) /\ two = SecondaryRead(bytes)
  OBVIOUS
<1>2. ParseFile(bytes) = FileOf(bytes, one, two)
  BY <1>1, ParseFileIs
<1>3. PICK S \in Nat, b \in Nat : S = SectorLen /\ b = Len(bytes)
  <2>1. PICK S \in Nat : S = SectorLen
    BY AreaLenIs
  <2>2. PICK b \in Nat : b = Len(bytes)
    BY DEF CutOrPadded
  <2> QED
    BY <2>1, <2>2
<1>4. bytes = file => S <= b
  <2>1. CASE has_secondary
    <3>1. PICK k \in Nat : Len(file) = SectorLen + 2 + k
      BY <2>1, Zenon DEF LaidOut
    <3> QED
      BY <1>3, <3>1
  <2>2. CASE ~has_secondary
    BY <1>3, <2>2 DEF LaidOut
  <2> QED
    BY <2>1, <2>2
<1>5. CASE ~(S <= b)
  <2>1. b < S
    BY <1>5
  <2>2. ParseFile(bytes) = Failed
    BY <1>2, <1>3, <2>1, Zenon DEF FileOf
  <2> QED
    BY <1>4, <1>5, <2>2, FailedIs DEF ReadOrRefused
<1>6. CASE S <= b
  <2>1. IsRead(one, primary, AreaLen) /\ ~(b < S)
    <3>1. SectorLen <= Len(bytes)
      BY <1>3, <1>6
    <3>2. ~(b < S)
      BY <1>6
    <3> QED
      BY <1>0, <1>1, <3>1, <3>2, PrimaryIsRead, Zenon
  <2>2. CASE ~(Len(Run(primary)) <= AreaLen)
    <3>1. ParseFile(bytes) = Failed
      BY <1>2, <1>3, <2>1, <2>2, Zenon DEF FileOf, IsRead
    <3> QED
      BY <2>2, <3>1, FailedIs DEF ReadOrRefused
  <2>3. CASE Len(Run(primary)) <= AreaLen /\ b = S
    <3>1. ParseFile(bytes) = OneArea(primary)
      BY <1>2, <1>3, <2>1, <2>3 DEF FileOf, IsRead
    <3>2. OneArea(primary).error = FALSE
      BY DEF OneArea
    <3> QED
      BY <1>3, <2>3, <3>1, <3>2 DEF ReadOrRefused
  <2>4. CASE Len(Run(primary)) <= AreaLen /\ b # S
    <3>1. one.error = FALSE /\ one.blocks = primary
      BY <2>1, <2>4 DEF IsRead
    <3>2. ParseFile(bytes) = IF b < S + 2 \/ two.error THEN Failed
                             ELSE TwoAreas(primary, two.blocks)
      BY <1>2, <1>3, <2>1, <2>4, <3>1 DEF FileOf
    <3>3. CASE b < S + 2
      <4>1. ParseFile(bytes).error
        BY <3>2, <3>3, FailedIs
      <4>2. bytes # file
        <5>1. CASE has_secondary
          <6>1. PICK k \in Nat : Len(file) = SectorLen + 2 + k
            BY <5>1, Zenon DEF LaidOut
          <6> QED
            BY <1>3, <3>3, <6>1
        <5>2. CASE ~has_secondary
          BY <1>3, <2>4, <5>2 DEF LaidOut
        <5> QED
          BY <5>1, <5>2
      <4> QED
        BY <2>4, <4>1, <4>2 DEF ReadOrRefused
    <3>4. CASE ~(b < S + 2)
      <4>1. SectorLen + 2 <= Len(bytes)
        BY <1>3, <3>4
      <4>2. CASE has_secondary
        <5>1. LaidOut(file, primary, secondary, TRUE)
          BY <4>2
        <5>2. bytes = file => two.error = FALSE
          <6>1. b <= b
            OBVIOUS
          <6> QED
            BY <1>0, <1>1, <1>3, <4>1, <5>1, <6>1, SecondaryIsRead, Zenon
        <5>4. CASE two.error
          BY <2>4, <3>2, <5>2, <5>4, FailedIs DEF ReadOrRefused
        <5>5. CASE ~two.error
          <6>1. ParseFile(bytes) = TwoAreas(primary, two.blocks)
            BY <3>2, <3>4, <5>5, Zenon
          <6>2. TwoAreas(primary, two.blocks).error = FALSE
            BY DEF TwoAreas
          <6> QED
            BY <2>4, <6>1, <6>2, Zenon DEF ReadOrRefused
        <5> QED
          BY <5>4, <5>5
      <4>3. CASE ~has_secondary
        <5>1. LaidOut(file, primary, secondary, FALSE)
          BY <4>3
        <5>2. two = NothingRead
          BY <1>1, <4>1, <5>1, NothingBeyond, Zenon
        <5>3. two.error = FALSE /\ two.blocks = <<>>
          BY <5>2 DEF NothingRead
        <5>4. ParseFile(bytes) = TwoAreas(primary, <<>>)
          BY <3>2, <3>4, <5>3, Zenon
        <5>5. TwoAreas(primary, <<>>).error = FALSE
          BY DEF TwoAreas
        <5> QED
          BY <1>3, <2>4, <4>3, <5>4, <5>5, Zenon DEF ReadOrRefused
      <4> QED
        BY <4>2, <4>3
    <3> QED
      BY <3>3, <3>4
  <2> QED
    BY <2>2, <2>3, <2>4
<1> QED
  BY <1>5, <1>6

\* What it is read as, when it is not.
Reads(read, bytes, primary, secondary, has_secondary) ==
    /\ Leads(read.primary, primary, CountOf(primary))
    /\ read.has_secondary = (Len(bytes) # SectorLen)
    /\ IF has_secondary /\ Len(bytes) # SectorLen
       THEN Leads(read.secondary, secondary, CountOf(secondary))
       ELSE read.secondary = <<>>

LEMMA FileLeads ==
    ASSUME NEW primary \in Seq(BlockType), NEW secondary \in Seq(BlockType),
           NEW has_secondary \in BOOLEAN,
           NEW file, LaidOut(file, primary, secondary, has_secondary),
           NEW bytes, CutOrPadded(bytes, file),
           NEW read, read = ParseFile(bytes), ~read.error
    PROVE  Reads(read, bytes, primary, secondary, has_secondary)
<1>1. PICK one, two : one = PrimaryRead(bytes) /\ two = SecondaryRead(bytes)
  OBVIOUS
<1>2. read = FileOf(bytes, one, two)
  BY <1>1, ParseFileIs
<1>3. PICK S \in Nat, b \in Nat : S = SectorLen /\ b = Len(bytes)
  <2>1. PICK S \in Nat : S = SectorLen
    BY AreaLenIs
  <2>2. PICK b \in Nat : b = Len(bytes)
    BY DEF CutOrPadded
  <2> QED
    BY <2>1, <2>2
<1>4. read # Failed
  BY FailedIs
<1>5. ~(b < S) /\ ~one.error
  BY <1>2, <1>3, <1>4 DEF FileOf
<1>6. Leads(one.blocks, primary, CountOf(primary))
  <2>1. SectorLen <= Len(bytes)
    BY <1>3, <1>5
  <2>2. one.error \in BOOLEAN /\ LeadIsRead(one, primary, CountOf(primary))
    BY <1>1, <2>1, PrimaryIsRead, Zenon
  <2>3. one.error = FALSE
    BY <1>5, <2>2
  <2> QED
    BY <2>2, <2>3 DEF LeadIsRead
<1>7. CASE b = S
  <2>1. read = OneArea(one.blocks)
    BY <1>2, <1>3, <1>5, <1>7, Zenon DEF FileOf
  <2>2. read.primary = one.blocks /\ read.secondary = <<>> /\ read.has_secondary = FALSE
    BY <2>1 DEF OneArea
  <2> QED
    BY <1>3, <1>6, <1>7, <2>2 DEF Reads
<1>8. CASE b # S
  <2>1. read = TwoAreas(one.blocks, two.blocks) /\ ~(b < S + 2) /\ ~two.error
    BY <1>2, <1>3, <1>4, <1>5, <1>8, Zenon DEF FileOf
  <2>2. read.primary = one.blocks /\ read.secondary = two.blocks /\ read.has_secondary = TRUE
    BY <2>1 DEF TwoAreas
  <2>3. SectorLen + 2 <= Len(bytes)
    BY <1>3, <2>1
  <2>4. CASE has_secondary
    <3>1. LaidOut(file, primary, secondary, TRUE)
      BY <2>4
    <3>2. two.error \in BOOLEAN /\ LeadIsRead(two, secondary, CountOf(secondary))
      BY <1>1, <2>3, <3>1, SecondaryIsRead, Zenon
    <3>3. two.error = FALSE
      BY <2>1, <3>2
    <3>4. Leads(two.blocks, secondary, CountOf(secondary))
      BY <3>2, <3>3 DEF LeadIsRead
    <3> QED
      BY <1>3, <1>6, <1>8, <2>2, <2>4, <3>4 DEF Reads
  <2>5. CASE ~has_secondary
    <3>1. LaidOut(file, primary, secondary, FALSE)
      BY <2>5
    <3>2. two = NothingRead
      BY <1>1, <2>3, <3>1, NothingBeyond, Zenon
    <3>3. two.blocks = <<>>
      BY <3>2 DEF NothingRead
    <3> QED
      BY <1>3, <1>6, <1>8, <2>2, <2>5, <3>3 DEF Reads
  <2> QED
    BY <2>4, <2>5
<1> QED
  BY <1>7, <1>8

-----------------------------------------------------------------------------
(* The usage rules of UsageFile: the inductive invariant *)

Image == FileBytes(Blocks("primary"), Blocks("secondary"), rules.has_secondary)

\* The rules are rules; a file on the disc is not empty, and is the rules as
\* they were written, until it is cut or padded once.
UsageInv ==
    /\ rules \in [primary : Seq(Rules), secondary : Seq(Rules), has_secondary : BOOLEAN]
    /\ touched \in BOOLEAN
    /\ disc_file = NotSaved => ~touched
    /\ disc_file # NotSaved => CutOrPadded(disc_file, Image)
    /\ (disc_file # NotSaved /\ ~touched) => disc_file = Image

LEMMA RulesHave ==
    ASSUME UsageInv, NEW area \in Areas
    PROVE  rules[area] \in Seq(Rules) /\ rules.has_secondary \in BOOLEAN
BY DEF UsageInv, Areas

\* The blocks of an area are blocks, and are read as the rules they are of.
LEMMA BlocksAre ==
    ASSUME UsageInv, NEW area \in Areas
    PROVE  /\ Blocks(area) \in Seq(BlockType) /\ Len(Blocks(area)) = Len(rules[area])
           /\ \A n \in 1..Len(rules[area]) : FromBlock(Blocks(area)[n]) = rules[area][n]
           /\ FieldsHold => Holds(Blocks(area))
<1>1. PICK s \in Seq(Rules) : s = rules[area]
  BY RulesHave
<1>2. PICK l \in Nat : l = Len(s)
  OBVIOUS
<1>3. PICK b : b = Blocks(area)
  OBVIOUS
<1>4. b = [n \in 1..l |-> ToBlock(s[n])]
  BY <1>1, <1>2, <1>3 DEF Blocks
<1>5. \A n \in 1..l : s[n] \in Rules /\ ToBlock(s[n]) \in BlockType /\ FromBlock(ToBlock(s[n])) = s[n]
  BY <1>2, RuleReadBack DEF ReadBack
<1>6. b \in Seq(BlockType) /\ Len(b) = l /\ DOMAIN b = 1..l
  <2>1. b \in [1..l -> BlockType]
    BY <1>4, <1>5
  <2> QED
    BY <2>1
<1>7. \A n \in 1..l : FromBlock(b[n]) = s[n]
  BY <1>4, <1>5
<1>8. FieldsHold => Holds(b)
  <2>1. SUFFICES ASSUME FieldsHold PROVE Holds(b)
    OBVIOUS
  <2>2. Len(rules[area]) < CountMod
        /\ \A n \in 1..Len(rules[area]) : Len(Blocks(area)[n].data) < LenMod
    BY <2>1, Zenon DEF FieldsHold, FitsUpTo
  <2>4. Len(b) < CountMod
    BY <1>1, <1>2, <1>6, <2>2, Zenon
  <2>5. \A n \in 1..Len(b) : Len(b[n].data) < LenMod
    BY <1>1, <1>2, <1>3, <1>6, <2>2, Zenon
  <2> QED
    BY <1>6, <2>4, <2>5, Zenon DEF Holds, Fit
<1> QED
  BY <1>1, <1>2, <1>3, <1>6, <1>7, <1>8

LEMMA ImageIs ==
    ASSUME UsageInv
    PROVE  LaidOut(Image, Blocks("primary"), Blocks("secondary"), rules.has_secondary)
<1>1. "primary" \in Areas /\ "secondary" \in Areas
  BY DEF Areas
<1> QED
  BY <1>1, BlocksAre, RulesHave, FileIsLaidOut, Zenon DEF Image

LEMMA LeadsAreRules ==
    ASSUME UsageInv, NEW area \in Areas, NEW got,
           Leads(got, Blocks(area), CountOf(Blocks(area)))
    PROVE  ReadFrom(area, got) /\ Len(got) = Len(rules[area]) % CountMod
<1>1. PICK b \in Seq(BlockType) : b = Blocks(area) /\ Len(b) = Len(rules[area])
  BY BlocksAre
<1>2. PICK c : c = CountOf(b)
  OBVIOUS
<1>3. c \in Nat /\ c <= Len(b) /\ c = Len(rules[area]) % CountMod
  <2>1. PICK n \in Nat, P \in Nat \ {0} : n = Len(b) /\ P = CountMod
    BY SectorAssumption
  <2> QED
    BY <1>1, <1>2, <2>1, RemainderAtMost, Zenon DEF CountOf
<1>4. Len(got) = c /\ DOMAIN got = 1..c
      /\ \A n \in 1..c : FitTo(b, n) => got[n] = b[n]
  BY <1>1, <1>2 DEF Leads
<1>5. ASSUME NEW n \in 1..c, FitsUpTo(area, n) PROVE FromBlock(got[n]) = rules[area][n]
  <2>1. FitTo(b, n)
    BY <1>1, <1>5, Zenon DEF FitTo, FitsUpTo
  <2>2. n \in 1..Len(rules[area])
    BY <1>1, <1>3
  <2> QED
    BY <1>1, <1>4, <2>1, <2>2, BlocksAre
<1> QED
  BY <1>3, <1>4, <1>5 DEF ReadFrom

\* What a file on the disc is read as, when it is not refused.
LEMMA SavedIsRead ==
    ASSUME UsageInv, disc_file # NotSaved, NEW read, read = ParseFile(disc_file), ~read.error
    PROVE  /\ ReadFrom("primary", read.primary)
           /\ read.has_secondary = (Len(disc_file) # SectorLen)
           /\ IF rules.has_secondary /\ Len(disc_file) # SectorLen
              THEN /\ ReadFrom("secondary", read.secondary)
                   /\ Len(read.secondary) = Len(rules.secondary) % CountMod
              ELSE read.secondary = <<>>
<1>1. "primary" \in Areas /\ "secondary" \in Areas
  BY DEF Areas
<1>2. PICK p \in Seq(BlockType), s \in Seq(BlockType) :
         p = Blocks("primary") /\ s = Blocks("secondary")
  BY <1>1, BlocksAre
<1>3. CutOrPadded(disc_file, Image) /\ rules.has_secondary \in BOOLEAN
      /\ LaidOut(Image, p, s, rules.has_secondary)
  BY <1>1, <1>2, RulesHave, ImageIs DEF UsageInv
<1>4. /\ Leads(read.primary, p, CountOf(p))
      /\ read.has_secondary = (Len(disc_file) # SectorLen)
      /\ IF rules.has_secondary /\ Len(disc_file) # SectorLen
         THEN Leads(read.secondary, s, CountOf(s)) ELSE read.secondary = <<>>
  <2>1. Reads(read, disc_file, p, s, rules.has_secondary)
    BY <1>3, FileLeads, Zenon
  <2> QED
    BY <2>1 DEF Reads
<1>5. ReadFrom("primary", read.primary)
  BY <1>1, <1>2, <1>4, LeadsAreRules, Zenon
<1>6. Leads(read.secondary, s, CountOf(s)) =>
         /\ ReadFrom("secondary", read.secondary)
         /\ Len(read.secondary) = Len(rules.secondary) % CountMod
  <2>1. rules["secondary"] = rules.secondary
    OBVIOUS
  <2> QED
    BY <1>1, <1>2, <2>1, LeadsAreRules, Zenon
<1> QED
  BY <1>4, <1>5, <1>6

LEMMA ReadFollows ==
    ASSUME UsageInv
    PROVE  RulesReadAsWritten
<1>1. SUFFICES ASSUME disc_file # NotSaved, ~touched, NEW file, file = ParseFile(disc_file)
               PROVE  /\ FieldsHold => (file.error <=> Len(Run(Blocks("primary"))) > AreaLen)
                      /\ ~file.error =>
                            /\ ReadFrom("primary", file.primary)
                            /\ file.has_secondary = rules.has_secondary
                            /\ IF rules.has_secondary THEN ReadFrom("secondary", file.secondary)
                               ELSE file.secondary = <<>>
  BY Zenon DEF RulesReadAsWritten
<1>2. PICK p, s, h : p = Blocks("primary") /\ s = Blocks("secondary") /\ h = rules.has_secondary
  OBVIOUS
<1>3. h \in BOOLEAN /\ p \in Seq(BlockType) /\ (FieldsHold => Holds(p) /\ Holds(s))
  <2>1. "primary" \in Areas /\ "secondary" \in Areas
    BY DEF Areas
  <2> QED
    BY <1>2, <2>1, BlocksAre, RulesHave
<1>4. disc_file = Image /\ CutOrPadded(disc_file, disc_file)
  BY <1>1 DEF UsageInv
<1>5. LaidOut(disc_file, p, s, h)
  BY <1>2, <1>4, ImageIs
<1>6. ASSUME FieldsHold PROVE file.error <=> Len(Run(p)) > AreaLen
  <2>1. ReadOrRefused(disc_file, disc_file, p)
    BY <1>3, <1>4, <1>5, <1>6, FileIsRead, Zenon
  <2>2. Len(Run(p)) \in Nat /\ AreaLen \in Nat
    BY <1>3, RunStands, AreaLenIs
  <2>3. Len(Run(p)) > AreaLen <=> ~(Len(Run(p)) <= AreaLen)
    BY <2>2
  <2> QED
    BY <1>1, <2>1, <2>3 DEF ReadOrRefused
<1>9. Len(disc_file) # SectorLen <=> h
  <2>2. CASE h
    <3>1. PICK k \in Nat : Len(disc_file) = SectorLen + 2 + k
      BY <1>5, <2>2, Zenon DEF LaidOut
    <3> QED
      BY <2>2, <3>1, AreaLenIs
  <2>3. CASE ~h
    BY <1>5, <2>3 DEF LaidOut
  <2> QED
    BY <2>2, <2>3
<1>10. ASSUME ~file.error
       PROVE  /\ ReadFrom("primary", file.primary) /\ file.has_secondary = h
              /\ IF h THEN ReadFrom("secondary", file.secondary) ELSE file.secondary = <<>>
  <2>1. /\ ReadFrom("primary", file.primary)
        /\ file.has_secondary = (Len(disc_file) # SectorLen)
        /\ IF h /\ Len(disc_file) # SectorLen THEN ReadFrom("secondary", file.secondary)
           ELSE file.secondary = <<>>
    BY <1>1, <1>2, <1>10, SavedIsRead, Zenon
  <2> QED
    BY <1>3, <1>9, <2>1
<1> QED
  BY <1>2, <1>6, <1>10

LEMMA DamageFollows ==
    ASSUME UsageInv
    PROVE  DamagedFileNeverMisread
<1>1. SUFFICES ASSUME touched, NEW file, file = ParseFile(disc_file), ~file.error
               PROVE  /\ ReadFrom("primary", file.primary)
                      /\ file.secondary # <<>> => ReadFrom("secondary", file.secondary)
                      /\ (rules.has_secondary /\ Len(rules.secondary) % CountMod > 0
                            /\ file.secondary = <<>>) => Len(disc_file) = SectorLen
  BY Zenon DEF DamagedFileNeverMisread
<1>2. disc_file # NotSaved
  BY <1>1 DEF UsageInv
<1>3. /\ ReadFrom("primary", file.primary)
      /\ IF rules.has_secondary /\ Len(disc_file) # SectorLen
         THEN /\ ReadFrom("secondary", file.secondary)
              /\ Len(file.secondary) = Len(rules.secondary) % CountMod
         ELSE file.secondary = <<>>
  BY <1>1, <1>2, SavedIsRead, Zenon
<1>4. file.secondary = <<>> => Len(file.secondary) = 0
  OBVIOUS
<1> QED
  BY <1>3, <1>4
-----------------------------------------------------------------------------
LEMMA UsageInvInit ==
    UsageInit => UsageInv
<1> SUFFICES ASSUME UsageInit PROVE UsageInv
  OBVIOUS
<1>1. <<>> \in Seq(Rules)
  BY EmptySeq
<1>2. rules \in [primary : Seq(Rules), secondary : Seq(Rules), has_secondary : BOOLEAN]
  BY <1>1 DEF UsageInit
<1> QED
  BY <1>2 DEF UsageInit, UsageInv

LEMMA ImageStays ==
    ASSUME UNCHANGED rules PROVE Image' = Image
BY DEF Image, Blocks

LEMMA EditKeeps ==
    ASSUME UsageInv, disc_file = NotSaved,
           rules' \in [primary : Seq(Rules), secondary : Seq(Rules), has_secondary : BOOLEAN],
           UNCHANGED <<disc_file, touched>>
    PROVE  UsageInv'
BY DEF UsageInv

LEMMA WholeIsKept ==
    ASSUME NEW file \in Seq(Nat) PROVE CutOrPadded(file, file)
BY DEF CutOrPadded

LEMMA CutIs ==
    ASSUME NEW file \in Seq(Nat), NEW n \in Nat \ {0}, n < Len(file)
    PROVE  SubSeq(file, 1, n) # <<>> /\ CutOrPadded(SubSeq(file, 1, n), file)
<1>1. PICK l \in Nat : l = Len(file)
  OBVIOUS
<1>2. PICK x \in Seq(Nat) : x = SubSeq(file, 0 + 1, n) /\ IsPart(x, file, 0, n)
  <2>1. 0 \in Nat /\ 0 <= n /\ n <= Len(file)
    BY <1>1
  <2> QED
    BY <2>1, Part, Zenon
<1>3. Len(x) = n /\ \A i \in 1..n : x[i] = file[i]
  BY <1>2 DEF IsPart
<1>4. \A i \in 1..n : i <= l
  BY <1>1
<1>5. x # <<>>
  BY <1>3
<1>6. CutOrPadded(x, file)
  BY <1>1, <1>3, <1>4, Zenon DEF CutOrPadded
<1> QED
  BY <1>2, <1>5, <1>6

LEMMA PaddedIs ==
    ASSUME NEW file \in Seq(Nat), file # <<>>, NEW n \in Nat
    PROVE  file \o Repeat(n, 0) # <<>> /\ CutOrPadded(file \o Repeat(n, 0), file)
<1>1. PICK l \in Nat : l = Len(file)
  OBVIOUS
<1>2. PICK z \in Seq(Nat) : z = Repeat(n, 0) /\ Len(z) = n /\ \A i \in 1..n : z[i] = 0
  BY ZeroCells
<1>3. PICK x \in Seq(Nat) : x = file \o z /\ IsJoin(x, file, z)
  BY JoinedEnds, Zenon
<1>4. Len(x) = l + n /\ (\A i \in 1..l : x[i] = file[i]) /\ \A i \in 1..n : x[l + i] = 0
  BY <1>1, <1>2, <1>3 DEF IsJoin
<1>5. ASSUME NEW i \in 1..(l + n) PROVE x[i] = IF i <= l THEN file[i] ELSE 0
  <2>1. CASE i <= l
    BY <1>4, <2>1
  <2>2. CASE ~(i <= l)
    <3>1. i - l \in 1..n /\ l + (i - l) = i
      BY <2>2
    <3>2. x[l + (i - l)] = 0
      BY <1>4, <3>1
    <3> QED
      BY <2>2, <3>1, <3>2
  <2> QED
    BY <2>1, <2>2
<1>6. x # <<>>
  <2>1. l # 0
    BY <1>1
  <2> QED
    BY <1>4, <2>1
<1> QED
  BY <1>1, <1>2, <1>3, <1>4, <1>5, <1>6 DEF CutOrPadded

LEMMA UsageInvStep ==
    ASSUME UsageInv, [UsageNext]_usageVars
    PROVE  UsageInv'
<1>1. ASSUME NEW area \in Areas, NEW r \in Rules, AddRule(area, r) PROVE UsageInv'
  <2>1. Append(rules[area], r) \in Seq(Rules)
    BY RulesHave, AppendProperties
  <2>2. rules \in [primary : Seq(Rules), secondary : Seq(Rules), has_secondary : BOOLEAN]
        /\ (area = "primary" \/ area = "secondary")
    BY DEF UsageInv, Areas
  <2>3. rules' = [rules EXCEPT ![area] = Append(rules[area], r)]
    BY <1>1 DEF AddRule
  <2>4. rules' \in [primary : Seq(Rules), secondary : Seq(Rules), has_secondary : BOOLEAN]
    BY <2>1, <2>2, <2>3
  <2> QED
    BY <1>1, <2>4, EditKeeps DEF AddRule
<1>2. CASE SetHasSecondary
  <2>1. rules' \in [primary : Seq(Rules), secondary : Seq(Rules), has_secondary : BOOLEAN]
    BY <1>2 DEF SetHasSecondary, UsageInv
  <2> QED
    BY <1>2, <2>1, EditKeeps DEF SetHasSecondary
<1>3. CASE Save
  <2>1. LaidOut(Image, Blocks("primary"), Blocks("secondary"), rules.has_secondary)
    BY ImageIs
  <2>2. Image \in Seq(Nat)
    BY <2>1, Zenon DEF LaidOut
  <2>3. disc_file' = Image /\ Image' = Image
    BY <1>3, ImageStays DEF Save, Image
  <2>4. CutOrPadded(Image, Image)
    BY <2>2, WholeIsKept
  <2>5. ~touched' /\ rules' = rules /\ touched' = touched
    BY <1>3 DEF Save, UsageInv
  <2> QED
    BY <2>3, <2>4, <2>5 DEF UsageInv
<1>4. ASSUME NEW n \in 1..(3 * SectorLen), CutFile(n) PROVE UsageInv'
  <2>1. n \in Nat \ {0}
    BY AreaLenIs
  <2>2. disc_file = Image /\ disc_file \in Seq(Nat)
    BY <1>4 DEF CutFile, UsageInv, CutOrPadded
  <2>3. disc_file' # <<>> /\ CutOrPadded(disc_file', Image)
    BY <1>4, <2>1, <2>2, CutIs DEF CutFile
  <2>4. Image' = Image /\ rules' = rules /\ touched' = TRUE
    BY <1>4, ImageStays DEF CutFile
  <2> QED
    BY <2>3, <2>4 DEF UsageInv, NotSaved
<1>5. ASSUME NEW n \in {1, AreaHeaderLen, SectorLen}, PadFile(n) PROVE UsageInv'
  <2>1. n \in Nat
    BY AreaLenIs DEF AreaHeaderLen
  <2>2. disc_file = Image /\ disc_file \in Seq(Nat) /\ disc_file # <<>>
    BY <1>5 DEF PadFile, UsageInv, CutOrPadded, NotSaved
  <2>3. disc_file' # <<>> /\ CutOrPadded(disc_file', Image)
    BY <1>5, <2>1, <2>2, PaddedIs DEF PadFile
  <2>4. Image' = Image /\ rules' = rules /\ touched' = TRUE
    BY <1>5, ImageStays DEF PadFile
  <2> QED
    BY <2>3, <2>4 DEF UsageInv, NotSaved
<1>6. CASE UNCHANGED usageVars
  <2>1. Image' = Image /\ rules' = rules /\ touched' = touched /\ disc_file' = disc_file
    BY <1>6, ImageStays DEF usageVars
  <2> QED
    BY <2>1 DEF UsageInv
<1> QED
  BY <1>1, <1>2, <1>3, <1>4, <1>5, <1>6 DEF UsageNext

\* The disc's steps are the usage file's, or leave it alone.
LEMMA UsageInvariance ==
    DiscSpec => []UsageInv
<1>1. DiscInit => UsageInv
  BY UsageInvInit DEF DiscInit
<1>2. UsageInv /\ [DiscNext]_discVars => UsageInv'
  <2> SUFFICES ASSUME UsageInv, [DiscNext]_discVars PROVE UsageInv'
    OBVIOUS
  <2>1. [UsageNext]_usageVars
    BY DEF DiscNext, discVars
  <2> QED
    BY <2>1, UsageInvStep
<1> QED
  BY <1>1, <1>2, PTL DEF DiscSpec

\* CpsUnitUsageFile::parse of what to_bytes has saved.  From rules that its fields
\* can hold every rule comes back under its own type and in its own area, and the
\* file is refused exactly when those of the Primary Area did not fit it.  From
\* others, when it is not refused, each area gives back as many rules as the count
\* field says, and those before the first over-long one as they were.
THEOREM RulesComeBack == DiscSpec => []RulesReadAsWritten
<1>1. UsageInv => RulesReadAsWritten
  BY ReadFollows
<1> QED
  BY <1>1, UsageInvariance, PTL

\* CpsUnitUsageFile::parse of a saved file that was cut anywhere or padded by
\* any of the model's lengths: it is refused, or read as the rules that were
\* saved, with no Secondary Area when the cut took all of it; counts and lengths
\* that their fields cannot hold read as RulesReadAsWritten says.
THEOREM DamageIsNoticed == DiscSpec => []DamagedFileNeverMisread
<1>1. UsageInv => DamagedFileNeverMisread
  BY DamageFollows
<1> QED
  BY <1>1, UsageInvariance, PTL
=============================================================================
