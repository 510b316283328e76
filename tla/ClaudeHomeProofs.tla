--------------------------- MODULE ClaudeHomeProofs ---------------------------
(***************************************************************************)
(* Proofs about the user's own Claude login, for every set of accounts,    *)
(* labels and commands and every bound, as long as no command dies between *)
(* its writes of the two files (~Tears) and a capture finds the two        *)
(* together (~Apart):                                                      *)
(*   LoginsStayApart  the logins of the pool stay apart, each the label's; *)
(*   HomeStaysPaired  the two files of the home name one account;          *)
(*   RotationsKept    `use` neither brings a spent token back nor loses    *)
(*                    the newest one.                                      *)
(***************************************************************************)
EXTENDS ClaudeHome, TLAPS

(* The two files of a home name one account. *)
Paired(h) ==
    h.auth \notin {Gone, Blank} /\ ActiveId(h) # NoAccount => h.auth.owner = ActiveId(h)

(* The logins of a state file: each the account's own, no account twice. *)
Tidy(m) ==
    /\ \A l \in Label : m[l].id = m[l].owner
    /\ \A k, l \in Label : k # l /\ m[k] # NoLogin => m[k].id # m[l].id

(* No token is newer than the newest its account was issued. *)
Recent(b) == b.owner # NoAccount => b.exp <= latest[b.owner]

Empty(p) == \A l \in Label : mem[p][l] = NoLogin

(* A command between the choice of a login and the check of what it wrote:  *)
(* the login is the label's, at least as new as the label's and the home's, *)
(* and the home holds what it found, what it chose, or nothing.             *)
Chosen(p) ==
    /\ lock = p
    /\ Paired(snap[p]) /\ (snap[p].auth # Gone => ActiveId(snap[p]) # NoAccount)
    /\ pick[p] # NoLogin /\ pick[p].id = pick[p].owner
    /\ pick[p].id = mem[p][label[p]].id /\ mem[p][label[p]].exp <= pick[p].exp
    /\ pick[p] \in {mem[p][label[p]], Live(snap[p])}
    /\ snap[p].auth.owner = pick[p].owner => snap[p].auth.exp <= pick[p].exp
    /\ credentials \in {Gone, snap[p].auth, [owner |-> pick[p].owner, exp |-> pick[p].exp]}
    /\ phase[p] \in {"auth", "verify"} => legacyId \in {Missing, pick[p].id}

CommandInv(p) ==
    /\ phase[p] # "idle" => label[p] \in Label
    /\ phase[p] = "idle" => Empty(p)
    /\ phase[p] = "identity" => Paired(snap[p]) /\ snap[p].legacy = Missing
    /\ phase[p] \in Writing => Chosen(p)

(* Every copy of the pool is tidy, and no login newer than issued. *)
LoginsInv ==
    /\ Tidy(store) /\ exported.id = exported.owner
    /\ \A p \in Process : Tidy(mem[p])
    /\ Recent(credentials) /\ Recent(exported)
    /\ \A l \in Label : Recent(store[l])
    /\ \A p \in Process :
         /\ Recent(pick[p]) /\ Recent(snap[p].auth)
         /\ \A l \in Label : Recent(mem[p][l])

(* A command that runs alone works on what the state file says, and keeps  *)
(* each label's login or a newer one of the same account.                  *)
AloneInv(p) ==
    /\ \A q \in Process \ {p} : phase[q] = "idle"
    /\ phase[p] # "save" => mem[p] = store
    /\ \A l \in Label : store[l] # NoLogin =>
         mem[p][l].owner = store[l].owner /\ store[l].exp <= mem[p][l].exp
    /\ phase[p] \in {"canon", "legacy", "auth"} => credentials = snap[p].auth
    /\ phase[p] = "verify" => credentials = [owner |-> pick[p].owner, exp |-> pick[p].exp]

IInv ==
    /\ HomeTypeOK
    /\ lock # NoProcess => phase[lock] \in Writing
    /\ lock = NoProcess => Paired(Here)
    /\ LoginsInv
    /\ \A p \in Process : CommandInv(p)
    /\ calm => \A p \in Process : phase[p] # "idle" => AloneInv(p)

-----------------------------------------------------------------------------
(* Logins.                                                                  *)

LEMMA Kinds ==
    /\ Gone \notin Token /\ Blank \notin Token /\ NoLogin \notin Login /\ Gone # Blank
    /\ Gone.owner = NoAccount /\ Blank.owner = NoAccount
    /\ NoLogin.id = NoAccount /\ NoLogin.owner = NoAccount /\ NoLogin.exp = 0
    /\ NoAccount \notin Identity
    /\ \A t \in Token : t.owner \in Identity /\ t.exp \in 1..MaxExpiry
    /\ \A b \in Login : b.id \in Identity /\ b.owner \in Identity /\ b.exp \in 1..MaxExpiry
BY ConstantsAssumption DEF Gone, Blank, Token, NoLogin, Login

\* A login of the pool, or none: what its parts are.
LEMMA KnownFacts ==
    ASSUME NEW b \in Known
    PROVE  /\ b.exp \in Nat /\ b.exp <= MaxExpiry
           /\ b = NoLogin <=> b.id = NoAccount
           /\ b = NoLogin <=> b.owner = NoAccount
           /\ b # NoLogin => b \in Login
           /\ b.owner \in Identity \cup {NoAccount} /\ b.id \in Identity \cup {NoAccount}
<1>1. CASE b \in Login
  BY <1>1, Kinds, ConstantsAssumption
<1>2. CASE b = NoLogin
  BY <1>2, Kinds, ConstantsAssumption
<1> QED  BY <1>1, <1>2 DEF Known

\* Logins with the same parts are the same.
LEMMA SameLogin ==
    ASSUME NEW b \in Known, NEW c \in Known, b.id = c.id, b.owner = c.owner, b.exp = c.exp
    PROVE  b = c
<1>1. CASE b = NoLogin
  BY <1>1, KnownFacts
<1>2. CASE b \in Login
  <2>1. c \in Login
    BY <1>2, Kinds, KnownFacts
  <2> QED  BY <1>2, <2>1 DEF Login
<1> QED  BY <1>1, <1>2 DEF Known

LEMMA BundleFacts ==
    ASSUME NEW t \in Token \cup {Gone, Blank}, NEW id \in Identity \cup {NoAccount}
    PROVE  /\ Bundle(t, id) \in Known
           /\ Bundle(t, id) = NoLogin <=> t \in {Gone, Blank} \/ id = NoAccount
           /\ Bundle(t, id) # NoLogin =>
                /\ Bundle(t, id).id = id
                /\ Bundle(t, id).owner = t.owner /\ Bundle(t, id).exp = t.exp
<1>1. CASE t \in {Gone, Blank} \/ id = NoAccount
  BY <1>1 DEF Bundle, Known
<1>2. CASE t \in Token /\ id \in Identity
  <2>1. [id |-> id, owner |-> t.owner, exp |-> t.exp] \in Login
    BY <1>2, Kinds DEF Login
  <2> QED  BY <1>2, <2>1, Kinds DEF Bundle, Known
<1> QED  BY <1>1, <1>2

LEMMA LiveFacts ==
    ASSUME NEW h \in Home
    PROVE  /\ ActiveId(h) \in Identity \cup {NoAccount}
           /\ h.auth \in Token \cup {Gone, Blank}
           /\ Live(h) \in Known
           /\ Live(h) = NoLogin <=> h.auth \in {Gone, Blank} \/ ActiveId(h) = NoAccount
           /\ Live(h) # NoLogin =>
                /\ Live(h).id = ActiveId(h)
                /\ Live(h).owner = h.auth.owner /\ Live(h).exp = h.auth.exp
           /\ Paired(h) => Live(h).id = Live(h).owner
<1>1. /\ ActiveId(h) \in Identity \cup {NoAccount}
      /\ h.auth \in Token \cup {Gone, Blank}
  BY DEF Home, ActiveId
<1>2. Paired(h) => Live(h).id = Live(h).owner
  BY <1>1, BundleFacts, Kinds DEF Live, Paired
<1> QED  BY <1>1, <1>2, BundleFacts DEF Live

\* A login that may replace another is the same account's, and newer.
LEMMA Reconciled ==
    ASSUME NEW b \in Known, NEW c \in Known, b # NoLogin, c # NoLogin, b.id = c.id
    PROVE  /\ Replacement(b, c, TRUE) \in {"noop", "stale_candidate"} => c.exp <= b.exp
           /\ Replacement(b, c, TRUE) = "noop" => b = c
           /\ Replacement(b, c, TRUE) = "update" => b.exp <= c.exp
           /\ Replacement(b, c, TRUE) # "update" => c.exp <= b.exp
           /\ \/ Replacement(b, c, TRUE) \in {"noop", "stale_candidate"}
              \/ Replacement(b, c, TRUE) = "ambiguous_equal_expiry"
              \/ Replacement(b, c, TRUE) = "update"
<1>1. b.exp \in Nat /\ c.exp \in Nat
  BY KnownFacts
<1> QED  BY <1>1 DEF Replacement

LEMMA Admitted ==
    ASSUME NEW b \in Known, NEW c \in Known, c # NoLogin,
           Replacement(b, c, FALSE) \in {"noop", "create", "update"}
    PROVE  b # NoLogin => b.id = c.id /\ b.exp <= c.exp
<1>1. b.exp \in Nat /\ c.exp \in Nat
  BY KnownFacts
<1> QED  BY <1>1 DEF Replacement

\* What `use` chooses is the label's account's, at least as new as what the
\* label has and what the home has of that account.
LEMMA SelectedFacts ==
    ASSUME NEW m \in [Label -> Known], NEW h \in Home, NEW l \in Label,
           Tidy(m), Paired(h), ~UseRefused(m, h, l)
    PROVE  LET s == Selected(m, h, l) IN
           /\ s \in Known /\ s # NoLogin /\ s.id = m[l].id /\ s.id = s.owner
           /\ m[l].exp <= s.exp /\ s \in {m[l], Live(h)}
           /\ h.auth # Gone => ActiveId(h) # NoAccount
           /\ h.auth.owner = s.owner => h.auth.exp <= s.exp
<1> DEFINE s == Selected(m, h, l)
<1>1. m[l] \in Known /\ m[l] # NoLogin /\ m[l].id = m[l].owner /\ m[l].exp \in Nat
  BY KnownFacts DEF UseRefused, Tidy
<1>2. h.auth # Gone => ActiveId(h) # NoAccount
  BY DEF UseRefused
<1>3. Live(h) \in Known /\ Live(h).exp \in Nat /\ Live(h).id = Live(h).owner
  BY LiveFacts, KnownFacts
<1>4. CASE s = Live(h) /\ s # m[l]
  <2>1. /\ Live(h) # NoLogin /\ ActiveId(h) = m[l].id
        /\ Replacement(Live(h), m[l], TRUE) \in {"noop", "stale_candidate"}
    BY <1>4 DEF Selected
  <2>2. Live(h).id = m[l].id /\ Live(h).exp = h.auth.exp
    BY <2>1, LiveFacts
  <2>3. m[l].exp <= Live(h).exp
    BY <1>1, <1>3, <2>1, <2>2, Reconciled
  <2> QED  BY <1>2, <1>3, <1>4, <2>1, <2>2, <2>3
<1>5. CASE s = m[l]
  <2>1. ASSUME h.auth.owner = s.owner PROVE h.auth.exp <= s.exp
    <3>1. h.auth \notin {Gone, Blank} /\ ActiveId(h) # NoAccount
      BY <1>1, <1>2, <1>5, <2>1, Kinds, KnownFacts
    <3>2. /\ Live(h) # NoLogin /\ Live(h).id = ActiveId(h) /\ Live(h).owner = s.owner
          /\ Live(h).exp = h.auth.exp
      BY <2>1, <3>1, LiveFacts
    <3>3. Live(h).id = m[l].id
      BY <1>1, <1>3, <1>5, <3>2
    <3>4. Replacement(Live(h), m[l], TRUE) # "ambiguous_equal_expiry"
      BY <3>2, <3>3 DEF UseRefused
    <3>5. CASE Replacement(Live(h), m[l], TRUE) \in {"noop", "stale_candidate"}
      <4>1. s = Live(h)
        BY <3>2, <3>3, <3>5, <1>1 DEF Selected
      <4> QED  BY <4>1, <3>2, <1>3
    <3>6. CASE Replacement(Live(h), m[l], TRUE) = "update"
      BY <3>6, <3>2, <3>3, <1>1, <1>3, <1>5, Reconciled
    <3> QED  BY <1>1, <1>3, <3>2, <3>3, <3>4, <3>5, <3>6, Reconciled
  <2> QED  BY <1>1, <1>2, <1>5, <2>1
<1> QED  BY <1>4, <1>5 DEF Selected

\* Taking the home's login back keeps every label's account, loses no newer
\* login, and leaves the label of that account with one at least as new.
LEMMA SyncBackFacts ==
    ASSUME NEW m \in [Label -> Known], NEW b \in Known, Tidy(m), b.id = b.owner
    PROVE  LET s == SyncBack(m, b) IN
           /\ s \in [Label -> Known] /\ Tidy(s)
           /\ \A l \in Label :
                /\ s[l] \in {m[l], b} /\ s[l].id = m[l].id /\ s[l].owner = m[l].owner
                /\ m[l].exp <= s[l].exp
                /\ b # NoLogin /\ m[l].id = b.id => b.exp <= s[l].exp
<1>1. CASE b = NoLogin
  BY <1>1, KnownFacts DEF SyncBack
<1>2. CASE b # NoLogin
  <2> DEFINE s == [l \in Label |->
                     IF m[l].id = b.id /\ Replacement(m[l], b, TRUE) = "update"
                     THEN b ELSE m[l]]
  <2>1. SyncBack(m, b) = s
    BY <1>2 DEF SyncBack
  <2>2. s \in [Label -> Known]
    OBVIOUS
  <2>3. ASSUME NEW l \in Label
        PROVE  /\ s[l] \in {m[l], b} /\ s[l].id = m[l].id /\ s[l].owner = m[l].owner
               /\ m[l].exp <= s[l].exp
               /\ m[l].id = b.id => b.exp <= s[l].exp
    <3>1. m[l] \in Known /\ m[l].exp \in Nat /\ b.exp \in Nat /\ m[l].id = m[l].owner
          /\ (m[l].id = b.id => m[l] # NoLogin)
      BY <1>2, KnownFacts DEF Tidy
    <3>2. CASE m[l].id = b.id /\ Replacement(m[l], b, TRUE) = "update"
      <4>1. m[l].exp <= b.exp
        BY <1>2, <3>1, <3>2, Reconciled
      <4> QED  BY <3>1, <3>2, <4>1
    <3>3. CASE ~(m[l].id = b.id /\ Replacement(m[l], b, TRUE) = "update")
      <4>1. s[l] = m[l]
        BY <3>3
      <4>2. m[l].id = b.id => b.exp <= m[l].exp
        BY <1>2, <3>1, <3>3, Reconciled
      <4>3. m[l].exp <= m[l].exp
        BY <3>1
      <4> QED  BY <3>1, <4>1, <4>2, <4>3
    <3> QED  BY <3>2, <3>3
  <2>4. Tidy(s)
    <3>1. \A l \in Label : s[l].id = s[l].owner
      BY <2>3 DEF Tidy
    <3>2. ASSUME NEW k \in Label, NEW l \in Label, k # l, s[k] # NoLogin
          PROVE  s[k].id # s[l].id
      <4>1. s[k].id = m[k].id /\ s[l].id = m[l].id /\ m[k] \in Known /\ s[k] \in Known
        BY <2>2, <2>3
      <4>2. m[k] # NoLogin
        BY <3>2, <4>1, KnownFacts
      <4> QED  BY <3>2, <4>1, <4>2 DEF Tidy
    <3> HIDE DEF s
    <3> QED  BY <3>1, <3>2 DEF Tidy
  <2> HIDE DEF s
  <2> QED  BY <1>2, <2>1, <2>2, <2>3, <2>4
<1> QED  BY <1>1, <1>2

\* What capture and import store is another account's in no other label, and
\* of the label's account and no older.
LEMMA StoresFacts ==
    ASSUME NEW m \in [Label -> Known], NEW l \in Label, NEW b \in Known,
           Tidy(m), b.id = b.owner, Stores(m, l, b)
    PROVE  /\ [m EXCEPT ![l] = b] \in [Label -> Known]
           /\ Tidy([m EXCEPT ![l] = b])
           /\ m[l] # NoLogin => b.owner = m[l].owner /\ m[l].exp <= b.exp
<1>1. /\ b # NoLogin /\ \A k \in Label \ {l} : m[k].id # b.id
      /\ Replacement(m[l], b, FALSE) \in {"noop", "create", "update"}
  BY DEF Stores
<1>2. m[l] \in Known /\ m[l].exp \in Nat /\ b.exp \in Nat /\ m[l].id = m[l].owner
  BY KnownFacts DEF Tidy
<1>3. m[l] # NoLogin => b.owner = m[l].owner /\ m[l].exp <= b.exp
  BY <1>1, <1>2, Admitted
<1>4. Tidy([m EXCEPT ![l] = b])
  BY <1>1 DEF Tidy
<1> QED  BY <1>3, <1>4

\* The label a command writes keeps its account.
LEMMA Relabel ==
    ASSUME NEW m \in [Label -> Known], NEW l \in Label, NEW b \in Known,
           Tidy(m), b.id = b.owner, b.id = m[l].id
    PROVE  [m EXCEPT ![l] = b] \in [Label -> Known] /\ Tidy([m EXCEPT ![l] = b])
<1>1. \A k \in Label : m[k] # NoLogin <=> m[k].id # NoAccount
  BY KnownFacts
<1>2. b # NoLogin <=> b.id # NoAccount
  BY KnownFacts
<1> DEFINE t == [m EXCEPT ![l] = b]
<1>3. /\ t \in [Label -> Known] /\ t[l] = b /\ \A k \in Label \ {l} : t[k] = m[k]
  OBVIOUS
<1>4. \A k \in Label : t[k].id = m[k].id /\ t[k].id = t[k].owner
  BY <1>3 DEF Tidy
<1>5. \A k \in Label : t[k] # NoLogin <=> t[k].id # NoAccount
  BY <1>1, <1>2, <1>3
<1> HIDE DEF t
<1>6. Tidy(t)
  BY <1>1, <1>4, <1>5 DEF Tidy
<1> QED  BY <1>3, <1>6 DEF t

-----------------------------------------------------------------------------
(* What a command works on.                                                 *)

None == [l \in Label |-> NoLogin]

LEMMA Nothing ==
    /\ NoLogin \in Known /\ NoHome \in Home /\ None \in [Label -> Known]
    /\ Tidy(None) /\ Paired(NoHome)
<1>1. NoLogin \in Known /\ None \in [Label -> Known] /\ Tidy(None)
  BY Kinds DEF Known, None, Tidy
<1>2. NoHome \in Home /\ Paired(NoHome)
  BY DEF NoHome, Home, Paired
<1> QED  BY <1>1, <1>2

LEMMA HereTyped ==
    ASSUME HomeTypeOK
    PROVE  /\ Here \in Home /\ Here.auth = credentials
           /\ Here.canon = canon /\ Here.legacy = legacyId
BY DEF HomeTypeOK, Here, Home

\* Every login of s is of the account m has it of, and no older.
Grows(m, s) ==
    \A l \in Label : m[l] # NoLogin => s[l].owner = m[l].owner /\ m[l].exp <= s[l].exp

LEMMA GrowsStays ==
    ASSUME NEW m \in [Label -> Known]
    PROVE  Grows(m, m)
<1>1. \A l \in Label : m[l].exp \in Nat
  BY KnownFacts
<1> QED  BY <1>1 DEF Grows

LEMMA GrowsOn ==
    ASSUME NEW m \in [Label -> Known], NEW s \in [Label -> Known], NEW t \in [Label -> Known],
           Grows(m, s), Grows(s, t)
    PROVE  Grows(m, t)
<1>1. \A l \in Label : m[l].exp \in Nat /\ s[l].exp \in Nat /\ t[l].exp \in Nat
  BY KnownFacts
<1>2. \A l \in Label : m[l] # NoLogin => s[l] # NoLogin
  BY KnownFacts DEF Grows
<1> QED  BY <1>1, <1>2 DEF Grows

\* What the check of the two files leaves of the command's copy.
LEMMA ReadBackFacts ==
    ASSUME IInv, NEW p \in Process, ReadBack(p)
    PROVE  /\ mem' = [mem EXCEPT ![p] = mem'[p]]
           /\ mem'[p] \in [Label -> Known] /\ Tidy(mem'[p]) /\ Grows(mem[p], mem'[p])
           /\ \A l \in Label : mem'[p][l] \in {mem[p][l], pick[p], Live(snap[p])}
           /\ \A l \in Label : Live(snap[p]) # NoLogin /\ mem[p][l].id = Live(snap[p]).id =>
                mem'[p][l].owner = snap[p].auth.owner /\ snap[p].auth.exp <= mem'[p][l].exp
<1> DEFINE live == Live(snap[p])
           s == SyncBack(mem[p], live)
           t == [s EXCEPT ![label[p]] = pick[p]]
<1>1. /\ mem \in [Process -> [Label -> Known]] /\ mem[p] \in [Label -> Known]
      /\ snap[p] \in Home /\ pick[p] \in Known /\ label[p] \in Label /\ Tidy(mem[p])
      /\ Chosen(p)
  BY DEF IInv, HomeTypeOK, LoginsInv, CommandInv, ReadBack, At, Writing
<1>2. /\ live \in Known /\ live.id = live.owner
      /\ live # NoLogin => live.owner = snap[p].auth.owner /\ live.exp = snap[p].auth.exp
  BY <1>1, LiveFacts DEF Chosen
<1>3. /\ s \in [Label -> Known] /\ Tidy(s)
      /\ \A l \in Label :
           /\ s[l] \in {mem[p][l], live} /\ s[l].id = mem[p][l].id /\ s[l].owner = mem[p][l].owner
           /\ mem[p][l].exp <= s[l].exp
           /\ live # NoLogin /\ mem[p][l].id = live.id => live.exp <= s[l].exp
  BY <1>1, <1>2, SyncBackFacts
<1>4. mem' = [mem EXCEPT ![p] = t] /\ mem'[p] = t
  BY <1>1 DEF ReadBack
<1> HIDE DEF s
<1>5. t \in [Label -> Known] /\ Tidy(t)
  BY <1>1, <1>3, Relabel DEF Chosen
<1>6. ASSUME NEW l \in Label
      PROVE  /\ t[l] \in {mem[p][l], pick[p], live} /\ t[l].owner = mem[p][l].owner
             /\ mem[p][l].exp <= t[l].exp
             /\ live # NoLogin /\ mem[p][l].id = live.id => live.exp <= t[l].exp
  <2>1. CASE l = label[p]
    <3>1. t[l] = pick[p]
      BY <1>3, <2>1
    <3>2. mem[p][l].owner = pick[p].owner /\ mem[p][l].exp <= pick[p].exp
      BY <1>1, <2>1 DEF Chosen, Tidy
    <3>3. ASSUME live # NoLogin, mem[p][l].id = live.id PROVE live.exp <= pick[p].exp
      BY <1>1, <1>2, <2>1, <3>3 DEF Chosen
    <3> QED  BY <3>1, <3>2, <3>3
  <2>2. CASE l # label[p]
    <3>1. t[l] = s[l]
      BY <1>3, <2>2
    <3> QED  BY <1>3, <3>1
  <2> QED  BY <2>1, <2>2
<1> HIDE DEF t
<1>7. Grows(mem[p], t)
  BY <1>6 DEF Grows
<1>8. ASSUME NEW l \in Label, live # NoLogin, mem[p][l].id = live.id
      PROVE  t[l].owner = snap[p].auth.owner /\ snap[p].auth.exp <= t[l].exp
  <2>1. mem[p][l].owner = live.owner
    BY <1>1, <1>2, <1>8 DEF Tidy
  <2> QED  BY <1>2, <1>6, <1>8, <2>1
<1> HIDE DEF live
<1> QED  BY <1>4, <1>5, <1>6, <1>7, <1>8 DEF live

\* What a capture or an import leaves of the command's copy.
LEMMA StoredFacts ==
    ASSUME IInv, NEW p \in Process, NEW b \in Known, b.id = b.owner, label[p] \in Label,
           mem' = IF Stores(mem[p], label[p], b)
                  THEN [mem EXCEPT ![p][label[p]] = b] ELSE mem
    PROVE  /\ mem' = [mem EXCEPT ![p] = mem'[p]]
           /\ mem'[p] \in [Label -> Known] /\ Tidy(mem'[p]) /\ Grows(mem[p], mem'[p])
           /\ \A l \in Label : mem'[p][l] \in {mem[p][l], b}
<1>1. /\ mem \in [Process -> [Label -> Known]] /\ mem[p] \in [Label -> Known] /\ Tidy(mem[p])
  BY DEF IInv, HomeTypeOK, LoginsInv
<1>2. CASE Stores(mem[p], label[p], b)
  <2> DEFINE t == [mem[p] EXCEPT ![label[p]] = b]
  <2>1. mem' = [mem EXCEPT ![p] = t] /\ mem'[p] = t
    BY <1>1, <1>2
  <2>2. /\ t \in [Label -> Known] /\ Tidy(t)
        /\ mem[p][label[p]] # NoLogin =>
             b.owner = mem[p][label[p]].owner /\ mem[p][label[p]].exp <= b.exp
    BY <1>1, <1>2, StoresFacts
  <2>3. Grows(mem[p], mem[p])
    BY <1>1, GrowsStays
  <2>4. Grows(mem[p], t) /\ \A l \in Label : t[l] \in {mem[p][l], b}
    BY <1>1, <2>2, <2>3 DEF Grows
  <2> QED  BY <2>1, <2>2, <2>4
<1>3. CASE ~Stores(mem[p], label[p], b)
  BY <1>1, <1>3, GrowsStays
<1> QED  BY <1>2, <1>3

-----------------------------------------------------------------------------
(* The steps of a command.                                                  *)

\* What the second read of a capture or an export makes of the home.
LEMMA ReadFacts ==
    ASSUME IInv, ~Apart, NEW p \in Process, Read(p)
    PROVE  LET b == Bundle(snap[p].auth, snap[p].canon) IN
           /\ b = Live(snap[p]) /\ b \in Known /\ b.id = b.owner /\ Recent(b)
           /\ \/ /\ cmd[p] = "export" /\ Finish(p)
                 /\ exported' = IF b = NoLogin THEN exported ELSE b
              \/ /\ cmd[p] = "capture" /\ Reach(p, "save")
                 /\ mem' = IF Stores(mem[p], label[p], b)
                           THEN [mem EXCEPT ![p][label[p]] = b] ELSE mem
                 /\ UNCHANGED <<exported, cmd, label, snap, pick>>
<1> DEFINE b == Bundle(snap[p].auth, snap[p].canon)
<1>1. /\ snap[p] \in Home /\ snap[p].legacy = Missing /\ Paired(snap[p])
      /\ Recent(snap[p].auth)
  BY DEF IInv, HomeTypeOK, LoginsInv, CommandInv, Read, At
<1>2. b = Live(snap[p])
  BY <1>1 DEF Live, ActiveId
<1>3. b \in Known /\ b.id = b.owner /\ Recent(b)
  BY <1>1, <1>2, LiveFacts, Kinds DEF Recent
<1> QED  BY <1>2, <1>3 DEF Read

\* The copy of the pool a command works on.
LEMMA MemMoves ==
    ASSUME IInv, ~Apart, NEW p \in Process, Commands(p)
    PROVE  /\ mem' = [mem EXCEPT ![p] = mem'[p]]
           /\ mem'[p] \in [Label -> Known] /\ Tidy(mem'[p])
           /\ \A l \in Label : mem'[p][l] \in
                {mem[p][l], store[l], NoLogin, pick[p], Live(snap[p]), exported}
           /\ phase[p] # "idle" /\ phase'[p] # "idle" => Grows(mem[p], mem'[p])
           /\ phase[p] # "idle" /\ phase'[p] \notin {"idle", "save"} => mem'[p] = mem[p]
           /\ phase'[p] = "idle" => mem'[p] = None
           /\ phase[p] = "idle" => mem'[p] = store
<1>1. /\ mem \in [Process -> [Label -> Known]] /\ mem[p] \in [Label -> Known] /\ Tidy(mem[p])
      /\ store \in [Label -> Known] /\ Tidy(store)
      /\ phase \in [Process -> {"idle", "use", "identity", "clear", "forget",
                                "import", "save"} \cup Writing]
      /\ phase[p] # "idle" => label[p] \in Label
      /\ exported \in Known /\ exported.id = exported.owner
  BY DEF IInv, HomeTypeOK, LoginsInv, CommandInv
<1>2. None \in [Label -> Known] /\ Tidy(None) /\ \A l \in Label : None[l] = NoLogin
  BY Nothing DEF None
<1>3. Grows(mem[p], mem[p])
  BY <1>1, GrowsStays
<1>4. CASE \E c \in Kind, l \in Label : Begin(p, c, l)
  <2>1. mem' = [mem EXCEPT ![p] = store] /\ phase[p] = "idle" /\ phase'[p] # "idle"
    BY <1>1, <1>4 DEF Begin, Reach, At
  <2> QED  BY <1>1, <2>1
<1>6. CASE UNCHANGED mem /\ phase[p] # "idle" /\ phase'[p] # "idle"
  BY <1>1, <1>3, <1>6
<1>7. CASE Finish(p) /\ phase[p] # "idle"
  <2>1. mem' = [mem EXCEPT ![p] = None] /\ phase'[p] = "idle"
    BY <1>1, <1>7 DEF Finish, Reach, None
  <2> QED  BY <1>1, <1>2, <1>7, <2>1
<1>8. CASE Switch(p)
  BY <1>1, <1>6, <1>7, <1>8 DEF Switch, Fail, Reach, At
<1>9. CASE WriteCanon(p) \/ WriteLegacy(p) \/ WriteAuth(p)
  BY <1>1, <1>6, <1>9 DEF WriteCanon, WriteLegacy, WriteAuth, Reach, At
<1>10. CASE ReadBack(p)
  <2>1. phase[p] = "verify" /\ phase'[p] = "save"
    BY <1>1, <1>10 DEF ReadBack, Reach, At
  <2> QED  BY <1>10, <2>1, ReadBackFacts
<1>11. CASE Rollback(p)
  <2>1. phase[p] # "idle"
    BY <1>11 DEF Rollback, Writing
  <2> QED  BY <1>1, <1>6, <1>7, <1>11, <2>1 DEF Rollback, Fail, Reach
<1>12. CASE ClearAuth(p) \/ ClearIdentity(p)
  BY <1>1, <1>6, <1>12 DEF ClearAuth, ClearIdentity, Reach, At
<1>13. CASE Read(p)
  <2>1. phase[p] = "identity"
    BY <1>13 DEF Read, At
  <2>2. CASE Finish(p)
    BY <1>7, <2>1, <2>2
  <2>3. CASE Reach(p, "save") /\ cmd[p] = "capture"
    <3> DEFINE b == Bundle(snap[p].auth, snap[p].canon)
    <3>1. /\ b = Live(snap[p]) /\ b \in Known /\ b.id = b.owner
          /\ mem' = IF Stores(mem[p], label[p], b)
                    THEN [mem EXCEPT ![p][label[p]] = b] ELSE mem
      BY <1>13, <2>3, ReadFacts
    <3>2. phase'[p] = "save" /\ label[p] \in Label
      BY <1>1, <2>1, <2>3 DEF Reach
    <3> HIDE DEF b
    <3>3. /\ mem' = [mem EXCEPT ![p] = mem'[p]]
          /\ mem'[p] \in [Label -> Known] /\ Tidy(mem'[p]) /\ Grows(mem[p], mem'[p])
          /\ \A l \in Label : mem'[p][l] \in {mem[p][l], b}
      BY <3>1, <3>2, StoredFacts
    <3> QED  BY <2>1, <3>1, <3>2, <3>3
  <2> QED  BY <1>13, <2>2, <2>3, ReadFacts
<1>14. CASE Import(p)
  <2>1. /\ phase[p] = "import" /\ phase'[p] = "save" /\ label[p] \in Label
        /\ mem' = IF Stores(mem[p], label[p], exported)
                  THEN [mem EXCEPT ![p][label[p]] = exported] ELSE mem
    BY <1>1, <1>14 DEF Import, Reach, At
  <2> QED  BY <1>1, <2>1, StoredFacts
<1>15. CASE Save(p) \/ Die(p)
  BY <1>7, <1>15 DEF Save, Die, At
<1> QED
  BY <1>4, <1>8, <1>9, <1>10, <1>11, <1>12, <1>13, <1>14, <1>15 DEF Commands

Phase == {"idle", "use", "identity", "clear", "forget", "import", "save"} \cup Writing

FunctionsTyped ==
    /\ phase \in [Process -> Phase] /\ cmd \in [Process -> Kind \cup {"none"}]
    /\ label \in [Process -> Label \cup {NoLabel}] /\ snap \in [Process -> Home]
    /\ pick \in [Process -> Known] /\ mem \in [Process -> [Label -> Known]]

LEMMA Typed == HomeTypeOK => FunctionsTyped
BY DEF HomeTypeOK, FunctionsTyped, Phase

LEMMA Frame ==
    ASSUME HomeTypeOK, NEW p \in Process, Commands(p), NEW q \in Process \ {p}
    PROVE  /\ phase'[q] = phase[q] /\ cmd'[q] = cmd[q] /\ label'[q] = label[q]
           /\ snap'[q] = snap[q] /\ pick'[q] = pick[q]
<1> USE Typed DEF FunctionsTyped, Reach, Finish
<1>1. CASE \E c \in Kind, l \in Label : Begin(p, c, l)
  BY <1>1 DEF Begin
<1>2. CASE Switch(p) \/ Rollback(p)
  BY <1>2 DEF Switch, Rollback, Fail
<1>3. CASE WriteCanon(p) \/ WriteLegacy(p) \/ WriteAuth(p) \/ ReadBack(p)
  BY <1>3 DEF WriteCanon, WriteLegacy, WriteAuth, ReadBack
<1>4. CASE ClearAuth(p) \/ ClearIdentity(p) \/ Import(p)
  BY <1>4 DEF ClearAuth, ClearIdentity, Import
<1>5. CASE Read(p) \/ Save(p) \/ Die(p)
  BY <1>5 DEF Read, Save, Die
<1> QED  BY <1>1, <1>2, <1>3, <1>4, <1>5 DEF Commands

\* Who is between its choice and its check holds the locks, and nobody else.
LEMMA Locked ==
    ASSUME IInv, NEW p \in Process
    PROVE  phase[p] \in Writing <=> lock = p
BY ConstantsAssumption DEF IInv, CommandInv, Chosen

\* Without the locks a command takes only tokens away, and no identity.
LEMMA Outside ==
    ASSUME IInv, NEW p \in Process, Commands(p), lock \notin {p, NoProcess}
    PROVE  /\ UNCHANGED <<lock, legacyId>> /\ credentials' \in {credentials, Gone}
           /\ phase'[p] \notin Writing
<1>1. phase[p] \notin Writing
  BY Locked
<1> USE Typed DEF FunctionsTyped, Reach, Finish, home, IInv
<1>2. CASE \E c \in Kind, l \in Label : Begin(p, c, l)
  BY <1>2 DEF Begin, Writing
<1>3. CASE Switch(p) \/ Rollback(p)
  BY <1>1, <1>3 DEF Switch, Rollback
<1>4. CASE WriteCanon(p) \/ WriteLegacy(p) \/ WriteAuth(p) \/ ReadBack(p)
  BY <1>1, <1>4 DEF WriteCanon, WriteLegacy, WriteAuth, ReadBack, At, Writing
<1>5. CASE ClearAuth(p) \/ ClearIdentity(p) \/ Import(p)
  BY <1>5 DEF ClearAuth, ClearIdentity, Import, Writing
<1>6. CASE Read(p) \/ Save(p) \/ Die(p)
  BY <1>6 DEF Read, Save, Die, Writing
<1> QED  BY <1>2, <1>3, <1>4, <1>5, <1>6 DEF Commands

\* What `use` has chosen when it takes the locks.
LEMMA SwitchFacts ==
    ASSUME IInv, NEW p \in Process, Switch(p)
    PROVE  /\ lock = NoProcess /\ phase[p] = "use" /\ label[p] \in Label
           /\ Here \in Home /\ Paired(Here)
           /\ ~UseRefused(mem[p], Here, label[p]) =>
                LET s == Selected(mem[p], Here, label[p]) IN
                /\ s \in Known /\ s # NoLogin /\ s.id = mem[p][label[p]].id /\ s.id = s.owner
                /\ mem[p][label[p]].exp <= s.exp /\ s \in {mem[p][label[p]], Live(Here)}
                /\ credentials # Gone => ActiveId(Here) # NoAccount
                /\ credentials.owner = s.owner => credentials.exp <= s.exp
                /\ Recent(s)
<1>1. /\ lock = NoProcess /\ phase[p] = "use" /\ label[p] \in Label
      /\ Here \in Home /\ Here.auth = credentials /\ Paired(Here)
      /\ mem[p] \in [Label -> Known] /\ Tidy(mem[p])
      /\ Recent(mem[p][label[p]]) /\ Recent(credentials)
  <2>1. phase[p] = "use" /\ lock = NoProcess
    BY DEF Switch, At
  <2> QED  BY <2>1, HereTyped DEF IInv, HomeTypeOK, LoginsInv, CommandInv
<1>2. Recent(Live(Here))
  BY <1>1, LiveFacts, Kinds DEF Recent
<1>3. ASSUME ~UseRefused(mem[p], Here, label[p])
      PROVE  LET s == Selected(mem[p], Here, label[p]) IN
             /\ s \in Known /\ s # NoLogin /\ s.id = mem[p][label[p]].id /\ s.id = s.owner
             /\ mem[p][label[p]].exp <= s.exp /\ s \in {mem[p][label[p]], Live(Here)}
             /\ credentials # Gone => ActiveId(Here) # NoAccount
             /\ credentials.owner = s.owner => credentials.exp <= s.exp
  BY <1>1, <1>3, SelectedFacts
<1> QED  BY <1>1, <1>2, <1>3

\* The command's own invariant.
LEMMA OwnStep ==
    ASSUME IInv, ~Apart, ~Tears, NEW p \in Process, Commands(p)
    PROVE  CommandInv(p)'
<1>a. /\ FunctionsTyped /\ CommandInv(p)
      /\ phase[p] \in Writing => lock = p
  BY Typed, Locked DEF IInv
<1>b. \A l \in Label : None[l] = NoLogin
  BY DEF None
<1>c. CASE phase'[p] = "idle"
  <2>1. mem'[p] = None
    BY <1>c, MemMoves
  <2> QED  BY <1>c, <2>1, <1>b DEF CommandInv, Empty, Writing
<1>d. CASE phase'[p] \in {"save", "forget", "use", "import"} /\ label'[p] \in Label
  BY <1>d DEF CommandInv, Writing
<1> USE <1>a DEF FunctionsTyped, Phase, Reach
<1>e. CASE Finish(p)
  BY <1>c, <1>e DEF Finish
<1>f. CASE Fail(p) /\ phase[p] # "idle"
  BY <1>d, <1>e, <1>f DEF Fail, CommandInv
<1>1. CASE \E c \in Kind, l \in Label : Begin(p, c, l)
  <2> PICK c \in Kind, l \in Label : Begin(p, c, l)
    BY <1>1
  <2>1. label'[p] = l /\ phase'[p] \in {"use", "import", "identity"}
    BY DEF Begin
  <2>2. CASE phase'[p] = "identity"
    <3>1. c \in {"capture", "export"}
      BY <2>2 DEF Begin, Kind
    <3>2. snap'[p] = Here /\ lock = NoProcess /\ legacyId = Missing
      BY <3>1 DEF Begin
    <3>3. Paired(Here) /\ Here.legacy = Missing
      BY <3>2, HereTyped DEF IInv
    <3> QED  BY <2>1, <2>2, <3>2, <3>3 DEF CommandInv, Writing
  <2> QED  BY <1>d, <2>1, <2>2
<1>2. CASE Switch(p)
  <2>1. CASE UseRefused(mem[p], Here, label[p])
    BY <1>2, <1>f, <2>1 DEF Switch, At
  <2>2. CASE ~UseRefused(mem[p], Here, label[p])
    <3> DEFINE s == Selected(mem[p], Here, label[p])
    <3>1. /\ phase'[p] = "canon" /\ lock' = p /\ snap'[p] = Here /\ pick'[p] = s
          /\ label'[p] = label[p] /\ mem' = mem /\ UNCHANGED credentials
      BY <1>2, <2>2 DEF Switch, home
    <3>2. /\ label[p] \in Label /\ Here \in Home /\ Paired(Here) /\ Here.auth = credentials
          /\ s # NoLogin /\ s.id = mem[p][label[p]].id /\ s.id = s.owner
          /\ mem[p][label[p]].exp <= s.exp /\ s \in {mem[p][label[p]], Live(Here)}
          /\ credentials # Gone => ActiveId(Here) # NoAccount
          /\ credentials.owner = s.owner => credentials.exp <= s.exp
      BY <1>2, <2>2, SwitchFacts, HereTyped DEF IInv
    <3> HIDE DEF s
    <3> QED  BY <3>1, <3>2 DEF CommandInv, Chosen, Writing
  <2> QED  BY <2>1, <2>2
<1>3. CASE WriteCanon(p)
  BY <1>3 DEF WriteCanon, Unchanged, At, CommandInv, Chosen, Writing
<1>4. CASE WriteLegacy(p)
  BY <1>4 DEF WriteLegacy, Unchanged, At, CommandInv, Chosen, Writing
<1>5. CASE WriteAuth(p)
  BY <1>5 DEF WriteAuth, Unchanged, At, CommandInv, Chosen, Writing
<1>6. CASE ReadBack(p)
  BY <1>6, <1>d DEF ReadBack, At, CommandInv
<1>7. CASE Rollback(p)
  BY <1>7, <1>f DEF Rollback, Writing
<1>8. CASE ClearAuth(p) \/ ClearIdentity(p)
  BY <1>8, <1>d DEF ClearAuth, ClearIdentity, At, CommandInv
<1>9. CASE Read(p)
  <2>1. phase[p] = "identity" /\ label[p] \in Label
    BY <1>9 DEF Read, At, CommandInv
  <2>2. CASE Reach(p, "save") /\ UNCHANGED label
    BY <1>d, <2>1, <2>2
  <2> QED  BY <1>9, <1>e, <2>2 DEF Read
<1>10. CASE Import(p)
  BY <1>10, <1>d DEF Import, At, CommandInv
<1>11. CASE Save(p) \/ Die(p)
  BY <1>11, <1>e DEF Save, Die
<1> QED
  BY <1>1, <1>2, <1>3, <1>4, <1>5, <1>6, <1>7, <1>8, <1>9, <1>10, <1>11 DEF Commands

\* The others' invariant: who has the locks finds its files as it left them,
\* or the tokens gone.
LEMMA OtherStep ==
    ASSUME IInv, ~Apart, NEW p \in Process, Commands(p), NEW q \in Process \ {p}
    PROVE  CommandInv(q)'
<1>1. /\ phase'[q] = phase[q] /\ label'[q] = label[q] /\ snap'[q] = snap[q]
      /\ pick'[q] = pick[q]
  BY Frame DEF IInv
<1>2. mem'[q] = mem[q]
  BY MemMoves, Typed DEF IInv, FunctionsTyped
<1>3. CommandInv(q)
  BY DEF IInv
<1>4. CASE phase[q] \in Writing
  <2>1. lock = q /\ q \in Process /\ q # p /\ q # NoProcess
    BY <1>4, Locked, ConstantsAssumption
  <2>2. /\ UNCHANGED <<lock, legacyId>> /\ credentials' \in {credentials, Gone}
    BY <2>1, Outside
  <2>3. Chosen(q)
    BY <1>3, <1>4 DEF CommandInv
  <2> QED  BY <1>1, <1>2, <1>3, <1>4, <2>1, <2>2, <2>3 DEF CommandInv, Chosen, Empty, Writing
<1>5. CASE phase[q] \notin Writing
  BY <1>1, <1>2, <1>3, <1>5 DEF CommandInv, Empty
<1> QED  BY <1>4, <1>5

\* Whenever the locks are free, the two files name one account.
LEMMA PairedStep ==
    ASSUME IInv, ~Apart, ~Tears, NEW p \in Process, Commands(p)
    PROVE  /\ lock' # NoProcess => phase'[lock'] \in Writing
           /\ lock' = NoProcess => Paired(Here)'
<1>a. /\ FunctionsTyped /\ HomeTypeOK /\ p # NoProcess /\ CommandInv(p)
      /\ phase[p] \in Writing <=> lock = p
  BY Typed, Locked, ConstantsAssumption DEF IInv
<1>b. lock = NoProcess => Paired(Here)
  BY DEF IInv
<1>c. lock # NoProcess => lock \in Process /\ phase[lock] \in Writing
  BY DEF IInv, HomeTypeOK
<1>d. ASSUME UNCHANGED <<home, lock>>, phase[p] \notin Writing
      PROVE  /\ lock' # NoProcess => phase'[lock'] \in Writing
             /\ lock' = NoProcess => Paired(Here)'
  <2>1. CASE lock = NoProcess
    BY <1>b, <1>d, <2>1 DEF home, Paired, Here
  <2>2. CASE lock # NoProcess
    <3>1. lock \in Process \ {p}
      BY <1>a, <1>c, <1>d, <2>2
    <3>2. phase'[lock] = phase[lock]
      BY <1>a, <3>1, Frame
    <3> QED  BY <1>c, <1>d, <2>2, <3>2
  <2> QED  BY <2>1, <2>2
<1>e. CASE lock' = p /\ phase'[p] \in Writing
  BY <1>a, <1>e
<1> USE <1>a DEF FunctionsTyped, Reach
<1>1. CASE \E c \in Kind, l \in Label : Begin(p, c, l)
  BY <1>1, <1>d DEF Begin, At, Writing
<1>2. CASE Switch(p)
  <2>1. CASE UseRefused(mem[p], Here, label[p])
    BY <1>2, <1>d, <2>1 DEF Switch, At, Writing
  <2>2. CASE ~UseRefused(mem[p], Here, label[p])
    BY <1>2, <1>e, <2>2 DEF Switch, Writing, Phase
  <2> QED  BY <2>1, <2>2
<1>3. CASE WriteCanon(p) \/ WriteLegacy(p) \/ WriteAuth(p)
  BY <1>3, <1>e DEF WriteCanon, WriteLegacy, WriteAuth, At, Writing, Phase
<1>4. CASE ReadBack(p)
  <2>1. /\ lock' = NoProcess /\ UNCHANGED <<credentials, canon, legacyId>>
        /\ Bundle(credentials, canon) = pick[p] /\ pick[p] # NoLogin
        /\ pick[p].id = pick[p].owner /\ legacyId \in {Missing, pick[p].id}
    BY <1>4 DEF ReadBack, home, At, Writing, CommandInv, Chosen
  <2>2. credentials.owner = pick[p].owner /\ canon = pick[p].id
    <3>1. credentials \in Token \cup {Gone, Blank} /\ canon \in Identity \cup {NoAccount}
      BY DEF HomeTypeOK
    <3>2. /\ Bundle(credentials, canon).id = canon
          /\ Bundle(credentials, canon).owner = credentials.owner
      BY <2>1, <3>1, BundleFacts
    <3> QED  BY <2>1, <3>2
  <2>3. ActiveId(Here) = pick[p].id
    BY <2>1, <2>2, HereTyped DEF ActiveId
  <2>4. Here' = Here
    BY <2>1 DEF Here
  <2>5. Paired(Here)
    BY <2>1, <2>2, <2>3, HereTyped DEF Paired
  <2> QED  BY <2>1, <2>4, <2>5 DEF Paired
<1>5. CASE Rollback(p)
  <2>1. /\ lock' = NoProcess /\ snap[p] \in Home /\ Paired(snap[p])
        /\ credentials' = snap[p].auth /\ canon' = snap[p].canon /\ legacyId' = snap[p].legacy
    BY <1>5 DEF Rollback, CommandInv, Chosen
  <2>2. Here' = snap[p]
    BY <2>1 DEF Here, Home
  <2> QED  BY <2>1, <2>2 DEF Paired
<1>6. CASE ClearAuth(p) \/ ClearIdentity(p)
  <2>1. /\ lock' = lock /\ phase[p] \notin Writing
        /\ \/ credentials' = Gone
           \/ UNCHANGED <<credentials, legacyId>> /\ canon' = NoAccount
    BY <1>6 DEF ClearAuth, ClearIdentity, At, Writing
  <2>2. Here'.auth = credentials' /\ Here'.canon = canon' /\ Here'.legacy = legacyId'
    BY DEF Here
  <2>3. CASE lock = NoProcess
    BY <1>b, <2>1, <2>2, <2>3, HereTyped DEF Paired, ActiveId
  <2>4. CASE lock # NoProcess
    <3>1. lock \in Process \ {p}
      BY <1>c, <2>1, <2>4
    <3>2. phase'[lock] = phase[lock]
      BY <3>1, Frame
    <3> QED  BY <1>c, <2>1, <2>4, <3>2
  <2> QED  BY <2>3, <2>4
<1>7. CASE Read(p) \/ Import(p) \/ Save(p)
  BY <1>7, <1>d DEF Read, Import, Save, At, Writing
<1>8. CASE Die(p)
  BY <1>8, <1>d DEF Die
<1> QED
  BY <1>1, <1>2, <1>3, <1>4, <1>5, <1>6, <1>7, <1>8 DEF Commands

\* No copy of the pool mixes accounts, and no login is newer than was issued.
LEMMA LoginsStep ==
    ASSUME IInv, ~Apart, NEW p \in Process, Commands(p)
    PROVE  LoginsInv'
<1>a. /\ HomeTypeOK /\ FunctionsTyped /\ LoginsInv /\ snap[p] \in Home /\ UNCHANGED latest
      /\ phase[p] \in Writing => Chosen(p)
  <2>1. UNCHANGED latest
    BY DEF Commands, Begin, Switch, WriteCanon, WriteLegacy, WriteAuth, ReadBack, Rollback,
           ClearAuth, ClearIdentity, Read, Import, Save, Die, Unchanged
  <2> QED  BY <2>1, Typed DEF IInv, FunctionsTyped, CommandInv
<1>b. Recent(Live(snap[p]))
  BY <1>a, LiveFacts, Kinds DEF LoginsInv, Recent
<1>c. Recent(NoLogin) /\ Recent(Gone)
  BY Kinds DEF Recent
<1>1. Tidy(store) /\ \A q \in Process : Tidy(mem[q])
  BY <1>a DEF LoginsInv
<1>2. store' = store \/ store' = mem[p]
  BY DEF Commands, Begin, Switch, WriteCanon, WriteLegacy, WriteAuth, ReadBack, Rollback,
         ClearAuth, ClearIdentity, Read, Import, Save, Die, Unchanged
<1>3. exported' \in {exported, Live(snap[p])} /\ exported'.id = exported'.owner
  <2>1. CASE Read(p)
    BY <1>a, <2>1, ReadFacts DEF LoginsInv
  <2>2. CASE ~Read(p)
    <3>1. UNCHANGED exported
      BY <2>2 DEF Commands, Begin, Switch, WriteCanon, WriteLegacy, WriteAuth, ReadBack,
             Rollback, ClearAuth, ClearIdentity, Import, Save, Die, Unchanged
    <3> QED  BY <1>a, <3>1 DEF LoginsInv
  <2> QED  BY <2>1, <2>2
<1>4. credentials' \in {credentials, Gone, snap[p].auth,
                        [owner |-> pick[p].owner, exp |-> pick[p].exp]}
  BY DEF Commands, Begin, Switch, WriteCanon, WriteLegacy, WriteAuth, ReadBack, Rollback,
         ClearAuth, ClearIdentity, Read, Import, Save, Die, home
<1>5. Recent(pick'[p]) /\ Recent(snap'[p].auth)
  <2> USE <1>a DEF FunctionsTyped, Reach, Finish
  <2>1. CASE Switch(p)
    <3>1. CASE UseRefused(mem[p], Here, label[p])
      <4>1. /\ pick'[p] \in {pick[p], NoLogin} /\ snap'[p] \in {snap[p], NoHome}
        BY <2>1, <3>1 DEF Switch, Fail
      <4> QED  BY <1>c, <4>1 DEF LoginsInv, NoHome
    <3>2. CASE ~UseRefused(mem[p], Here, label[p])
      <4>1. /\ pick'[p] = Selected(mem[p], Here, label[p])
            /\ snap'[p] = Here /\ Here.auth = credentials
        BY <2>1, <3>2, HereTyped DEF Switch
      <4> QED  BY <2>1, <3>2, <4>1, SwitchFacts DEF LoginsInv
    <3> QED  BY <3>1, <3>2
  <2>2. CASE ~Switch(p)
    <3>1. pick'[p] \in {pick[p], NoLogin} /\ snap'[p] \in {snap[p], NoHome, Here}
      <4>1. CASE \E c \in Kind, l \in Label : Begin(p, c, l)
        BY <4>1 DEF Begin
      <4>2. CASE WriteCanon(p) \/ WriteLegacy(p) \/ WriteAuth(p) \/ ReadBack(p) \/ Rollback(p)
        BY <4>2 DEF WriteCanon, WriteLegacy, WriteAuth, ReadBack, Rollback, Fail
      <4>3. CASE ClearAuth(p) \/ ClearIdentity(p) \/ Read(p) \/ Import(p) \/ Save(p) \/ Die(p)
        BY <4>3 DEF ClearAuth, ClearIdentity, Read, Import, Save, Die
      <4> QED  BY <2>2, <4>1, <4>2, <4>3 DEF Commands
    <3> QED  BY <1>c, <3>1, HereTyped DEF LoginsInv, NoHome
  <2> QED  BY <2>1, <2>2
<1>6. \A q \in Process \ {p} : pick'[q] = pick[q] /\ snap'[q] = snap[q] /\ mem'[q] = mem[q]
  BY <1>a, Frame, MemMoves DEF FunctionsTyped
<1>7. Tidy(mem'[p]) /\ \A l \in Label : Recent(mem'[p][l])
  BY <1>a, <1>b, <1>c, MemMoves DEF LoginsInv
<1>8. Recent(exported') /\ Recent(credentials')
  <2>1. Recent([owner |-> pick[p].owner, exp |-> pick[p].exp])
    BY <1>a DEF LoginsInv, Recent
  <2> QED  BY <1>a, <1>b, <1>c, <1>3, <1>4, <2>1 DEF LoginsInv
<1>9. Tidy(store') /\ \A l \in Label : Recent(store'[l])
  BY <1>a, <1>1, <1>2 DEF LoginsInv
<1> QED  BY <1>a, <1>3, <1>5, <1>6, <1>7, <1>8, <1>9 DEF LoginsInv, Recent

\* Every variable keeps to its type.
LEMMA TypeStep ==
    ASSUME IInv, ~Apart, NEW p \in Process, Commands(p)
    PROVE  HomeTypeOK'
<1>a. /\ HomeTypeOK /\ FunctionsTyped /\ NoLogin \in Known /\ NoHome \in Home
      /\ pick[p].owner \in Identity \cup {NoAccount} /\ Here \in Home
      /\ snap[p].auth \in Token \cup {Gone, Blank} /\ snap[p].canon \in Identity \cup {NoAccount}
      /\ snap[p].legacy \in Identity \cup {NoAccount, Missing}
  <2>1. snap[p] \in Home /\ pick[p] \in Known
    BY DEF IInv, HomeTypeOK
  <2> QED  BY <2>1, Typed, Nothing, HereTyped, KnownFacts DEF IInv, Home
<1>b. phase[p] \in Writing => pick[p].id \in Identity /\
                              [owner |-> pick[p].owner, exp |-> pick[p].exp] \in Token
  <2>1. ASSUME phase[p] \in Writing PROVE pick[p] \in Login
    BY <1>a, <2>1, KnownFacts DEF IInv, CommandInv, Chosen, FunctionsTyped
  <2> QED  BY <2>1, Kinds DEF Token
<1>1. mem' \in [Process -> [Label -> Known]]
  BY <1>a, MemMoves DEF FunctionsTyped
<1>2. store' \in [Label -> Known]
  <2>1. store' = store \/ store' = mem[p]
    BY DEF Commands, Begin, Switch, WriteCanon, WriteLegacy, WriteAuth, ReadBack, Rollback,
           ClearAuth, ClearIdentity, Read, Import, Save, Die, Unchanged
  <2> QED  BY <1>a, <2>1 DEF HomeTypeOK
<1>3. exported' \in Known
  <2>1. CASE Read(p)
    BY <1>a, <2>1, ReadFacts DEF HomeTypeOK
  <2>2. CASE ~Read(p)
    <3>1. UNCHANGED exported
      BY <2>2 DEF Commands, Begin, Switch, WriteCanon, WriteLegacy, WriteAuth, ReadBack,
             Rollback, ClearAuth, ClearIdentity, Import, Save, Die, Unchanged
    <3> QED  BY <1>a, <3>1 DEF HomeTypeOK
  <2> QED  BY <2>1, <2>2
<1>4. /\ UNCHANGED <<expected, latest, now>>
      /\ started' \in 0..MaxCommands /\ calm' \in BOOLEAN
  <2>1. CASE \E c \in Kind, l \in Label : Begin(p, c, l)
    BY <1>a, <2>1, ConstantsAssumption DEF Begin, HomeTypeOK
  <2>2. CASE ~\E c \in Kind, l \in Label : Begin(p, c, l)
    BY <1>a, <2>2
    DEF Commands, Switch, WriteCanon, WriteLegacy, WriteAuth, ReadBack, Rollback, ClearAuth,
        ClearIdentity, Read, Import, Save, Die, Unchanged, HomeTypeOK
  <2> QED  BY <2>1, <2>2
<1>5. lock' \in Process \cup {NoProcess}
  BY <1>a DEF Commands, Begin, Switch, WriteCanon, WriteLegacy, WriteAuth, ReadBack, Rollback,
         ClearAuth, ClearIdentity, Read, Import, Save, Die, HomeTypeOK
<1>6. /\ credentials' \in Token \cup {Gone, Blank} /\ canon' \in Identity \cup {NoAccount}
      /\ legacyId' \in Identity \cup {NoAccount, Missing}
  <2>1. CASE WriteCanon(p) \/ WriteLegacy(p) \/ WriteAuth(p)
    BY <1>a, <1>b, <2>1 DEF WriteCanon, WriteLegacy, WriteAuth, At, Writing, HomeTypeOK
  <2>2. CASE Rollback(p)
    BY <1>a, <2>2 DEF Rollback
  <2>3. CASE ClearAuth(p) \/ ClearIdentity(p)
    BY <1>a, <2>3 DEF ClearAuth, ClearIdentity, HomeTypeOK
  <2>4. CASE UNCHANGED home
    BY <1>a, <2>4 DEF home, HomeTypeOK
  <2> QED  BY <2>1, <2>2, <2>3, <2>4
           DEF Commands, Begin, Switch, ReadBack, Read, Import, Save, Die
<1>7. /\ phase' \in [Process -> Phase] /\ cmd' \in [Process -> Kind \cup {"none"}]
      /\ label' \in [Process -> Label \cup {NoLabel}]
  <2> USE <1>a DEF FunctionsTyped, Reach, Finish, Phase, Writing
  <2>1. CASE \E c \in Kind, l \in Label : Begin(p, c, l)
    BY <2>1 DEF Begin
  <2>2. CASE Switch(p) \/ Rollback(p)
    BY <2>2 DEF Switch, Rollback, Fail
  <2>3. CASE WriteCanon(p) \/ WriteLegacy(p) \/ WriteAuth(p) \/ ReadBack(p)
    BY <2>3 DEF WriteCanon, WriteLegacy, WriteAuth, ReadBack
  <2>4. CASE ClearAuth(p) \/ ClearIdentity(p) \/ Import(p)
    BY <2>4 DEF ClearAuth, ClearIdentity, Import
  <2>5. CASE Read(p) \/ Save(p) \/ Die(p)
    BY <2>5 DEF Read, Save, Die
  <2> QED  BY <2>1, <2>2, <2>3, <2>4, <2>5 DEF Commands
<1>8. snap' \in [Process -> Home] /\ pick' \in [Process -> Known]
  <2> USE <1>a DEF FunctionsTyped, Finish
  <2>1. CASE \E c \in Kind, l \in Label : Begin(p, c, l)
    BY <2>1 DEF Begin
  <2>2. CASE Switch(p)
    <3>1. CASE UseRefused(mem[p], Here, label[p])
      BY <2>2, <3>1 DEF Switch, Fail
    <3>2. CASE ~UseRefused(mem[p], Here, label[p])
      BY <2>2, <3>2, SwitchFacts DEF Switch
    <3> QED  BY <3>1, <3>2
  <2>3. CASE WriteCanon(p) \/ WriteLegacy(p) \/ WriteAuth(p) \/ ReadBack(p) \/ Rollback(p)
    BY <2>3 DEF WriteCanon, WriteLegacy, WriteAuth, ReadBack, Rollback, Fail
  <2>4. CASE ClearAuth(p) \/ ClearIdentity(p) \/ Import(p)
    BY <2>4 DEF ClearAuth, ClearIdentity, Import
  <2>5. CASE Read(p)
    <3>1. CASE Finish(p)
      BY <3>1
    <3>2. CASE UNCHANGED <<snap, pick>>
      BY <3>2
    <3> HIDE DEF Finish
    <3> QED  BY <2>5, <3>1, <3>2 DEF Read
  <2>6. CASE Save(p)
    BY <2>6 DEF Save
  <2>7. CASE Die(p)
    BY <2>7 DEF Die
  <2> QED  BY <2>1, <2>2, <2>3, <2>4, <2>5, <2>6, <2>7 DEF Commands
<1> QED
  BY <1>a, <1>1, <1>2, <1>3, <1>4, <1>5, <1>6, <1>7, <1>8 DEF HomeTypeOK, Phase

\* While no two commands overlap, the one that runs has what the state file
\* says, and the home holds what it found or what it chose.
LEMMA AloneStep ==
    ASSUME IInv, ~Apart, ~Tears, NEW p \in Process, Commands(p), calm'
    PROVE  \A q \in Process : phase'[q] # "idle" => AloneInv(q)'
<1>a. /\ HomeTypeOK /\ FunctionsTyped /\ calm
      /\ store \in [Label -> Known] /\ mem[p] \in [Label -> Known]
  <2>1. calm
    BY DEF Commands, Begin, Switch, WriteCanon, WriteLegacy, WriteAuth, ReadBack, Rollback,
           ClearAuth, ClearIdentity, Read, Import, Save, Die
  <2> QED  BY <2>1, Typed DEF IInv, HomeTypeOK
<1>1. \A q \in Process \ {p} : phase[q] = "idle"
  <2>1. CASE phase[p] = "idle"
    <3>1. \E c \in Kind, l \in Label : Begin(p, c, l)
      BY <2>1 DEF Commands, Switch, WriteCanon, WriteLegacy, WriteAuth, ReadBack, Rollback,
             ClearAuth, ClearIdentity, Read, Import, Save, Die, At, Writing
    <3> QED  BY <3>1 DEF Begin
  <2>2. CASE phase[p] # "idle"
    BY <1>a, <2>2 DEF IInv, AloneInv
  <2> QED  BY <2>1, <2>2
<1>2. \A q \in Process \ {p} : phase'[q] = "idle"
  BY <1>a, <1>1, Frame
<1>3. SUFFICES ASSUME phase'[p] # "idle" PROVE AloneInv(p)'
  BY <1>2
<1>4. CASE phase[p] = "idle"
  <2>1. PICK c \in Kind, l \in Label : Begin(p, c, l)
    BY <1>4 DEF Commands, Switch, WriteCanon, WriteLegacy, WriteAuth, ReadBack, Rollback,
           ClearAuth, ClearIdentity, Read, Import, Save, Die, At, Writing
  <2>2. /\ store' = store /\ mem'[p] = store /\ phase'[p] \in {"use", "import", "identity"}
    BY <1>a, <2>1 DEF Begin, Reach, FunctionsTyped
  <2>3. Grows(store, store)
    BY <1>a, GrowsStays
  <2> QED  BY <1>2, <2>2, <2>3 DEF AloneInv, Grows
<1>5. CASE phase[p] # "idle"
  <2>1. AloneInv(p)
    BY <1>a, <1>5 DEF IInv
  <2>2. ~Finish(p)
    BY <1>3, <1>a DEF Finish, Reach, FunctionsTyped
  <2>3. store' = store
    BY <1>5, <2>2
    DEF Commands, Begin, Switch, WriteCanon, WriteLegacy, WriteAuth, ReadBack, Rollback,
        ClearAuth, ClearIdentity, Read, Import, Save, Die, Unchanged, At
  <2>4. mem'[p] \in [Label -> Known] /\ Grows(mem[p], mem'[p])
        /\ (phase'[p] # "save" => mem'[p] = mem[p])
    BY <1>3, <1>5, MemMoves
  <2>5. Grows(store, mem'[p])
    BY <1>a, <2>1, <2>4, GrowsOn DEF AloneInv, Grows
  <2>6. phase[p] = "save" => phase'[p] = "idle"
    BY <1>a, <2>2
    DEF Commands, Begin, Switch, WriteCanon, WriteLegacy, WriteAuth, ReadBack, Rollback,
        ClearAuth, ClearIdentity, Read, Import, Save, Die, At, Writing
  <2>7. /\ phase'[p] \in {"canon", "legacy", "auth"} => credentials' = snap'[p].auth
        /\ phase'[p] = "verify" => credentials' = [owner |-> pick'[p].owner, exp |-> pick'[p].exp]
    <3> USE <1>a DEF FunctionsTyped, Reach
    <3>1. CASE Switch(p)
      BY <2>2, <3>1, HereTyped DEF Switch, Fail, home
    <3>2. CASE WriteCanon(p) \/ WriteLegacy(p)
      BY <2>1, <3>2 DEF WriteCanon, WriteLegacy, At, AloneInv
    <3>3. CASE WriteAuth(p)
      BY <3>3 DEF WriteAuth
    <3>4. CASE ~(Switch(p) \/ WriteCanon(p) \/ WriteLegacy(p) \/ WriteAuth(p))
      <4>1. phase'[p] \in {"save", "forget"}
        BY <1>5, <2>2, <3>4
        DEF Commands, Begin, ReadBack, Rollback, Fail, ClearAuth, ClearIdentity, Read, Import,
            Save, Die, At
      <4> QED  BY <4>1
    <3> QED  BY <3>1, <3>2, <3>3, <3>4
  <2> QED  BY <1>2, <1>3, <2>1, <2>3, <2>4, <2>5, <2>6, <2>7 DEF AloneInv, Grows
<1> QED  BY <1>4, <1>5

-----------------------------------------------------------------------------
(* Claude, and time.                                                        *)

\* A new token is newer than every one of its account.
LEMMA IssuedFacts ==
    ASSUME HomeTypeOK, NEW a \in Identity, Issued(a) <= MaxExpiry
    PROVE  /\ Issued(a) \in 1..MaxExpiry /\ latest[a] <= Issued(a)
           /\ [owner |-> a, exp |-> Issued(a)] \in Token
<1>1. latest[a] \in Nat /\ now \in Nat
  BY ConstantsAssumption DEF HomeTypeOK
<1>2. Issued(a) \in 1..MaxExpiry /\ latest[a] <= Issued(a)
  BY <1>1, ConstantsAssumption DEF Issued
<1> QED  BY <1>2 DEF Token

\* Where a login is issued to a: the newest is at least the one before.
LEMMA RecentStays ==
    ASSUME HomeTypeOK, NEW a \in Identity, Issued(a) <= MaxExpiry,
           latest' = [latest EXCEPT ![a] = Issued(a)],
           NEW x \in Nat, NEW o \in Identity \cup {NoAccount},
           o # NoAccount => x <= latest[o]
    PROVE  o # NoAccount => x <= latest'[o]
<1>1. \A b \in Identity : latest[b] \in Nat
  BY ConstantsAssumption DEF HomeTypeOK
<1>2. Issued(a) \in 1..MaxExpiry /\ latest[a] <= Issued(a)
  BY IssuedFacts
<1>3. Issued(a) \in Nat
  BY <1>2, ConstantsAssumption
<1> QED  BY <1>1, <1>2, <1>3 DEF HomeTypeOK

LEMMA Expiries ==
    ASSUME HomeTypeOK
    PROVE  /\ credentials.exp \in Nat /\ credentials.owner \in Identity \cup {NoAccount}
           /\ \A p \in Process : /\ snap[p].auth.exp \in Nat
                                 /\ snap[p].auth.owner \in Identity \cup {NoAccount}
<1>1. \A t \in Token \cup {Gone, Blank} : t.exp \in Nat /\ t.owner \in Identity \cup {NoAccount}
  <2>1. Gone.exp = 0 /\ Blank.exp = 1
    BY DEF Gone, Blank
  <2> QED  BY <2>1, Kinds, ConstantsAssumption
<1> QED  BY <1>1 DEF HomeTypeOK, Home

\* Claude or the user's login to it changes the home only while the locks are
\* free; a new token is the newest.
LEMMA EnvironmentStep ==
    ASSUME IInv, ClaudeRefresh \/ \E a \in Identity : NativeLogin(a)
    PROVE  IInv'
<1>a. /\ HomeTypeOK /\ lock = NoProcess /\ Paired(Here) /\ LoginsInv
      /\ UNCHANGED <<store, expected, exported, now, started, lock, command, calm>>
      /\ \A p \in Process : phase[p] \notin Writing
  <2>1. lock = NoProcess
    BY DEF ClaudeRefresh, NativeLogin
  <2>2. UNCHANGED <<store, expected, exported, now, started, lock, command, calm>>
    BY DEF ClaudeRefresh, NativeLogin
  <2> QED  BY <2>1, <2>2, Locked, ConstantsAssumption DEF IInv
<1>b. \/ /\ UNCHANGED latest /\ credentials' = Blank /\ UNCHANGED <<canon, legacyId>>
      \/ \E a \in Identity :
           /\ Issued(a) <= MaxExpiry /\ latest' = [latest EXCEPT ![a] = Issued(a)]
           /\ credentials' = [owner |-> a, exp |-> Issued(a)]
           /\ canon' \in {canon, a} /\ legacyId' \in {legacyId, a}
           /\ Paired(Here)'
  <2>1. CASE ClaudeRefresh
    <3>1. CASE latest[credentials.owner] = credentials.exp
      <4> DEFINE a == credentials.owner
      <4>1. credentials \in Token /\ credentials \notin {Gone, Blank}
        BY <1>a, <2>1 DEF ClaudeRefresh, HomeTypeOK
      <4>2. /\ a \in Identity /\ Issued(a) <= MaxExpiry
            /\ latest' = [latest EXCEPT ![a] = Issued(a)]
            /\ credentials' = [owner |-> a, exp |-> Issued(a)]
            /\ UNCHANGED <<canon, legacyId>>
        BY <2>1, <3>1, <4>1, Kinds DEF ClaudeRefresh, Token
      <4>3. Paired(Here)'
        BY <1>a, <4>1, <4>2 DEF Paired, Here, ActiveId
      <4> QED  BY <4>2, <4>3
    <3>2. CASE latest[credentials.owner] # credentials.exp
      BY <2>1, <3>2 DEF ClaudeRefresh
    <3> QED  BY <3>1, <3>2
  <2>2. CASE \E a \in Identity : NativeLogin(a)
    <3>1. PICK a \in Identity : NativeLogin(a)
      BY <2>2
    <3>2. Paired(Here)'
      BY <3>1, ConstantsAssumption DEF NativeLogin, Paired, Here, ActiveId, Missing
    <3> QED  BY <3>1, <3>2 DEF NativeLogin
  <2> QED  BY <2>1, <2>2
<1>1. Paired(Here)'
  BY <1>b DEF Paired, Here
<1>2. HomeTypeOK'
  <2>1. /\ credentials' \in Token \cup {Gone, Blank} /\ canon' \in Identity \cup {NoAccount}
        /\ legacyId' \in Identity \cup {NoAccount, Missing}
        /\ latest' \in [Identity -> 0..MaxExpiry]
    <3>1. CASE UNCHANGED latest /\ credentials' = Blank /\ UNCHANGED <<canon, legacyId>>
      BY <1>a, <3>1 DEF HomeTypeOK
    <3>2. CASE \E a \in Identity :
                 /\ Issued(a) <= MaxExpiry /\ latest' = [latest EXCEPT ![a] = Issued(a)]
                 /\ credentials' = [owner |-> a, exp |-> Issued(a)]
                 /\ canon' \in {canon, a} /\ legacyId' \in {legacyId, a}
      <4>1. \A n \in 1..MaxExpiry : n \in 0..MaxExpiry
        BY ConstantsAssumption
      <4> QED  BY <1>a, <3>2, <4>1, IssuedFacts DEF HomeTypeOK
    <3> QED  BY <1>b, <3>1, <3>2
  <2> QED  BY <1>a, <2>1 DEF HomeTypeOK, command
<1>3. LoginsInv'
  <2>1. ASSUME NEW x \in Nat, NEW o \in Identity \cup {NoAccount}, o # NoAccount, x <= latest[o]
        PROVE  x <= latest'[o]
    BY <1>a, <1>b, <2>1, RecentStays
  <2>2. credentials'.owner # NoAccount => credentials'.exp <= latest'[credentials'.owner]
    <3>1. CASE credentials' = Blank
      BY <3>1, Kinds
    <3>2. CASE \E a \in Identity :
                 /\ Issued(a) <= MaxExpiry /\ latest' = [latest EXCEPT ![a] = Issued(a)]
                 /\ credentials' = [owner |-> a, exp |-> Issued(a)]
      BY <1>a, <3>2, IssuedFacts DEF HomeTypeOK
    <3> QED  BY <1>b, <3>1, <3>2
  <2>3. \A b \in Known : Recent(b) => Recent(b)'
    BY <2>1, KnownFacts DEF Recent
  <2>4. \A p \in Process : Recent(snap[p].auth) => Recent(snap[p].auth)'
    BY <1>a, <2>1, Expiries DEF Recent, command
  <2>5. Recent(credentials)'
    BY <2>2 DEF Recent
  <2>6. /\ store \in [Label -> Known] /\ exported \in Known
        /\ pick \in [Process -> Known] /\ mem \in [Process -> [Label -> Known]]
    BY <1>a DEF HomeTypeOK
  <2>7. /\ Recent(exported)' /\ \A l \in Label : Recent(store[l])'
        /\ \A p \in Process : Recent(pick[p])' /\ \A l \in Label : Recent(mem[p][l])'
    BY <1>a, <2>3, <2>6 DEF LoginsInv, Recent, command
  <2> QED  BY <1>a, <2>4, <2>5, <2>7 DEF LoginsInv, Tidy, command
<1>4. \A p \in Process : CommandInv(p)'
  BY <1>a DEF IInv, CommandInv, Empty, command, Paired
<1>5. calm' => \A p \in Process : phase'[p] # "idle" => AloneInv(p)'
  BY <1>a DEF IInv, AloneInv, command, Writing
<1> QED  BY <1>a, <1>1, <1>2, <1>3, <1>4, <1>5 DEF IInv

LEMMA TickStep ==
    ASSUME IInv, Tick
    PROVE  IInv'
<1>1. now' \in 0..MaxNow
  BY ConstantsAssumption DEF IInv, HomeTypeOK, Tick
<1>2. UNCHANGED <<home, store, expected, exported, latest, started, lock, command, calm>>
  BY DEF Tick
<1> QED  BY <1>1, <1>2
         DEF IInv, HomeTypeOK, LoginsInv, CommandInv, Chosen, AloneInv, Empty, Recent, Paired,
             Here, home, command

LEMMA StepInv ==
    ASSUME IInv, ~Apart, ~Tears, [HomeNext]_homeVars
    PROVE  IInv'
<1>1. CASE \E p \in Process : Commands(p)
  <2>1. PICK p \in Process : Commands(p)
    BY <1>1
  <2>2. \A q \in Process : CommandInv(q)'
    BY <2>1, OwnStep, OtherStep
  <2>3. calm' => \A q \in Process : phase'[q] # "idle" => AloneInv(q)'
    BY <2>1, AloneStep
  <2> QED  BY <2>1, <2>2, <2>3, TypeStep, PairedStep, LoginsStep DEF IInv
<1>2. CASE ClaudeRefresh \/ \E a \in Identity : NativeLogin(a)
  BY <1>2, EnvironmentStep
<1>3. CASE Tick
  BY <1>3, TickStep
<1>4. CASE UNCHANGED homeVars
  BY <1>4
     DEF IInv, HomeTypeOK, LoginsInv, CommandInv, Chosen, AloneInv, Empty, Recent, Paired,
         Here, homeVars, home, command
<1> QED  BY <1>1, <1>2, <1>3, <1>4 DEF HomeNext

LEMMA InitInv == HomeInit => IInv
<1> SUFFICES ASSUME HomeInit PROVE IInv
  OBVIOUS
<1> DEFINE first(a) == [id |-> a, owner |-> a, exp |-> 1]
<1>1. /\ latest \in [Identity -> {0, 1}] /\ 1 \in 1..MaxExpiry
      /\ \A l \in Label : \/ store[l] = NoLogin
                          \/ \E a \in Identity : latest[a] = 1 /\ store[l] = first(a)
      /\ exported = NoLogin \/ \E a \in Identity : latest[a] = 1 /\ exported = first(a)
      /\ \/ credentials = Gone
         \/ \E a \in Identity : latest[a] = 1 /\ credentials = [owner |-> a, exp |-> 1]
      /\ legacyId \in {Missing, credentials.owner}
      /\ legacyId = Missing => canon = credentials.owner
  BY ConstantsAssumption DEF HomeInit
<1>2. \A a \in Identity : /\ first(a) \in Login /\ first(a).id = a /\ first(a).owner = a
                          /\ first(a).exp = 1 /\ [owner |-> a, exp |-> 1] \in Token
  BY <1>1 DEF Login, Token
<1> HIDE DEF first
<1>a. /\ NoLogin \in Known /\ NoLogin.id = NoLogin.owner /\ Recent(NoLogin)
      /\ \A a \in Identity : latest[a] = 1 =>
           first(a) \in Known /\ first(a).id = first(a).owner /\ Recent(first(a))
  <2>1. NoLogin \in Known /\ NoLogin.id = NoLogin.owner /\ Recent(NoLogin)
    BY Kinds DEF Known, Recent
  <2>2. ASSUME NEW a \in Identity, latest[a] = 1
        PROVE  first(a) \in Known /\ first(a).id = first(a).owner /\ Recent(first(a))
    <3>1. first(a) \in Login /\ first(a).id = a /\ first(a).owner = a /\ first(a).exp = 1
      BY <1>2
    <3>2. first(a).exp <= latest[first(a).owner]
      BY <2>2, <3>1
    <3> QED  BY <3>1, <3>2 DEF Known, Recent
  <2> QED  BY <2>1, <2>2
<1>b. \A l \in Label : store[l] \in Known /\ store[l].id = store[l].owner /\ Recent(store[l])
  BY <1>1, <1>a
<1>c. exported \in Known /\ exported.id = exported.owner /\ Recent(exported)
  BY <1>1, <1>a
<1>3. HomeTypeOK
  <2>1. store \in [Label -> Known] /\ exported \in Known
    <3>1. /\ DOMAIN store = Label /\ store = [l \in Label |-> store[l]]
      BY DEF HomeInit
    <3> QED  BY <1>b, <1>c, <3>1
  <2>2. /\ credentials \in Token \cup {Gone, Blank} /\ credentials.owner \in Identity \cup {NoAccount}
    BY <1>1, <1>2, Kinds
  <2>3. \A n \in {0, 1} : n \in 0..MaxExpiry
    BY <1>1, ConstantsAssumption
  <2>4. /\ latest \in [Identity -> 0..MaxExpiry] /\ now \in 0..MaxNow
        /\ started \in 0..MaxCommands
    BY <1>1, <2>3, ConstantsAssumption DEF HomeInit
  <2>5. mem = [p \in Process |-> None]
    BY DEF HomeInit, None
  <2> QED  BY <1>1, <2>1, <2>2, <2>4, <2>5, Nothing DEF HomeInit, HomeTypeOK
<1>4. LoginsInv
  <2>1. Tidy(store)
    BY <1>b DEF HomeInit, Tidy
  <2>2. \A p \in Process : mem[p] = None /\ pick[p] = NoLogin /\ snap[p] = NoHome
    BY DEF HomeInit, None
  <2>3. Recent(credentials)
    <3>1. \A a \in Identity : latest[a] = 1 => Recent([owner |-> a, exp |-> 1])
      BY <1>1 DEF Recent
    <3> QED  BY <1>1, <3>1, Kinds DEF Recent
  <2>4. Recent(NoLogin) /\ Recent(NoHome.auth) /\ \A l \in Label : Recent(None[l])
    BY Kinds DEF Recent, None, NoHome
  <2> QED  BY <1>b, <1>c, <2>1, <2>2, <2>3, <2>4, Nothing DEF LoginsInv
<1>5. Paired(Here)
  BY <1>1, <1>3, HereTyped, Kinds DEF Paired, ActiveId
<1>6. \A p \in Process : phase[p] = "idle" /\ Empty(p)
  BY DEF HomeInit, Empty
<1>7. lock = NoProcess
  BY DEF HomeInit
<1> QED  BY <1>3, <1>4, <1>5, <1>6, <1>7 DEF IInv, CommandInv, Writing

THEOREM HomeInvariant ==
    ASSUME ~Tears, ~Apart
    PROVE  HomeSpec => []IInv
<1>1. IInv /\ [HomeNext]_homeVars => IInv'
  BY StepInv
<1> QED  BY InitInv, <1>1, PTL DEF HomeSpec

(* Every variable keeps to its type: no token outside the ones issued, and *)
(* no label without a login of its own, enters a file or a command.        *)
THEOREM HomeTypeCorrect ==
    ASSUME ~Tears, ~Apart
    PROVE  HomeSpec => []HomeTypeOK
<1>1. IInv => HomeTypeOK
  BY DEF IInv
<1> QED  BY <1>1, HomeInvariant, PTL

(* Whatever captures, imports and uses overlap, each of them on its own    *)
(* copy of the state file: a label's login is its account's, and no other  *)
(* label has it.                                                           *)
THEOREM LoginsStayApart ==
    ASSUME ~Tears, ~Apart
    PROVE  HomeSpec => []LoginsApart
<1>1. IInv => LoginsApart
  BY DEF IInv, LoginsInv, Tidy, LoginsApart, OwnLabel, NoSharedAccount
<1> QED  BY <1>1, HomeInvariant, PTL

(* The two files of the home name one account whenever Claude's locks are  *)
(* free, failed and refused commands included.                             *)
THEOREM HomeStaysPaired ==
    ASSUME ~Tears, ~Apart
    PROVE  HomeSpec => []HomePaired
<1>1. IInv => HomePaired
  BY HereTyped DEF IInv, Paired, HomePaired
<1> QED  BY <1>1, HomeInvariant, PTL

-----------------------------------------------------------------------------
(* Tokens only grow, and the newest is kept.                                *)

LEMMA ForwardStep ==
    ASSUME IInv, HomeNext, credentials.owner = credentials'.owner,
           credentials.owner # NoAccount, ~\E p \in Process : Rollback(p)
    PROVE  credentials'.exp >= credentials.exp
<1>1. credentials.exp \in Nat
  BY Expiries DEF IInv
<1>2. CASE UNCHANGED credentials
  BY <1>1, <1>2
<1>3. ASSUME NEW p \in Process, Commands(p) PROVE credentials'.exp >= credentials.exp
  <2>1. CASE WriteAuth(p)
    <3>1. Chosen(p) /\ credentials' = [owner |-> pick[p].owner, exp |-> pick[p].exp]
      BY <2>1 DEF WriteAuth, At, IInv, CommandInv, Writing
    <3>2. pick[p].exp \in Nat /\ snap[p].auth.exp \in Nat
      BY Expiries, KnownFacts DEF IInv, HomeTypeOK
    <3>3. credentials \in {snap[p].auth, [owner |-> pick[p].owner, exp |-> pick[p].exp]}
      BY <3>1, Kinds DEF Chosen
    <3>4. credentials.owner = pick[p].owner
      BY <3>1
    <3> QED  BY <3>1, <3>2, <3>3, <3>4 DEF Chosen
  <2>2. ~ClearAuth(p)
    BY Kinds DEF ClearAuth
  <2>3. CASE ~WriteAuth(p)
    BY <1>2, <1>3, <2>2, <2>3
       DEF Commands, Begin, Switch, WriteCanon, WriteLegacy, ReadBack, ClearIdentity, Read,
           Import, Save, Die, home
  <2> QED  BY <2>1, <2>3
<1>4. ASSUME NEW a \in Identity, Issued(a) <= MaxExpiry, credentials.owner = a,
             credentials' = [owner |-> a, exp |-> Issued(a)]
      PROVE  credentials'.exp >= credentials.exp
  <2>1. credentials.exp <= latest[a]
    BY <1>4, Kinds DEF IInv, LoginsInv, Recent
  <2>2. latest[a] \in Nat /\ Issued(a) \in Nat
    <3>1. latest[a] \in 0..MaxExpiry /\ Issued(a) \in 1..MaxExpiry
      BY <1>4, IssuedFacts DEF IInv, HomeTypeOK
    <3> QED  BY <3>1, ConstantsAssumption
  <2>3. latest[a] <= Issued(a)
    BY <1>4, IssuedFacts DEF IInv
  <2> QED  BY <1>1, <1>4, <2>1, <2>2, <2>3
<1>5. CASE ClaudeRefresh
  <2>1. credentials' # Blank /\ credentials.owner \in Identity
    BY Expiries, Kinds DEF IInv
  <2>2. credentials \in Token
    BY <1>5 DEF ClaudeRefresh, IInv, HomeTypeOK
  <2>3. /\ Issued(credentials.owner) <= MaxExpiry
        /\ credentials' = [owner |-> credentials.owner, exp |-> Issued(credentials.owner)]
    BY <1>5, <2>1, <2>2 DEF ClaudeRefresh, Token
  <2> QED  BY <1>4, <2>1, <2>3
<1>6. CASE \E a \in Identity : NativeLogin(a)
  <2>1. PICK a \in Identity : NativeLogin(a)
    BY <1>6
  <2>2. Issued(a) <= MaxExpiry /\ credentials' = [owner |-> a, exp |-> Issued(a)]
    BY <2>1 DEF NativeLogin
  <2>3. credentials.owner = a
    BY <2>2
  <2> QED  BY <1>4, <2>2, <2>3
<1>7. CASE Tick
  BY <1>2, <1>7 DEF Tick, home
<1> QED  BY <1>3, <1>5, <1>6, <1>7 DEF HomeNext

\* Where the newest token of an account can be but in another command's copy.
Kept(a, p) ==
    \/ credentials = [owner |-> a, exp |-> latest[a]]
    \/ \E l \in Label : store[l].owner = a /\ store[l].exp = latest[a]
    \/ phase[p] \in Writing /\ snap[p].auth = [owner |-> a, exp |-> latest[a]]
    \/ \E l \in Label : mem[p][l].owner = a /\ mem[p][l].exp = latest[a]

LEMMA OnlyOne ==
    ASSUME IInv, NEW p \in Process, \A q \in Process \ {p} : phase[q] = "idle",
           NEW a \in Identity, Safe(a)
    PROVE  Kept(a, p)
<1>1. \A q \in Process \ {p} : phase[q] \notin Writing /\ \A l \in Label : mem[q][l].owner # a
  BY Kinds DEF IInv, CommandInv, Empty, Writing
<1> QED  BY <1>1 DEF Safe, Kept

\* A login of an account no older than its newest is the newest.
LEMMA Newest ==
    ASSUME NEW b \in Known, NEW a \in Identity, latest[a] \in Nat,
           b.owner = a, latest[a] <= b.exp, Recent(b)
    PROVE  b.exp = latest[a]
<1>1. b.exp <= latest[a]
  BY ConstantsAssumption DEF Recent
<1> QED  BY <1>1, KnownFacts

LEMMA TokenIs ==
    ASSUME NEW t \in Token \cup {Gone, Blank}, NEW a \in Identity, NEW n, t.owner = a, t.exp = n
    PROVE  t = [owner |-> a, exp |-> n]
<1>1. t \in Token
  BY Kinds
<1> QED  BY <1>1 DEF Token

LEMMA CommandKeeps ==
    ASSUME IInv, ~Apart, ~Tears, NEW p \in Process, Commands(p), ~ClearAuth(p), calm',
           NEW a \in Identity, Pooled(a), Safe(a)
    PROVE  Safe(a)'
<1>a. /\ HomeTypeOK /\ FunctionsTyped /\ calm /\ UNCHANGED latest /\ latest[a] \in Nat
  <2>1. calm /\ UNCHANGED latest
    BY DEF Commands, Begin, Switch, WriteCanon, WriteLegacy, WriteAuth, ReadBack, Rollback,
           ClearIdentity, Read, Import, Save, Die, Unchanged
  <2>2. latest[a] \in 0..MaxExpiry
    BY DEF IInv, HomeTypeOK
  <2> QED  BY <2>1, <2>2, Typed, ConstantsAssumption DEF IInv
<1>1. CASE phase[p] = "idle"
  <2>1. PICK c \in Kind, l \in Label : Begin(p, c, l)
    BY <1>1 DEF Commands, Switch, WriteCanon, WriteLegacy, WriteAuth, ReadBack, Rollback,
           ClearAuth, ClearIdentity, Read, Import, Save, Die, At, Writing
  <2>2. \A q \in Process : phase[q] = "idle"
    BY <2>1 DEF Begin
  <2>3. Kept(a, p) /\ \A k \in Label : mem[p][k].owner # a
    BY <2>2, OnlyOne, Kinds DEF IInv, CommandInv, Empty
  <2> QED  BY <1>a, <1>1, <2>1, <2>3 DEF Kept, Begin, home, Safe, Writing
<1>2. CASE phase[p] # "idle"
  <2>1. AloneInv(p)
    BY <1>a, <1>2 DEF IInv
  <2>2. Kept(a, p)
    BY <2>1, OnlyOne DEF AloneInv
  <2>3. CASE phase[p] = "save"
    <3>1. Save(p)
      BY <1>2, <2>3 DEF Commands, Begin, Switch, WriteCanon, WriteLegacy, WriteAuth, ReadBack,
             Rollback, ClearAuth, ClearIdentity, Read, Import, Die, At, Writing
    <3>2. store' = mem[p] /\ UNCHANGED credentials
      BY <3>1 DEF Save, home
    <3>3. ASSUME NEW l \in Label, store[l].owner = a, store[l].exp = latest[a]
          PROVE  mem[p][l].owner = a /\ mem[p][l].exp = latest[a]
      <4>1. store[l] # NoLogin
        BY <3>3, Kinds
      <4>2. /\ mem[p][l] \in Known /\ Recent(mem[p][l])
            /\ mem[p][l].owner = a /\ latest[a] <= mem[p][l].exp
        BY <2>1, <3>3, <4>1 DEF AloneInv, IInv, HomeTypeOK, LoginsInv
      <4> QED  BY <1>a, <4>2, Newest
    <3> QED  BY <1>a, <2>2, <2>3, <3>2, <3>3 DEF Kept, Safe, Writing
  <2>4. CASE phase[p] # "save"
    <3>1. mem[p] = store /\ store' = store
      BY <1>2, <2>1, <2>4
      DEF AloneInv, Commands, Begin, Switch, WriteCanon, WriteLegacy, WriteAuth, ReadBack,
          Rollback, ClearAuth, ClearIdentity, Read, Import, Save, Die, Unchanged, At
    <3>2. CASE \E l \in Label : store[l].owner = a /\ store[l].exp = latest[a]
      BY <1>a, <3>1, <3>2 DEF Safe
    <3>3. CASE phase[p] \in Writing
      <4>1. Chosen(p)
        BY <3>3 DEF IInv, CommandInv
      <4>2. /\ snap[p] \in Home /\ snap[p].auth \in Token \cup {Gone, Blank} /\ label[p] \in Label
            /\ snap[p].auth = [owner |-> a, exp |-> latest[a]] =>
                 Live(snap[p]) # NoLogin /\ Live(snap[p]).id = a
        <5>1. snap[p] \in Home /\ label[p] \in Label
          BY <1>2 DEF IInv, HomeTypeOK, CommandInv
        <5>2. ASSUME snap[p].auth = [owner |-> a, exp |-> latest[a]]
              PROVE  Live(snap[p]) # NoLogin /\ Live(snap[p]).id = a
          <6>1. snap[p].auth \notin {Gone, Blank} /\ snap[p].auth.owner = a
            BY <5>2, Kinds
          <6> QED  BY <4>1, <5>1, <6>1, LiveFacts DEF Chosen
        <5> QED  BY <5>1, <5>2, LiveFacts
      <4>3. \/ snap[p].auth = [owner |-> a, exp |-> latest[a]]
            \/ \E l \in Label : store[l].owner = a /\ store[l].exp = latest[a]
        <5>1. CASE credentials = [owner |-> a, exp |-> latest[a]]
          <6>1. CASE phase[p] # "verify"
            BY <2>1, <3>3, <5>1, <6>1 DEF AloneInv, Writing
          <6>2. CASE phase[p] = "verify"
            <7>1. pick[p].owner = a /\ pick[p].exp = latest[a]
              BY <2>1, <5>1, <6>2 DEF AloneInv
            <7>2. CASE pick[p] = Live(snap[p])
              <8>1. snap[p].auth.owner = a /\ snap[p].auth.exp = latest[a]
                BY <4>1, <4>2, <7>1, <7>2, LiveFacts DEF Chosen
              <8> QED  BY <4>2, <8>1, TokenIs
            <7>3. CASE pick[p] = mem[p][label[p]]
              BY <3>1, <4>2, <7>1, <7>3
            <7> QED  BY <4>1, <7>2, <7>3 DEF Chosen
          <6> QED  BY <6>1, <6>2
        <5> QED  BY <2>2, <3>1, <5>1 DEF Kept
      <4>4. CASE snap[p].auth = [owner |-> a, exp |-> latest[a]]
        <5>1. CASE WriteCanon(p) \/ WriteLegacy(p) \/ WriteAuth(p)
          <6>1. phase'[p] \in Writing /\ snap' = snap
            BY <1>a, <5>1 DEF WriteCanon, WriteLegacy, WriteAuth, Reach, FunctionsTyped, Writing
          <6> QED  BY <1>a, <4>4, <6>1 DEF Safe
        <5>2. CASE ReadBack(p)
          <6>1. PICK k \in Label : store[k].id = a
            BY DEF Pooled
          <6>2. /\ mem'[p][k].owner = a /\ latest[a] <= mem'[p][k].exp
                /\ mem'[p][k] \in Known
            BY <3>1, <4>2, <4>4, <5>2, <6>1, ReadBackFacts
          <6>3. Recent(mem'[p][k])
            BY <1>a, LoginsStep DEF LoginsInv, Recent
          <6>4. mem'[p][k].exp = latest[a]
            BY <1>a, <6>2, <6>3, Newest
          <6> QED  BY <1>a, <6>2, <6>4 DEF Safe
        <5>3. CASE Rollback(p)
          BY <1>a, <4>4, <5>3 DEF Rollback, Safe
        <5>4. WriteCanon(p) \/ WriteLegacy(p) \/ WriteAuth(p) \/ ReadBack(p) \/ Rollback(p)
          BY <3>3 DEF Commands, Begin, Switch, ClearAuth, ClearIdentity, Read, Import, Save, Die,
                 At, Writing
        <5> QED  BY <5>1, <5>2, <5>3, <5>4
      <4> QED  BY <3>2, <4>3, <4>4
    <3>4. CASE phase[p] \notin Writing
      <4>1. UNCHANGED credentials
        BY <3>4 DEF Commands, Begin, Switch, WriteCanon, WriteLegacy, WriteAuth, ReadBack,
               Rollback, ClearIdentity, Read, Import, Save, Die, At, Writing, home
      <4> QED  BY <1>a, <2>2, <3>1, <3>2, <3>4, <4>1 DEF Kept, Safe
    <3> QED  BY <3>3, <3>4
  <2> QED  BY <2>3, <2>4
<1> QED  BY <1>1, <1>2

LEMMA RefreshKeeps ==
    ASSUME IInv, ClaudeRefresh, NEW a \in Identity, Safe(a)
    PROVE  Safe(a)'
<1>a. /\ credentials \in Token /\ credentials.owner \in Identity
      /\ latest \in [Identity -> 0..MaxExpiry]
      /\ UNCHANGED <<store, phase, snap, mem>>
  <2>1. credentials \in Token
    BY DEF ClaudeRefresh, IInv, HomeTypeOK
  <2> QED  BY <2>1, Kinds DEF ClaudeRefresh, command, IInv, HomeTypeOK
<1>1. CASE latest[credentials.owner] = credentials.exp
  <2> DEFINE b == credentials.owner
  <2>1. /\ latest' = [latest EXCEPT ![b] = Issued(b)]
        /\ credentials' = [owner |-> b, exp |-> Issued(b)]
    BY <1>a, <1>1 DEF ClaudeRefresh, Token
  <2>2. CASE a = b
    BY <1>a, <2>1, <2>2 DEF Safe
  <2>3. CASE a # b
    <3>1. latest'[a] = latest[a] /\ credentials # [owner |-> a, exp |-> latest[a]]
      BY <1>a, <2>1, <2>3
    <3> QED  BY <1>a, <3>1 DEF Safe
  <2> QED  BY <2>2, <2>3
<1>2. CASE latest[credentials.owner] # credentials.exp
  <2>1. UNCHANGED latest /\ credentials # [owner |-> a, exp |-> latest[a]]
    BY <1>2 DEF ClaudeRefresh
  <2> QED  BY <1>a, <2>1 DEF Safe
<1> QED  BY <1>1, <1>2

(* Whatever `use`, captures, imports and refreshes by Claude interleave, no *)
(* step puts an older token of an account in the place of a newer one in    *)
(* the home, but for a rollback; and while commands run one after the other *)
(* the newest token of an account of the pool is never lost to a switch.    *)
THEOREM RotationsKept ==
    ASSUME ~Tears, ~Apart
    PROVE  HomeSpec => TokensKept
<1>1. IInv /\ [HomeNext]_homeVars =>
        [credentials.owner = credentials'.owner /\ credentials.owner # NoAccount
           => credentials'.exp >= credentials.exp \/ \E p \in Process : Rollback(p)]_homeVars
  BY ForwardStep
<1>2. IInv /\ [HomeNext]_homeVars =>
        [\A a \in Identity : calm' /\ Pooled(a) /\ Safe(a) =>
           \/ Safe(a)'
           \/ \E p \in Process : ClearAuth(p)
           \/ \E b \in Identity : NativeLogin(b)]_homeVars
  <2> SUFFICES ASSUME IInv, HomeNext, NEW a \in Identity, calm', Pooled(a), Safe(a),
                      ~\E p \in Process : ClearAuth(p), ~\E b \in Identity : NativeLogin(b)
               PROVE  Safe(a)'
    OBVIOUS
  <2>1. CASE Tick
    BY <2>1 DEF Tick, Safe, home, command
  <2> QED  BY <2>1, CommandKeeps, RefreshKeeps DEF HomeNext
<1> QED  BY <1>1, <1>2, HomeInvariant, PTL DEF HomeSpec, TokensKept, HomeForward, RotationKept
=============================================================================
