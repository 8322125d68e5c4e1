----------------------------- MODULE WebProofs -----------------------------
(****************************************************************************)
(* Theorems about the web page.  First what it knows of the depositors, for *)
(* any wallets, and any number of requests, submissions and faults: the     *)
(* types, and that no account is listed twice.  A list is made in three     *)
(* ways: by an answer, which names each account once; by replacing the      *)
(* account of one owner; and by putting the visitor's account after those   *)
(* of a list without it.  The two last start from a list that a submission  *)
(* captured earlier, so the invariant is about those as well.               *)
(****************************************************************************)
EXTENDS WebAccounts, WebTerminal, FiniteSetTheorems, TLAPS

\* Lists that are captured or answered name each owner once, and the answer to
\* a refetch is the account of who asked.
RequestSound(r) ==
  /\ OnePerOwner(r.base)
  /\ r.answer # None =>
       OnePerOwner(r.answer) /\ \A i \in DOMAIN r.answer : r.answer[i].owner \in Asked(r)

RequestsSound == \A r \in requests : RequestSound(r)
CapturedSound == \A s \in open : OnePerOwner(s.base)

IInv == TypeOK /\ OneEntryPerOwner /\ RequestsSound /\ CapturedSound

-----------------------------------------------------------------------------
\* A request as it is made is well typed and captures its list.
LEMMA RequestType ==
  ASSUME NEW kind \in Kinds, NEW n \in Nat, NEW of \in Wallets \cup {None},
         NEW base \in Lists, OnePerOwner(base)
  PROVE  Request(kind, n, of, base) \in Requests /\ RequestSound(Request(kind, n, of, base))
  BY DEF Request, Requests, RequestSound

\* The empty list names nobody twice.
LEMMA EmptyList == <<>> \in Lists /\ OnePerOwner(<<>>)
  BY DEF Lists, OnePerOwner

\* An answer of the node is a list of what was asked for, each owner once.
LEMMA AnswerType ==
  ASSUME NEW r, NEW accounts \in Answers(r)
  PROVE  /\ accounts \in Lists /\ OnePerOwner(accounts)
         /\ \A i \in DOMAIN accounts : accounts[i].owner \in Asked(r)
<1>1. PICK n \in 0 .. Cardinality(Wallets) : accounts \in [1 .. n -> Found(r)]
  BY DEF Answers
<1>2. Cardinality(Wallets) \in Nat
  BY AccountsAssumption, FS_CardinalityType
<1>3. n \in Nat /\ Found(r) \subseteq Entries
  BY <1>1, <1>2 DEF Found
<1>4. accounts \in Seq(Entries)
  BY <1>1, <1>3
<1>5. \A i \in DOMAIN accounts : accounts[i].owner \in Asked(r)
  BY <1>1 DEF Found
<1> QED
  BY <1>4, <1>5 DEF Answers, Lists

\* Replacing the account of an owner leaves the owners as they are.
LEMMA ReplacedType ==
  ASSUME NEW base \in Lists, NEW e \in Entries, OnePerOwner(base)
  PROVE  Replaced(base, e) \in Lists /\ OnePerOwner(Replaced(base, e))
<1>1. DOMAIN base = 1 .. Len(base) /\ Len(base) \in Nat
  BY DEF Lists
<1>2. \A i \in 1 .. Len(base) : base[i] \in Entries
  BY DEF Lists
<1>3. Replaced(base, e) \in [1 .. Len(base) -> Entries]
  BY <1>1, <1>2 DEF Replaced
<1>4. Replaced(base, e) \in Seq(Entries)
  BY <1>1, <1>3
<1>5. \A i \in DOMAIN base : Replaced(base, e)[i].owner = base[i].owner
  BY DEF Replaced
<1>6. DOMAIN Replaced(base, e) = DOMAIN base
  BY DEF Replaced
<1> QED
  BY <1>4, <1>5, <1>6 DEF OnePerOwner, Lists

\* Putting an account after those of a list without its owner.
LEMMA AppendedType ==
  ASSUME NEW base \in Lists, NEW e \in Entries, OnePerOwner(base),
         \A i \in DOMAIN base : base[i].owner # e.owner
  PROVE  Append(base, e) \in Lists /\ OnePerOwner(Append(base, e))
<1>1. base \in Seq(Entries) /\ DOMAIN base = 1 .. Len(base) /\ Len(base) \in Nat
  BY DEF Lists
<1>2. Append(base, e) \in Seq(Entries) /\ Len(Append(base, e)) = Len(base) + 1
  BY <1>1
<1>3. DOMAIN Append(base, e) = 1 .. Len(base) + 1
  BY <1>1, <1>2
<1>4. \A i \in 1 .. Len(base) : Append(base, e)[i] = base[i]
  BY <1>1
<1>5. Append(base, e)[Len(base) + 1] = e
  BY <1>1
<1>6. ASSUME NEW i \in 1 .. Len(base) + 1, NEW j \in 1 .. Len(base) + 1,
             Append(base, e)[i].owner = Append(base, e)[j].owner
      PROVE  i = j
  <2>1. CASE i \in 1 .. Len(base) /\ j \in 1 .. Len(base)
    BY <1>1, <1>4, <1>6, <2>1 DEF OnePerOwner
  <2>2. CASE i \in 1 .. Len(base) /\ j = Len(base) + 1
    BY <1>1, <1>4, <1>5, <1>6, <2>2
  <2>3. CASE i = Len(base) + 1 /\ j \in 1 .. Len(base)
    BY <1>1, <1>4, <1>5, <1>6, <2>3
  <2> QED
    BY <1>1, <2>1, <2>2, <2>3
<1> QED
  BY <1>2, <1>3, <1>6 DEF OnePerOwner, Lists

-----------------------------------------------------------------------------
\* The first state.
LEMMA InitSound == Init => IInv
<1> SUFFICES ASSUME Init PROVE IInv
  OBVIOUS
<1>1. chain \in [Wallets -> 0 .. MaxVersion]
  <2>1. MaxVersion \in Nat
    BY AccountsAssumption
  <2>2. CASE MaxVersion = 0
    BY <2>2 DEF Init
  <2>3. CASE MaxVersion # 0
    <3>1. 0 .. 1 \subseteq 0 .. MaxVersion
      BY <2>1, <2>3
    <3> QED
      BY <2>3, <3>1 DEF Init
  <2> QED
    BY <2>2, <2>3
<1>2. TypeOK
  BY <1>1, EmptyList DEF Init, TypeOK
<1> QED
  BY <1>2, EmptyList DEF Init, IInv, OneEntryPerOwner, RequestsSound, CapturedSound

\* A wallet that comes or goes, and a change of an account.
LEMMA OutsideStep ==
  ASSUME IInv, NEW w \in Wallets, Connect(w) \/ Disconnect \/ Change(w)
  PROVE  IInv'
<1>1. CASE Connect(w)
  BY <1>1 DEF Connect, Providers, IInv, TypeOK, OneEntryPerOwner, RequestsSound, CapturedSound
<1>2. CASE Disconnect
  BY <1>2 DEF Disconnect, Providers, IInv, TypeOK, OneEntryPerOwner, RequestsSound, CapturedSound
<1>3. CASE Change(w)
  <2>1. chain' \in [Wallets -> 0 .. MaxVersion]
    BY <1>3, AccountsAssumption DEF Change, IInv, TypeOK
  <2> QED
    BY <1>3, <2>1 DEF Change, IInv, TypeOK, OneEntryPerOwner, RequestsSound, CapturedSound
<1> QED
  BY <1>1, <1>2, <1>3

\* A commit makes requests without a list.
LEMMA CommitStep ==
  ASSUME IInv, Commit
  PROVE  IInv'
<1>1. \A r \in DepositorEffect : r \in Requests /\ RequestSound(r)
  <2>1. \A n \in LeastFree : n \in Nat
    BY AccountsAssumption DEF LeastFree
  <2>2. \A n \in LeastFree :
          Request("all", n, None, <<>>) \in Requests
            /\ RequestSound(Request("all", n, None, <<>>))
    BY <2>1, RequestType, EmptyList DEF Kinds
  <2>3. wallet \in Wallets \cup {None}
    BY DEF IInv, TypeOK
  <2>4. Request("own", 0, wallet, <<>>) \in Requests
          /\ RequestSound(Request("own", 0, wallet, <<>>))
    BY <2>3, RequestType, EmptyList DEF Kinds
  <2> QED
    BY <2>2, <2>4 DEF DepositorEffect
<1>2. \A r \in DepositoryEffect : r \in Requests /\ RequestSound(r)
  <2>1. Request("pool", 0, None, <<>>) \in Requests
          /\ RequestSound(Request("pool", 0, None, <<>>))
    BY RequestType, EmptyList DEF Kinds
  <2> QED
    BY <2>1 DEF DepositoryEffect
<1>3. requests' \subseteq Requests /\ RequestsSound'
  BY <1>1, <1>2 DEF Commit, IInv, TypeOK, RequestsSound
<1>4. own' \in [pda : Wallets \cup {None}, depositor : Lists]
  BY DEF Commit, IInv, TypeOK
<1>5. program' \in BOOLEAN /\ pool' \in [pda : BOOLEAN, loaded : BOOLEAN]
  BY DEF Commit, IInv, TypeOK
<1>6. due' \subseteq Providers
  BY DEF Commit, Providers
<1> QED
  BY <1>3, <1>4, <1>5, <1>6 DEF Commit, IInv, TypeOK, OneEntryPerOwner, CapturedSound

\* A submission captures the list, which is sound, and asks with it at its end.
LEMMA ClickStep ==
  ASSUME IInv, Click
  PROVE  IInv'
<1> DEFINE made == [n |-> count.clicks + 1, of |-> wallet, base |-> list]
<1>1. made \in [n : Nat, of : Wallets, base : Lists] /\ OnePerOwner(made.base)
  BY DEF Click, Ready, IInv, TypeOK, OneEntryPerOwner
<1>2. open' = open \cup {made}
  BY DEF Click
<1>3. count' \in [connects : Nat, clicks : Nat, faults : Nat]
  BY DEF Click, IInv, TypeOK
<1> HIDE DEF made
<1> QED
  BY <1>1, <1>2, <1>3
  DEF Click, IInv, TypeOK, OneEntryPerOwner, RequestsSound, CapturedSound

\* A submission that ends asks for the account it captured.
LEMMA FinishStep ==
  ASSUME IInv, NEW s \in open, Finish(s)
  PROVE  IInv'
<1>1. s.n \in Nat /\ s.of \in Wallets \cup {None} /\ s.base \in Lists /\ OnePerOwner(s.base)
  BY DEF IInv, TypeOK, CapturedSound
<1> DEFINE made == Request("refetch", s.n, s.of, s.base)
<1>2. made \in Requests /\ RequestSound(made)
  BY <1>1, RequestType DEF Kinds
<1>3. requests' = requests \cup {made}
  BY DEF Finish
<1> HIDE DEF made
<1> QED
  BY <1>2, <1>3 DEF Finish, IInv, TypeOK, OneEntryPerOwner, RequestsSound, CapturedSound

\* An answer of the node.
LEMMA AnswerStep ==
  ASSUME IInv, NEW r \in requests, Answer(r)
  PROVE  IInv'
<1>1. PICK accounts \in Answers(r) :
        requests' = (requests \ {r}) \cup {[r EXCEPT !.answer = accounts]}
  BY DEF Answer
<1>2. accounts \in Lists /\ OnePerOwner(accounts)
      /\ \A i \in DOMAIN accounts : accounts[i].owner \in Asked(r)
  BY AnswerType
<1> DEFINE answered == [r EXCEPT !.answer = accounts]
<1>3. r \in Requests /\ RequestSound(r)
  BY DEF IInv, TypeOK, RequestsSound
<1>4. /\ answered \in Requests
      /\ answered.kind = r.kind /\ answered.of = r.of
      /\ answered.base = r.base /\ answered.answer = accounts
  BY <1>2, <1>3 DEF Requests
<1>5. RequestSound(answered)
  BY <1>2, <1>3, <1>4 DEF RequestSound, Asked
<1> HIDE DEF answered
<1>6. requests' = (requests \ {r}) \cup {answered}
  BY <1>1 DEF answered
<1> QED
  BY <1>4, <1>5, <1>6 DEF Answer, IInv, TypeOK, OneEntryPerOwner, RequestsSound, CapturedSound

\* What a refetch makes of the list it started from.
LEMMA RefetchedType ==
  ASSUME IInv, NEW r \in requests, r.kind = "refetch", r.answer # None, Refetched(r)
  PROVE  /\ list' \in Lists /\ OnePerOwner(list')
         /\ own' \in [pda : Wallets \cup {None}, depositor : Lists]
         /\ due' \subseteq Providers
<1>1. r \in Requests /\ RequestSound(r)
  BY DEF IInv, TypeOK, RequestsSound
<1>2. r.answer \in Lists /\ r.base \in Lists /\ OnePerOwner(r.base)
  BY <1>1 DEF Requests, RequestSound
<1>3. list \in Lists /\ OnePerOwner(list) /\ due \subseteq Providers
      /\ own \in [pda : Wallets \cup {None}, depositor : Lists]
  BY DEF IInv, TypeOK, OneEntryPerOwner
<1>4. CASE r.answer = <<>>
  BY <1>3, <1>4 DEF Refetched
<1>5. CASE r.answer # <<>>
  <2>1. 1 \in DOMAIN r.answer /\ r.answer[1] \in Entries
    BY <1>2, <1>5 DEF Lists
  <2>2. r.answer[1].owner = r.of
    BY <1>1, <2>1 DEF RequestSound, Asked
  <2>3. due' \subseteq Providers
    BY <1>3, <1>5 DEF Refetched, Providers
  <2>4. CASE \E i \in DOMAIN r.base : r.base[i].owner = r.of
    BY <1>2, <1>3, <1>5, <2>1, <2>3, <2>4, ReplacedType DEF Refetched
  <2>5. CASE ~\E i \in DOMAIN r.base : r.base[i].owner = r.of
    <3>1. WithAccount(r) \in Lists /\ OnePerOwner(WithAccount(r))
      BY <1>2, <2>1, <2>2, <2>5, AppendedType DEF WithAccount
    <3>2. list' \in {list, WithAccount(r)} /\ own' = [own EXCEPT !.depositor = r.answer]
      BY <1>5, <2>5 DEF Refetched
    <3> QED
      BY <1>2, <1>3, <2>3, <3>1, <3>2
  <2> QED
    BY <2>4, <2>5
<1> QED
  BY <1>4, <1>5

\* An answer arrives at the page.
LEMMA LandStep ==
  ASSUME IInv, NEW r \in requests, Land(r)
  PROVE  IInv'
<1>1. r \in Requests /\ RequestSound(r) /\ r.answer # None
  BY DEF IInv, TypeOK, RequestsSound, Land
<1>2. r.answer \in Lists /\ OnePerOwner(r.answer)
  BY <1>1 DEF Requests, RequestSound
<1>3. /\ list' \in Lists /\ OnePerOwner(list')
      /\ own' \in [pda : Wallets \cup {None}, depositor : Lists]
      /\ due' \subseteq Providers
      /\ pool' \in [pda : BOOLEAN, loaded : BOOLEAN]
  <2>1. CASE r.kind = "all"
    BY <1>2, <2>1 DEF Land, IInv, TypeOK, Providers
  <2>2. CASE r.kind = "own"
    BY <1>2, <2>2 DEF Land, IInv, TypeOK, OneEntryPerOwner, Providers
  <2>3. CASE r.kind = "pool"
    BY <1>2, <2>3 DEF Land, IInv, TypeOK, OneEntryPerOwner, Providers
  <2>4. CASE r.kind = "refetch"
    BY <1>1, <2>4, RefetchedType DEF Land, IInv, TypeOK
  <2> QED
    BY <1>1, <2>1, <2>2, <2>3, <2>4 DEF Requests, Kinds
<1>4. requests' \subseteq Requests /\ RequestsSound'
  BY DEF Land, IInv, TypeOK, RequestsSound
<1> QED
  BY <1>3, <1>4 DEF Land, IInv, TypeOK, OneEntryPerOwner, CapturedSound

\* A request that fails is forgotten.
LEMMA FailStep ==
  ASSUME IInv, NEW r \in requests, Fail(r)
  PROVE  IInv'
<1>1. count' \in [connects : Nat, clicks : Nat, faults : Nat]
  BY DEF Fail, IInv, TypeOK
<1>2. due' \subseteq Providers
  BY DEF Fail, IInv, TypeOK, Providers
<1> QED
  BY <1>1, <1>2 DEF Fail, IInv, TypeOK, OneEntryPerOwner, RequestsSound, CapturedSound

\* Every step keeps the invariant.
LEMMA StepSound == IInv /\ [Next]_vars => IInv'
<1> SUFFICES ASSUME IInv, [Next]_vars PROVE IInv'
  OBVIOUS
<1>1. CASE \E w \in Wallets : Connect(w) \/ Change(w)
  BY <1>1, OutsideStep
<1>2. CASE Disconnect
  <2>1. wallet \in Wallets
    BY <1>2 DEF Disconnect, IInv, TypeOK
  <2> QED
    BY <1>2, <2>1, OutsideStep
<1>3. CASE Click
  BY <1>3, ClickStep
<1>4. CASE Progress
  BY <1>4, CommitStep, AnswerStep, LandStep DEF Progress
<1>5. CASE \E s \in open : Finish(s)
  BY <1>5, FinishStep
<1>6. CASE \E r \in requests : Fail(r)
  BY <1>6, FailStep
<1>7. CASE UNCHANGED vars
  BY <1>7 DEF vars, IInv, TypeOK, OneEntryPerOwner, RequestsSound, CapturedSound
<1> QED
  BY <1>1, <1>2, <1>3, <1>4, <1>5, <1>6, <1>7 DEF Next

-----------------------------------------------------------------------------
\* The page's state is well typed, whatever arrives in whatever order.
THEOREM TypeCorrect == Spec => []TypeOK
<1>1. IInv => TypeOK
  BY DEF IInv
<1> QED
  BY <1>1, InitSound, StepSound, PTL DEF Spec

\* No account is listed twice, so the page's totals count nobody twice.
THEOREM NobodyListedTwice == Spec => []OneEntryPerOwner
<1>1. IInv => OneEntryPerOwner
  BY DEF IInv
<1> QED
  BY <1>1, InitSound, StepSound, PTL DEF Spec
-----------------------------------------------------------------------------
(****************************************************************************)
(* The terminal, for any bounds: the types, and that a ticker does not      *)
(* outlive its slide.  The flag of a swipe is toggled by Buttons and by the *)
(* effect of Mint.  The invariant says that they take turns: while it is    *)
(* up, that effect is still to be run, and it is up as long as a ticker is  *)
(* on another slide.                                                        *)
(****************************************************************************)
\* Only the button of the slide, or DEPOSIT, was ever pressed.
ButtonOfSlide == form.button = "WITHDRAW" => form.slide = "WITHDRAW"
SweepPending == form.swipe => "Mint" \in effects
CarriedOver == form.ticker /\ form.slide # "WITHDRAW" => form.swipe

TerminalInv == TerminalTypeOK /\ ButtonOfSlide /\ SweepPending /\ CarriedOver

-----------------------------------------------------------------------------
\* Saturating counters stay within their bounds.
LEMMA OneMoreBound ==
  ASSUME NEW bound \in Nat \ {0}, NEW n \in 0 .. bound
  PROVE  OneMore(n, bound) \in 0 .. bound
  BY DEF OneMore, Lesser

\* The invariant holds of a page that has just been loaded.
LEMMA InitInv == TerminalInit => TerminalInv
<1> SUFFICES ASSUME TerminalInit PROVE TerminalInv
  OBVIOUS
<1>1. bar \in Bars /\ terms \in Terms /\ price \in Prices
  BY DEF TerminalInit, Bars, Terms, Prices
<1>2. console \in Consoles /\ flying \in Flights
  BY TerminalAssumption DEF TerminalAssumption, TerminalInit, Consoles, Flights
<1>3. counts \in Counts
  BY DEF TerminalInit, Counts
<1>4. form \in Forms
  BY DEF TerminalInit, Forms, Amounts, Slides
<1>5. ButtonOfSlide /\ SweepPending /\ CarriedOver
  BY DEF TerminalInit, ButtonOfSlide, SweepPending, CarriedOver
<1> QED  BY <1>1, <1>2, <1>3, <1>4, <1>5 DEF TerminalInit, TerminalInv, TerminalTypeOK

\* The wallet leaves the form alone, and every effect is to be run.
LEMMA WalletStep ==
  ASSUME TerminalInv, ConnectWallet \/ DisconnectWallet
  PROVE  TerminalInv'
<1>1. counts' \in Counts
  <2>1. counts \in Counts
    BY DEF TerminalInv, TerminalTypeOK
  <2>2. counts' = counts \/ counts' = [counts EXCEPT !.connects = counts.connects + 1]
    BY DEF ConnectWallet, DisconnectWallet
  <2>3. [counts EXCEPT !.connects = counts.connects + 1] \in Counts
    BY <2>1 DEF Counts
  <2> QED  BY <2>1, <2>2, <2>3
<1>2. connected' \in BOOLEAN /\ effects' = Components /\ UNCHANGED form
  BY DEF ConnectWallet, DisconnectWallet, SetConnected
<1>3. ButtonOfSlide' /\ SweepPending' /\ CarriedOver'
  BY <1>2 DEF TerminalInv, ButtonOfSlide, SweepPending, CarriedOver, Components
<1> QED
  BY <1>1, <1>2, <1>3 DEF ConnectWallet, DisconnectWallet, SetConnected, TerminalInv, TerminalTypeOK

\* A commit runs the effect of Mint, which sweeps a form that was swiped.
LEMMA CommitEffectsStep ==
  ASSUME TerminalInv, CommitEffects
  PROVE  TerminalInv'
<1>1. form' = IF "Mint" \in effects /\ form.swipe THEN Swept ELSE form
  BY DEF CommitEffects
<1>2. form' \in Forms /\ form'.swipe = FALSE
  BY <1>1 DEF TerminalInv, TerminalTypeOK, SweepPending, Swept, Forms, Amounts
<1>3. ButtonOfSlide' /\ SweepPending' /\ CarriedOver'
  BY <1>1, <1>2 DEF TerminalInv, TerminalTypeOK, Forms, ButtonOfSlide, SweepPending, CarriedOver, Swept
<1>4. bar' \in Bars
  BY DEF CommitEffects, TerminalInv, TerminalTypeOK, BarEffect, Bars
<1>5. console' \in Consoles
  <2>1. OneMore(console.timers, MaxTimers) \in 0 .. MaxTimers
    BY OneMoreBound, TerminalAssumption DEF TerminalAssumption, TerminalInv, TerminalTypeOK, Consoles
  <2> QED  BY <2>1 DEF CommitEffects, TerminalInv, TerminalTypeOK, Consoles
<1>6. flying' \in Flights
  <2>1. OneMore(flying.prices, MaxPrices) \in 0 .. MaxPrices
    BY OneMoreBound, TerminalAssumption DEF TerminalAssumption, TerminalInv, TerminalTypeOK, Flights
  <2>2. flying \in Flights /\ flying.prices \in 0 .. MaxPrices
    BY DEF TerminalInv, TerminalTypeOK, Flights
  <2>3. PICK p \in 0 .. MaxPrices, b \in Nat :
          flying' = [flying EXCEPT !.prices = p, !.balances = b]
    <3>1. flying.balances \in Nat /\ flying.balances + 1 \in Nat
      BY <2>2 DEF Flights
    <3> QED  BY <2>1, <2>2, <3>1 DEF CommitEffects
  <2> QED  BY <2>2, <2>3 DEF Flights
<1>7. totals' \in BOOLEAN /\ effects' \subseteq Components
  BY DEF CommitEffects, Components
<1> QED  BY <1>2, <1>3, <1>4, <1>5, <1>6, <1>7 DEF CommitEffects, TerminalInv, TerminalTypeOK

\* A step that leaves the form alone and takes no effect back keeps what the
\* invariant says of the switches.
LEMMA SwitchesKept ==
  ASSUME TerminalInv, effects \subseteq effects', form' = [form EXCEPT !.amount = form'.amount]
  PROVE  ButtonOfSlide' /\ SweepPending' /\ CarriedOver'
  BY DEF TerminalInv, TerminalTypeOK, Forms, ButtonOfSlide, SweepPending, CarriedOver

\* The timers.
LEMMA TimerStep ==
  ASSUME TerminalInv, HideBar \/ ClearConsole
  PROVE  TerminalInv'
<1>1. form' = [form EXCEPT !.amount = form'.amount] /\ effects \subseteq effects'
  BY DEF HideBar, ClearConsole, TerminalInv, TerminalTypeOK, Forms
<1>2. bar' \in Bars
  BY DEF HideBar, ClearConsole, TerminalInv, TerminalTypeOK, Bars
<1>3. console' \in Consoles
  <2>1. console \in Consoles /\ MaxTimers \in Nat
    BY TerminalAssumption DEF TerminalAssumption, TerminalInv, TerminalTypeOK
  <2>2. CASE HideBar
    BY <2>1, <2>2 DEF HideBar
  <2>3. CASE ClearConsole
    <3>1. console.timers \in 0 .. MaxTimers /\ console.timers > 0
      BY <2>1, <2>3 DEF ClearConsole, Consoles
    <3>2. console.timers - 1 \in 0 .. MaxTimers
      BY <2>1, <3>1
    <3> QED  BY <2>3, <3>2 DEF ClearConsole, Consoles
  <2> QED  BY <2>2, <2>3
<1> QED
  BY <1>1, <1>2, <1>3, SwitchesKept DEF HideBar, ClearConsole, TerminalInv, TerminalTypeOK, Components

\* Typing changes the amount only.
LEMMA TypeStep ==
  ASSUME TerminalInv, NEW amount \in Amounts, Type(amount)
  PROVE  TerminalInv'
<1>1. form' \in Forms /\ form' = [form EXCEPT !.amount = form'.amount] /\ effects \subseteq effects'
  BY DEF Type, TerminalInv, TerminalTypeOK, Forms
<1> QED  BY <1>1, SwitchesKept DEF Type, Idle, TerminalInv, TerminalTypeOK

\* A ticker is switched where the last button was WITHDRAW, on its slide.
LEMMA SwitchStep ==
  ASSUME TerminalInv, SwitchTicker
  PROVE  TerminalInv'
<1>1. form' = [form EXCEPT !.ticker = ~form.ticker] /\ effects' = {"Mint"}
  BY DEF SwitchTicker
<1>2. form' \in Forms
  BY <1>1 DEF TerminalInv, TerminalTypeOK, Forms
<1>3. form.slide = "WITHDRAW"
  BY DEF SwitchTicker, TerminalInv, ButtonOfSlide
<1>4. ButtonOfSlide' /\ SweepPending' /\ CarriedOver'
  BY <1>1, <1>3 DEF TerminalInv, TerminalTypeOK, Forms, ButtonOfSlide, SweepPending, CarriedOver
<1> QED  BY <1>1, <1>2, <1>4 DEF SwitchTicker, Idle, TerminalInv, TerminalTypeOK, Components

\* A swipe finds the flag down, because nothing is to be run, and puts it up.
LEMMA SwipeStep ==
  ASSUME TerminalInv, NEW slide \in Slides, Swipe(slide)
  PROVE  TerminalInv'
<1>1. form.swipe = FALSE
  BY DEF Swipe, Idle, TerminalInv, TerminalTypeOK, Forms, SweepPending
<1>2. form' = [form EXCEPT !.slide = slide, !.button = slide, !.swipe = TRUE]
  BY <1>1 DEF Swipe, TerminalInv, TerminalTypeOK, Forms
<1>3. form' \in Forms
  BY <1>2 DEF TerminalInv, TerminalTypeOK, Forms
<1>4. effects' = {"Header", "Mint"}
  BY DEF Swipe
<1>5. ButtonOfSlide' /\ SweepPending' /\ CarriedOver'
  BY <1>2, <1>4 DEF TerminalInv, TerminalTypeOK, Forms, ButtonOfSlide, SweepPending, CarriedOver
<1> QED  BY <1>3, <1>4, <1>5 DEF Swipe, Idle, TerminalInv, TerminalTypeOK, Components

\* A button that is pressed is remembered; the flag is down.
LEMMA SubmitStep ==
  ASSUME TerminalInv, effects = {}, NEW button \in Slides, button = form.slide \/ button = "DEPOSIT",
         NEW agreed \in BOOLEAN, Submit(button, agreed)
  PROVE  TerminalInv'
<1>1. form' = [form EXCEPT !.button = button]
  BY DEF Submit
<1>2. form' \in Forms
  BY <1>1 DEF TerminalInv, TerminalTypeOK, Forms
<1>3. ButtonOfSlide' /\ SweepPending' /\ CarriedOver'
  BY <1>1 DEF TerminalInv, TerminalTypeOK, Forms, ButtonOfSlide, SweepPending, CarriedOver, Slides
<1>4. terms' \in Terms
  <2>1. terms \in Terms
    BY DEF TerminalInv, TerminalTypeOK
  <2>2. \/ terms' = [terms EXCEPT !.modal = TRUE]
        \/ terms' = [agreed |-> TRUE, modal |-> FALSE]
    BY DEF Submit
  <2>3. [terms EXCEPT !.modal = TRUE] \in Terms
    BY <2>1, Zenon DEF Terms
  <2>4. [agreed |-> TRUE, modal |-> FALSE] \in Terms
    BY DEF Terms
  <2> QED  BY <2>2, <2>3, <2>4
<1>5. console' \in Consoles
  BY DEF Submit, Notify, TerminalInv, TerminalTypeOK, Consoles
<1>6. effects' \subseteq Components
  BY DEF Submit, Notify, TerminalInv, TerminalTypeOK, Components
<1>7. flying' \in Flights
  BY DEF Submit, TerminalInv, TerminalTypeOK, Flights
<1>8. counts' \in Counts
  BY DEF Submit, TerminalInv, TerminalTypeOK, Counts
<1>9. UNCHANGED <<connected, bar, price, totals, balance>>
  BY DEF Submit
<1> QED  BY <1>2, <1>3, <1>4, <1>5, <1>6, <1>7, <1>8, <1>9 DEF TerminalInv, TerminalTypeOK

\* Clicks and the answers to the modal.
LEMMA ClickButtonStep ==
  ASSUME TerminalInv, ClickButton \/ AgreeTerms \/ CloseModal
  PROVE  TerminalInv'
<1>1. CASE ClickButton
  <2>1. form.slide \in Slides /\ terms.agreed \in BOOLEAN
    BY DEF TerminalInv, TerminalTypeOK, Forms, Terms
  <2> QED  BY <1>1, <2>1, SubmitStep DEF ClickButton
<1>2. CASE AgreeTerms
  <2>1. "DEPOSIT" \in Slides /\ TRUE \in BOOLEAN
    BY DEF Slides
  <2> QED  BY <1>2, <2>1, SubmitStep DEF AgreeTerms
<1>3. CASE CloseModal
  <2>1. terms' \in Terms
    BY <1>3 DEF CloseModal, TerminalInv, TerminalTypeOK, Terms
  <2>2. form' = [form EXCEPT !.amount = form'.amount] /\ effects \subseteq effects'
    BY <1>3 DEF CloseModal, TerminalInv, TerminalTypeOK, Forms
  <2> QED  BY <1>3, <2>1, <2>2, SwitchesKept DEF CloseModal, Idle, TerminalInv, TerminalTypeOK
<1> QED  BY <1>1, <1>2, <1>3

\* A submission that ends empties the amount.
LEMMA FinishSubmissionStep ==
  ASSUME TerminalInv, FinishSubmission
  PROVE  TerminalInv'
<1>1. form' \in Forms /\ form' = [form EXCEPT !.amount = form'.amount]
  BY DEF FinishSubmission, TerminalInv, TerminalTypeOK, Forms, Amounts
<1>2. effects \subseteq effects' /\ effects' \subseteq Components
  BY DEF FinishSubmission, Notify, TerminalInv, TerminalTypeOK, Components
<1>3. console' \in Consoles
  BY DEF FinishSubmission, Notify, TerminalInv, TerminalTypeOK, Consoles
<1>4. flying' \in Flights
  <2>1. flying \in Flights
    BY DEF TerminalInv, TerminalTypeOK
  <2>2. flying.submissions - 1 \in Nat /\ flying.balances + 1 \in Nat
    BY <2>1 DEF FinishSubmission, Flights
  <2>3. flying' = [flying EXCEPT !.submissions = flying.submissions - 1,
                                 !.balances = flying.balances + 1]
    BY DEF FinishSubmission
  <2> QED  BY <2>1, <2>2, <2>3 DEF Flights
<1> QED  BY <1>1, <1>2, <1>3, <1>4, SwitchesKept DEF FinishSubmission, TerminalInv, TerminalTypeOK

\* An answer about the price.
LEMMA PriceStep ==
  ASSUME TerminalInv, NEW next \in Prices, PriceAnswered(next), counts' \in Counts
  PROVE  TerminalInv'
<1>1. form' = [form EXCEPT !.amount = form'.amount]
  BY DEF PriceAnswered, TerminalInv, TerminalTypeOK, Forms
<1>2. effects \subseteq effects' /\ effects' \subseteq Components
  BY DEF PriceAnswered, TerminalInv, TerminalTypeOK, Components
<1>3. flying' \in Flights
  BY TerminalAssumption DEF TerminalAssumption, PriceAnswered, TerminalInv, TerminalTypeOK, Flights
<1> QED  BY <1>1, <1>2, <1>3, SwitchesKept DEF PriceAnswered, TerminalInv, TerminalTypeOK

\* ... whether there is one or not.
LEMMA PriceSteps ==
  ASSUME TerminalInv, LoadPrice \/ FailPrice
  PROVE  TerminalInv'
<1>1. CASE LoadPrice
  <2>1. [price EXCEPT !.loaded = TRUE, !.loading = FALSE] \in Prices
    BY DEF TerminalInv, TerminalTypeOK, Prices
  <2> QED  BY <1>1, <2>1, PriceStep DEF LoadPrice, TerminalInv, TerminalTypeOK
<1>2. CASE FailPrice
  <2>1. PICK failure \in {"none", "failed"} :
          /\ PriceAnswered([price EXCEPT !.error = failure, !.loading = FALSE])
          /\ counts' = [counts EXCEPT !.noPrice = @ + 1, !.repeated = @ \/ failure = price.error]
    BY <1>2 DEF FailPrice
  <2>2. [price EXCEPT !.error = failure, !.loading = FALSE] \in Prices
    BY DEF TerminalInv, TerminalTypeOK, Prices
  <2>3. counts' \in Counts
    <3>1. counts \in Counts
      BY DEF TerminalInv, TerminalTypeOK
    <3>2. counts.noPrice + 1 \in Nat
      BY <3>1 DEF Counts
    <3>3. PICK repeated \in BOOLEAN :
            counts' = [counts EXCEPT !.noPrice = counts.noPrice + 1, !.repeated = repeated]
      BY <2>1
    <3> QED  BY <3>1, <3>2, <3>3 DEF Counts
  <2> QED  BY <2>1, <2>2, <2>3, PriceStep
<1> QED  BY <1>1, <1>2

\* An answer about the balance.
LEMMA BalanceStep ==
  ASSUME TerminalInv, LoadBalance \/ FailBalance
  PROVE  TerminalInv'
<1>1. form' = [form EXCEPT !.amount = form'.amount]
  BY DEF LoadBalance, FailBalance, BalanceAnswered, TerminalInv, TerminalTypeOK, Forms
<1>2. effects \subseteq effects' /\ effects' \subseteq Components
  BY DEF LoadBalance, FailBalance, TerminalInv, TerminalTypeOK, Components
<1>3. flying' \in Flights
  BY DEF LoadBalance, FailBalance, BalanceAnswered, TerminalInv, TerminalTypeOK, Flights
<1>4. counts' \in Counts
  BY DEF LoadBalance, FailBalance, TerminalInv, TerminalTypeOK, Counts
<1>5. balance' \in BOOLEAN
  BY DEF LoadBalance, FailBalance, TerminalInv, TerminalTypeOK
<1> QED
  BY <1>1, <1>2, <1>3, <1>4, <1>5, SwitchesKept
  DEF LoadBalance, FailBalance, BalanceAnswered, TerminalInv, TerminalTypeOK

\* Every step keeps the invariant.
LEMMA NextInv == TerminalInv /\ [TerminalNext]_terminalVars => TerminalInv'
<1> SUFFICES ASSUME TerminalInv, [TerminalNext]_terminalVars PROVE TerminalInv'
  OBVIOUS
<1>1. CASE UNCHANGED terminalVars
  BY <1>1 DEF terminalVars, TerminalInv, TerminalTypeOK, ButtonOfSlide, SweepPending, CarriedOver
<1>2. CASE ConnectWallet \/ DisconnectWallet
  BY <1>2, WalletStep
<1>3. CASE CommitEffects
  BY <1>3, CommitEffectsStep
<1>4. CASE HideBar \/ ClearConsole
  BY <1>4, TimerStep
<1>5. CASE \E amount \in Amounts : Type(amount)
  BY <1>5, TypeStep
<1>6. CASE \E slide \in Slides : Swipe(slide)
  BY <1>6, SwipeStep
<1>7. CASE SwitchTicker
  BY <1>7, SwitchStep
<1>8. CASE ClickButton \/ AgreeTerms \/ CloseModal
  BY <1>8, ClickButtonStep
<1>9. CASE FinishSubmission
  BY <1>9, FinishSubmissionStep
<1>10. CASE LoadPrice \/ FailPrice
  BY <1>10, PriceSteps
<1>11. CASE LoadBalance \/ FailBalance
  BY <1>11, BalanceStep
<1> QED
  BY <1>1, <1>2, <1>3, <1>4, <1>5, <1>6, <1>7, <1>8, <1>9, <1>10, <1>11 DEF TerminalNext

\* The terminal is well typed.
THEOREM TerminalTypeCorrect == TerminalSpec => []TerminalTypeOK
<1>1. TerminalSpec => []TerminalInv
  BY InitInv, NextInv, PTL DEF TerminalSpec
<1>2. TerminalInv => TerminalTypeOK
  BY DEF TerminalInv
<1> QED  BY <1>1, <1>2, PTL

\* Once effects have run, a ticker is on the slide of the withdrawal
\* (Mint.jsx:290-295).
THEOREM TickerStaysOnItsSlide == TerminalSpec => []TickerOnItsSlide
<1>1. TerminalSpec => []TerminalInv
  BY InitInv, NextInv, PTL DEF TerminalSpec
<1>2. TerminalInv => TickerOnItsSlide
  BY DEF TerminalInv, SweepPending, CarriedOver, TickerOnItsSlide
<1> QED  BY <1>1, <1>2, PTL
=============================================================================
