---------------------------- MODULE WebTerminal ----------------------------
(***************************************************************************)
(* The terminal of the web page (Mint, Buttons, Modal), and what AppContext,*)
(* PythPriceProvider, Header and App keep for it: the console, the form,   *)
(* the price, the visitor's balance and the bar of totals, which effects,  *)
(* timers and answers change in turns.                                     *)
(*                                                                         *)
(* A step is one event, or the effects of what React has committed.  The   *)
(* visitor acts on a page whose effects have run; timers, answers and the  *)
(* wallet may come before that.  What is typed, sent and shown is left     *)
(* out; the wallet, the chain and the price service are outside.           *)
(***************************************************************************)
EXTENDS Integers

CONSTANTS
  MaxConnections,  \* bound on connections of a wallet
  MaxSubmissions,  \* bound on submissions
  MaxFailures,     \* bound on requests that fail
  MaxPrices,       \* bounds on requests for the price, and on timers, at a
  MaxTimers        \* time; the page starts more of them, all alike

ASSUME TerminalAssumption ==
  /\ {MaxConnections, MaxSubmissions, MaxFailures} \subseteq Nat
  /\ {MaxPrices, MaxTimers} \subseteq Nat \ {0}

VARIABLES
  connected,
  effects,  \* the components whose effects are to be run
  bar,      \* App: whether the bar is shown, rendered first, to be hidden
  form,     \* Mint: amount, ticker, swipeStatus; the slide; chooseButton
  terms,    \* hasAgreedToTerms, isModalOpen
  console,  \* whether it has notifications, and how many timers clear it
  price,    \* PythPriceProvider: loaded, isLoading, error
  totals,   \* whether AppContext has totals
  balance,  \* whether it has balanceUSD
  flying,   \* requests for the price and the balance, open submissions
  counts    \* connections, submissions, faults; whether an error was repeated

terminalVars ==
  <<connected, effects, bar, form, terms, console, price, totals, balance, flying, counts>>

Lesser(x, y) == IF x < y THEN x ELSE y
OneMore(n, bound) == Lesser(n + 1, bound)
Components == {"Header", "Mint", "App"}
Slides == {"WITHDRAW", "DEPOSIT"}
Amounts == {"empty", "amount", "undefined"}

Bars == [shown : BOOLEAN, first : BOOLEAN, hiding : BOOLEAN]
Forms == [amount : Amounts, ticker : BOOLEAN, swipe : BOOLEAN,
          slide : Slides, button : Slides \cup {"null"}]
Terms == [agreed : BOOLEAN, modal : BOOLEAN]
Consoles == [lines : BOOLEAN, timers : 0 .. MaxTimers]
Prices == [loaded : BOOLEAN, loading : BOOLEAN, error : {"null", "none", "failed"}]
Flights == [prices : 0 .. MaxPrices, balances : Nat, submissions : Nat]
Counts == [connects : Nat, clicks : Nat, noPrice : Nat, noBalance : Nat, repeated : BOOLEAN]
-----------------------------------------------------------------------------
TerminalInit ==
  /\ connected = FALSE
  /\ effects = Components
  /\ bar = [shown |-> FALSE, first |-> TRUE, hiding |-> FALSE]
  /\ form = [amount |-> "empty", ticker |-> FALSE, swipe |-> FALSE,
             slide |-> "DEPOSIT", button |-> "null"]
  /\ terms \in [agreed : BOOLEAN, modal : {FALSE}]
  /\ console = [lines |-> FALSE, timers |-> 0]
  /\ price = [loaded |-> FALSE, loading |-> TRUE, error |-> "null"]
  /\ totals = FALSE
  /\ balance = FALSE
  /\ flying = [prices |-> 0, balances |-> 0, submissions |-> 0]
  /\ counts = [connects |-> 0, clicks |-> 0, noPrice |-> 0, noBalance |-> 0,
              repeated |-> FALSE]

\* useWallet.  AppContext renders, and with it what uses it.
SetConnected(now) ==
  /\ connected' = now
  /\ effects' = Components
  /\ UNCHANGED <<bar, form, terms, console, price, totals, balance, flying>>

ConnectWallet ==
  /\ ~connected
  /\ counts.connects < MaxConnections
  /\ counts' = [counts EXCEPT !.connects = @ + 1]
  /\ SetConnected(TRUE)

DisconnectWallet == connected /\ SetConnected(FALSE) /\ UNCHANGED counts

\* The effect of Header asks for what is missing, and for the balance when it
\* had none of the totals.
WantsTotalsByBalance == connected /\ balance                      \* a mistake
WantsTotals == connected /\ ~totals
AsksBalance == "Header" \in effects /\ WantsTotals

\* The effect of Mint starts with a form that has been swiped.  Connected, it
\* asks for the price it has not; disconnected, it clears the console later.
SweptAmountOnly == [form EXCEPT !.amount = "empty", !.swipe = FALSE]  \* a mistake
Swept == [form EXCEPT !.amount = "empty", !.ticker = FALSE, !.swipe = FALSE]
AsksPrice == "Mint" \in effects /\ connected /\ ~price.loaded
ClearsConsole == "Mint" \in effects /\ ~connected /\ console.lines

\* The effect of App.  Another timer is cancelled before it runs.
BarNotCancelled ==                                               \* a mistake
  IF bar.first THEN [bar EXCEPT !.first = FALSE]
  ELSE IF connected THEN [bar EXCEPT !.shown = TRUE]
  ELSE [bar EXCEPT !.hiding = TRUE]
BarEffect ==
  IF bar.first THEN [bar EXCEPT !.first = FALSE]
  ELSE IF connected THEN [bar EXCEPT !.shown = TRUE, !.hiding = FALSE]
  ELSE [bar EXCEPT !.hiding = TRUE]

\* The effects of a commit.  The first totals are those of no account yet.
CommitEffects ==
  LET swept   == "Mint" \in effects /\ form.swipe
      started == "App" \in effects /\ bar.first IN
  /\ effects # {}
  /\ form' = IF swept THEN Swept ELSE form
  /\ bar' = IF "App" \in effects THEN BarEffect ELSE bar
  /\ totals' = (totals \/ AsksBalance \/ AsksPrice)
  /\ flying' = [flying EXCEPT !.prices = IF AsksPrice THEN OneMore(@, MaxPrices) ELSE @,
                              !.balances = IF AsksBalance /\ ~balance THEN @ + 1 ELSE @]
  /\ console' = [console EXCEPT !.timers = IF ClearsConsole THEN OneMore(@, MaxTimers) ELSE @]
  /\ effects' = (IF swept THEN {"Header", "Mint"} ELSE {})
              \cup (IF totals' # totals THEN {"Header"} ELSE {})
              \cup (IF started THEN {"App"} ELSE {})
  /\ UNCHANGED <<connected, terms, price, balance, counts>>

\* The timers.
HideBar ==
  /\ bar.hiding
  /\ bar' = [bar EXCEPT !.shown = FALSE, !.hiding = FALSE]
  /\ UNCHANGED <<connected, effects, form, terms, console, price, totals, balance, flying, counts>>

ClearConsole ==
  /\ console.timers > 0
  /\ console' = [lines |-> FALSE, timers |-> console.timers - 1]
  /\ effects' = effects \cup {"Header", "Mint"}
  /\ UNCHANGED <<connected, bar, form, terms, price, totals, balance, flying, counts>>
-----------------------------------------------------------------------------
\* The visitor.
Idle == effects = {} /\ UNCHANGED <<connected, bar, console, price, totals, balance>>

\* Max leaves the amount undefined.
Type(amount) ==
  /\ Idle /\ amount # form.amount
  /\ form' = [form EXCEPT !.amount = amount]
  /\ UNCHANGED <<effects, terms, flying, counts>>

\* The switch of the ticker is shown when the last button was WITHDRAW.
SwitchTicker ==
  /\ Idle /\ form.button = "WITHDRAW"
  /\ form' = [form EXCEPT !.ticker = ~@]
  /\ effects' = {"Mint"}
  /\ UNCHANGED <<terms, flying, counts>>

\* Buttons: handleSlideChange
Swipe(slide) ==
  /\ Idle /\ slide # form.slide
  /\ form' = [form EXCEPT !.slide = slide, !.button = slide, !.swipe = ~@]
  /\ effects' = {"Header", "Mint"}
  /\ UNCHANGED <<terms, flying, counts>>

\* terminalStarting, up to the submission.  An undefined amount ends it there.
NotifyHeader ==                                                  \* a mistake
  console' = [console EXCEPT !.lines = TRUE] /\ effects' = effects \cup {"Header"}
Notify == console' = [console EXCEPT !.lines = TRUE] /\ effects' = effects \cup {"Header", "Mint"}
Submit(button, agreed) ==
  /\ form' = [form EXCEPT !.button = button]
  /\ IF ~agreed
     THEN terms' = [terms EXCEPT !.modal = TRUE] /\ UNCHANGED <<console, effects, flying, counts>>
     ELSE /\ terms' = [agreed |-> TRUE, modal |-> FALSE]
          /\ IF ~connected \/ form.amount = "empty"
             THEN Notify /\ UNCHANGED <<flying, counts>>
             ELSE IF form.amount = "undefined" THEN UNCHANGED <<console, effects, flying, counts>>
             ELSE /\ counts.clicks < MaxSubmissions
                  /\ counts' = [counts EXCEPT !.clicks = @ + 1]
                  /\ flying' = [flying EXCEPT !.submissions = @ + 1]
                  /\ UNCHANGED <<console, effects>>
  /\ UNCHANGED <<connected, bar, price, totals, balance>>

\* A click on the button of the slide, and the two answers to the modal.  Both
\* slides share one ref, which is that of the last button.
ClickButton == effects = {} /\ ~terms.modal /\ Submit(form.slide, terms.agreed)
AgreeTerms == effects = {} /\ terms.modal /\ Submit("DEPOSIT", TRUE)
CloseModal ==
  /\ Idle /\ terms.modal
  /\ terms' = [terms EXCEPT !.modal = FALSE]
  /\ UNCHANGED <<effects, form, flying, counts>>

\* A submission ends, sent or not, with notifications of both.
FinishSubmission ==
  /\ flying.submissions > 0
  /\ flying' = [flying EXCEPT !.submissions = @ - 1, !.balances = @ + 1]
  /\ form' = [form EXCEPT !.amount = "empty"]
  /\ Notify
  /\ UNCHANGED <<connected, bar, terms, price, totals, balance, counts>>
-----------------------------------------------------------------------------
\* An answer about the price renders its provider when that changes anything,
\* which makes another fetchInitialPrice and with it another effect of Mint.
SamePriceOnly(next) == next.loaded # price.loaded                 \* a mistake
Renders(next) == next # price
PriceAnswered(next) ==
  /\ flying.prices > 0
  /\ flying' = [flying EXCEPT !.prices = @ - 1]
  /\ price' = next
  /\ effects' = IF Renders(next) THEN effects \cup {"Header", "Mint"} ELSE effects
  /\ UNCHANGED <<connected, bar, form, terms, console, totals, balance>>

LoadPrice ==
  /\ PriceAnswered([price EXCEPT !.loaded = TRUE, !.loading = FALSE])
  /\ UNCHANGED counts

MayFail == counts.noPrice + counts.noBalance < MaxFailures
FailPrice ==
  /\ MayFail
  /\ \E error \in {"none", "failed"} :
       /\ PriceAnswered([price EXCEPT !.error = error, !.loading = FALSE])
       /\ counts' = [counts EXCEPT !.noPrice = @ + 1, !.repeated = @ \/ error = price.error]

\* getWalletBalance: no account of the token leaves it as it is, like an error.
BalanceAnswered ==
  /\ flying.balances > 0
  /\ flying' = [flying EXCEPT !.balances = @ - 1]
  /\ UNCHANGED <<connected, bar, form, terms, console, price, totals>>

LoadBalance ==
  /\ BalanceAnswered
  /\ balance' = TRUE
  /\ effects' = effects \cup {"Header"}
  /\ UNCHANGED counts

FailBalance ==
  /\ BalanceAnswered
  /\ MayFail
  /\ counts' = [counts EXCEPT !.noBalance = @ + 1]
  /\ UNCHANGED <<balance, effects>>

TerminalNext ==
  \/ ConnectWallet \/ DisconnectWallet \/ CommitEffects \/ HideBar \/ ClearConsole
  \/ \E amount \in Amounts : Type(amount)
  \/ \E slide \in Slides : Swipe(slide)
  \/ SwitchTicker \/ ClickButton \/ AgreeTerms \/ CloseModal \/ FinishSubmission
  \/ LoadPrice \/ FailPrice \/ LoadBalance \/ FailBalance

\* React runs the effects of what it commits, a timer runs out, and a request
\* that does not fail is answered.  A wallet need not answer.
TerminalSpec ==
  /\ TerminalInit /\ [][TerminalNext]_terminalVars
  /\ WF_terminalVars(CommitEffects) /\ WF_terminalVars(HideBar) /\ WF_terminalVars(ClearConsole)
  /\ WF_terminalVars(LoadPrice) /\ WF_terminalVars(LoadBalance)
-----------------------------------------------------------------------------
TerminalTypeOK ==
  /\ connected \in BOOLEAN /\ totals \in BOOLEAN /\ balance \in BOOLEAN
  /\ effects \subseteq Components
  /\ bar \in Bars /\ form \in Forms /\ terms \in Terms /\ console \in Consoles
  /\ price \in Prices /\ flying \in Flights /\ counts \in Counts

\* The ticker of a withdrawal does not outlive its slide, though two components
\* toggle the flag that clears it, and one of them does so in an effect.
TickerOnItsSlide == effects = {} /\ form.ticker => form.slide = "WITHDRAW"

\* What the console says to a visitor is gone after the disconnection, also
\* what a submission says that ends only then.
ConsoleClears == ~connected /\ console.lines ~> connected \/ ~console.lines

\* The bar of totals follows the wallet, also when a timer to hide it is
\* running while the visitor connects again (App.js:31).
BarFollows ==
  /\ connected /\ ~bar.shown ~> ~connected \/ bar.shown
  /\ ~connected /\ bar.shown ~> connected \/ ~bar.shown

\* The price is loaded once anybody is connected, whatever requests for it
\* fail, unless one fails as the one before it did: nothing but the render of
\* another error asks again.
PriceLoads == connected ~> price.loaded \/ ~connected \/ counts.repeated

\* The balance is loaded when the visitor connects, though the totals, by
\* whose absence it is asked for, are computed at the same time.
BalanceLoads == connected ~> balance \/ ~connected \/ counts.noBalance > 0
=============================================================================
