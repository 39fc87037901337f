------------------------------- MODULE Purchase -------------------------------
(***************************************************************************)
(* One purchase from the tap on "buy" to the news about it: the bot's      *)
(* startOrder and pollOrder (src/bot/src/bot.js), OrderService.CreateOrder *)
(* behind POST /bot/orders, and the gateway, which is Midtrans or          *)
(* TemanQRIS.                                                              *)
(*                                                                         *)
(* Every call between two of these may fail, or do its work and then fail. *)
(* Either process may die.  What the rest of the store does to the order   *)
(* is in Store; here its status just moves on.                             *)
(***************************************************************************)
EXTENDS MidtransClient, Qris

CONSTANTS
  Payloads,  \* QRIS_STATIC_PAYLOAD, as a sequence of tags; see Static
  Amounts,   \* prices
  PollMax    \* POLL_MAX_ATTEMPTS

ASSUME PollMaxAssumption == PollMax \in Nat

VARIABLES
  provider,  \* PAYMENT_PROVIDER
  payload,   \* QRIS_STATIC_PAYLOAD
  ordAmount, \* orders.amount
  status,    \* orders.status
  row,       \* the order's payment was stored
  qr,        \* payments.qr_string
  image,     \* payments.qr_image_url is not empty
  req,       \* where the POST /bot/orders of the order is
  bot,       \* the next step of startOrder
  shown,     \* the customer sees a code
  poll,      \* where pollOrder is
  polls,     \* attempts
  seen,      \* the status that the last poll read
  notices,   \* messages about the order's status that the customer got
  unsure,    \* how many of them Telegram has not acknowledged
  refused    \* a message about the order's status was not sent

deployment == <<provider, payload>>
order      == <<ordAmount, status, row, qr, image>>
chat       == <<bot, shown>>
polling    == <<poll, polls, seen, notices, unsure, refused>>
vars       == <<clientVars, deployment, order, req, chat, polling>>

\* The bot tells PENDING from every other status.
Status == {"PENDING", "OTHER"}

TypeOK ==
  /\ ClientTypeOK
  /\ provider \in {"midtrans", "temanqris"}
  /\ payload  \in Payloads
  /\ ordAmount \in [Orders -> Amounts]
  /\ status   \in [Orders -> Status \cup {"NONE"}]
  /\ row      \in [Orders -> BOOLEAN]
  /\ image    \in [Orders -> BOOLEAN]
  /\ req      \in [Orders -> {"none", "sent", "charge", "persist", "rollback",
                              "created", "failed"}]
  /\ bot      \in [Orders -> {"idle", "asking", "ack", "photo", "url", "text",
                              "over"}]
  /\ shown    \in [Orders -> BOOLEAN]
  /\ poll     \in [Orders -> {"none", "wait", "asking", "telling", "stopped",
                              "lost"}]
  /\ polls    \in [Orders -> 0 .. PollMax + 1]
  /\ seen     \in [Orders -> Status]
  /\ notices  \in [Orders -> 0 .. PollMax]
  /\ unsure   \in [Orders -> 0 .. PollMax]
  /\ refused  \in [Orders -> BOOLEAN]

\* A Midtrans deployment has no static code, and what the gateway makes of an
\* amount is its own affair.
Unset == [tags |-> <<>>, sealed |-> FALSE, blanks |-> FALSE]

Init ==
  /\ ClientInit
  /\ provider \in {"midtrans", "temanqris"}
  /\ payload  \in IF provider = "midtrans" THEN {Unset} ELSE Payloads
  /\ ordAmount \in [Orders -> IF provider = "midtrans"
                              THEN {CHOOSE n \in Amounts : TRUE} ELSE Amounts]
  /\ status   = [o \in Orders |-> "NONE"]
  /\ row      = [o \in Orders |-> FALSE]
  /\ qr       = [o \in Orders |-> ""]
  /\ image    = [o \in Orders |-> FALSE]
  /\ req      = [o \in Orders |-> "none"]
  /\ bot      = [o \in Orders |-> "idle"]
  /\ shown    = [o \in Orders |-> FALSE]
  /\ poll     = [o \in Orders |-> "none"]
  /\ polls    = [o \in Orders |-> 0]
  /\ seen     = [o \in Orders |-> "PENDING"]
  /\ notices  = [o \in Orders |-> 0]
  /\ unsure   = [o \in Orders |-> 0]
  /\ refused  = [o \in Orders |-> FALSE]

-----------------------------------------------------------------------------
(* The request *)

Tap(o) ==
  /\ bot[o] = "idle"
  /\ bot' = [bot EXCEPT ![o] = "asking"]
  /\ req' = [req EXCEPT ![o] = "sent"]
  /\ UNCHANGED <<clientVars, deployment, order, shown, polling>>

\* The reservation transaction commits, and the charge begins ...
CreateOrder(o) ==
  /\ req[o] = "sent"
  /\ status' = [status EXCEPT ![o] = "PENDING"]
  /\ req'    = [req EXCEPT ![o] = "charge"]
  /\ IF provider = "midtrans" THEN ClientStarts(o) ELSE UNCHANGED clientVars
  /\ UNCHANGED <<deployment, ordAmount, row, qr, image, chat, polling>>

\* ... or there is no stock, or the request never arrives.
NoOrderCreated(o) ==
  /\ req[o] = "sent"
  /\ req' = [req EXCEPT ![o] = "failed"]
  /\ UNCHANGED <<clientVars, deployment, order, chat, polling>>

\* What the conversion makes of each static code and price.
Converted ==
  [p \in Payloads, n \in Amounts |-> StaticToDynamicQRIS(Static(p), n)]

\* TemanQRIS.CreateCharge.  There is no transaction at any gateway: from here
\* on the code can be paid, and that is what txn stands for.
Convert(o) ==
  /\ req[o] = "charge" /\ provider = "temanqris" /\ call[o] = "idle"
  /\ LET code == Converted[payload, ordAmount[o]]
     IN  IF code = NoQR
         THEN /\ call' = [call EXCEPT ![o] = "failed"]
              /\ UNCHANGED <<txn, qr>>
         ELSE /\ call' = [call EXCEPT ![o] = "charged"]
              /\ Open(o)
              /\ qr' = [qr EXCEPT ![o] = code]
  /\ UNCHANGED <<attempt, late, deployment, ordAmount, status, row, image, req,
                 chat, polling>>

GatewayQR == "gateway"

\* A charge by Midtrans carries a string, the URL of an image, both, or neither.
Charged(o) ==
  /\ req[o] = "charge" /\ call[o] = "charged"
  /\ IF provider = "midtrans"
     THEN \E text \in {GatewayQR, ""}, url \in BOOLEAN :
            /\ qr'    = [qr EXCEPT ![o] = text]
            /\ image' = [image EXCEPT ![o] = url]
     ELSE UNCHANGED <<qr, image>>
  /\ req' = [req EXCEPT ![o] = "persist"]
  /\ UNCHANGED <<clientVars, deployment, ordAmount, status, row, chat, polling>>

ChargeFails(o) ==
  /\ req[o] = "charge" /\ call[o] = "failed"
  /\ req' = [req EXCEPT ![o] = "rollback"]
  /\ UNCHANGED <<clientVars, deployment, order, chat, polling>>

PersistPayment(o) ==
  /\ req[o] = "persist"
  /\ row' = [row EXCEPT ![o] = TRUE]
  /\ req' = [req EXCEPT ![o] = "created"]
  /\ UNCHANGED <<clientVars, deployment, ordAmount, status, qr, image, chat, polling>>

\* Mutant: the error is logged, and the code is answered all the same.
PersistFailsQuietly(o) ==
  /\ req[o] = "persist"
  /\ row' \in {row, [row EXCEPT ![o] = TRUE]}
  /\ req' = [req EXCEPT ![o] = "created"]
  /\ UNCHANGED <<clientVars, deployment, ordAmount, status, qr, image, chat, polling>>

PersistPaymentFails(o) ==
  /\ req[o] = "persist"
  /\ row' \in {row, [row EXCEPT ![o] = TRUE]}
  /\ req' = [req EXCEPT ![o] = "rollback"]
  /\ UNCHANGED <<clientVars, deployment, ordAmount, status, qr, image, chat, polling>>

CancelAndRelease(o) ==
  /\ req[o] = "rollback"
  /\ status' \in {status, [status EXCEPT ![o] = "OTHER"]}
  /\ req' = [req EXCEPT ![o] = "failed"]
  /\ UNCHANGED <<clientVars, deployment, ordAmount, row, qr, image, chat, polling>>

\* The API process dies.
ServerCrashes(o) ==
  /\ req[o] \in {"charge", "persist", "rollback"}
  /\ req'  = [req EXCEPT ![o] = "failed"]
  /\ late' = IF call[o] = "out" THEN late \cup {o} ELSE late
  /\ call' = [call EXCEPT ![o] = IF @ = "charged" THEN @ ELSE "failed"]
  /\ UNCHANGED <<txn, attempt, deployment, order, chat, polling>>

\* What confirmations, notifications and jobs do to the order.
StoreMovesOn(o) ==
  /\ status[o] = "PENDING"
  /\ status' = [status EXCEPT ![o] = "OTHER"]
  /\ UNCHANGED <<clientVars, deployment, ordAmount, row, qr, image, req, chat,
                 polling>>

CustomerPays(o) ==
  /\ shown[o] /\ txn[o] = "pending"
  /\ txn' = [txn EXCEPT ![o] = "settled"]
  /\ UNCHANGED <<call, attempt, late, deployment, order, req, chat, polling>>

CallNext(o) ==
  /\ \/ req[o] = "charge" /\ provider = "midtrans"
          /\ (ClientSteps(o) \/ GatewayAnswers(o))
     \/ GatewayHandlesLate(o)
     \/ provider = "midtrans" /\ GatewayCloses(o)
  /\ UNCHANGED <<deployment, order, req, chat, polling>>

-----------------------------------------------------------------------------
(* startOrder *)

\* The promise of createOrder is rejected: the API says so, or its answer is
\* lost, maybe while it still works on the request.
OrderRejected(o) ==
  /\ bot[o] = "asking" /\ req[o] # "none"
  /\ bot' = [bot EXCEPT ![o] = "over"]
  /\ UNCHANGED <<clientVars, deployment, order, req, shown, polling>>

OrderArrives(o) ==
  /\ bot[o] = "asking" /\ req[o] = "created"
  /\ bot' = [bot EXCEPT ![o] = "ack"]
  /\ UNCHANGED <<clientVars, deployment, order, req, shown, polling>>

\* Without a string there is no photo to render, and without a URL only text.
FirstTry(o) == IF qr[o] # "" THEN "photo" ELSE IF image[o] THEN "url" ELSE "text"

NextTry(o) == IF bot[o] = "photo" /\ image[o] THEN "url" ELSE "text"

\* answerCbQuery; Telegram refuses it when the tap is too old.
Acknowledge(o) ==
  /\ bot[o] = "ack"
  /\ \E next \in {FirstTry(o), "over"} : bot' = [bot EXCEPT ![o] = next]
  /\ UNCHANGED <<clientVars, deployment, order, req, shown, polling>>

CarriesCode(o) == bot[o] \in {"photo", "url"} \/ qr[o] # ""

\* The code is shown, and polling begins.
Show(o) ==
  /\ bot[o] \in {"photo", "url", "text"}
  /\ shown' = [shown EXCEPT ![o] = @ \/ CarriesCode(o)]
  /\ bot'   = [bot EXCEPT ![o] = "over"]
  /\ poll'  = [poll EXCEPT ![o] = "wait"]
  /\ UNCHANGED <<clientVars, deployment, order, req, polls, seen, notices,
                 unsure, refused>>

\* The message is refused, or sent and its answer lost: the next form is tried.
\* An error of the last one ends startOrder, and nothing polls the order.
ShowFails(o) ==
  /\ bot[o] \in {"photo", "url", "text"}
  /\ shown' \in {shown, [shown EXCEPT ![o] = @ \/ CarriesCode(o)]}
  /\ bot' = [bot EXCEPT ![o] = IF @ = "text" THEN "over" ELSE NextTry(o)]
  /\ UNCHANGED <<clientVars, deployment, order, req, polling>>

-----------------------------------------------------------------------------
(* pollOrder *)

Tick(o) ==
  /\ poll[o] = "wait"
  /\ polls' = [polls EXCEPT ![o] = @ + 1]
  /\ poll'  = [poll EXCEPT ![o] = IF polls[o] + 1 > PollMax THEN "stopped"
                                  ELSE "asking"]
  /\ UNCHANGED <<clientVars, deployment, order, req, chat, seen, notices, unsure,
                 refused>>

ReadStatus(o) ==
  /\ poll[o] = "asking"
  /\ seen' = [seen EXCEPT ![o] = status[o]]
  /\ poll' = [poll EXCEPT ![o] = IF status[o] = "PENDING" THEN "wait"
                                 ELSE "telling"]
  /\ UNCHANGED <<clientVars, deployment, order, req, chat, polls, notices, unsure,
                 refused>>

\* Mutant: an error does not use up an attempt.
PollFailsFree(o) ==
  /\ poll[o] = "asking"
  /\ poll'  = [poll EXCEPT ![o] = "wait"]
  /\ polls' = [polls EXCEPT ![o] = @ - 1]
  /\ UNCHANGED <<clientVars, deployment, order, req, chat, seen, notices, unsure,
                 refused>>

PollFails(o) ==
  /\ poll[o] = "asking"
  /\ poll' = [poll EXCEPT ![o] = "wait"]
  /\ UNCHANGED <<clientVars, deployment, order, req, chat, polls, seen, notices,
                 unsure, refused>>

\* Mutant: the poll goes on after the message.
NotifyAndGoOn(o) ==
  /\ poll[o] = "telling"
  /\ notices' = [notices EXCEPT ![o] = @ + 1]
  /\ poll'    = [poll EXCEPT ![o] = "wait"]
  /\ UNCHANGED <<clientVars, deployment, order, req, chat, polls, seen, unsure,
                 refused>>

Notify(o) ==
  /\ poll[o] = "telling"
  /\ notices' = [notices EXCEPT ![o] = @ + 1]
  /\ poll'    = [poll EXCEPT ![o] = "stopped"]
  /\ UNCHANGED <<clientVars, deployment, order, req, chat, polls, seen, unsure,
                 refused>>

\* Mutant: the order was taken off the set of polled ones, so it is not polled.
NotifyFailsForGood(o) ==
  /\ poll[o] = "telling"
  /\ poll'    = [poll EXCEPT ![o] = "stopped"]
  /\ refused' = [refused EXCEPT ![o] = TRUE]
  /\ UNCHANGED <<clientVars, deployment, order, req, chat, polls, seen, notices,
                 unsure>>

\* "transient; keep polling"; the customer may have got the message.
NotifyFails(o) ==
  /\ poll[o] = "telling"
  /\ poll' = [poll EXCEPT ![o] = "wait"]
  /\ \/ /\ notices' = [notices EXCEPT ![o] = @ + 1]
        /\ unsure'  = [unsure EXCEPT ![o] = @ + 1]
        /\ UNCHANGED refused
     \/ /\ refused' = [refused EXCEPT ![o] = TRUE]
        /\ UNCHANGED <<notices, unsure>>
  /\ UNCHANGED <<clientVars, deployment, order, req, chat, polls, seen>>

\* The bot's process dies; nothing that it was doing is taken up again.
BotCrashes ==
  /\ bot'  = [o \in Orders |-> IF bot[o] = "idle" THEN "idle" ELSE "over"]
  /\ poll' = [o \in Orders |-> IF poll[o] \in {"wait", "asking", "telling"}
                               THEN "lost" ELSE poll[o]]
  /\ <<bot, poll>>' # <<bot, poll>>
  /\ UNCHANGED <<clientVars, deployment, order, req, shown, polls, seen, notices,
                 unsure, refused>>

-----------------------------------------------------------------------------
RequestNext(o) ==
  \/ CreateOrder(o) \/ NoOrderCreated(o) \/ Convert(o) \/ Charged(o)
  \/ ChargeFails(o) \/ PersistPayment(o) \/ PersistPaymentFails(o)
  \/ CancelAndRelease(o)

ChatNext(o) ==
  OrderRejected(o) \/ OrderArrives(o) \/ Acknowledge(o) \/ Show(o) \/ ShowFails(o)

PollNext(o) == Tick(o) \/ ReadStatus(o) \/ PollFails(o) \/ Notify(o) \/ NotifyFails(o)

Next ==
  \/ \E o \in Orders :
       \/ Tap(o) \/ RequestNext(o) \/ CallNext(o) \/ ServerCrashes(o)
       \/ ChatNext(o) \/ PollNext(o) \/ StoreMovesOn(o) \/ CustomerPays(o)
  \/ BotCrashes

\* A goroutine and a callback that can go on do so.  The gateway answers or the
\* client's fifteen seconds pass; nothing else outside is fair.
Spec ==
  /\ Init /\ [][Next]_vars
  /\ \A o \in Orders :
       /\ WF_vars(RequestNext(o))
       /\ WF_vars(CallNext(o))
       /\ WF_vars(ChatNext(o))
       /\ WF_vars(PollNext(o))

-----------------------------------------------------------------------------
(* What a purchase promises. *)

\* Whichever the gateway, however often a charge is posted and whatever
\* becomes of the answers: CreateCharge reports no charge made that is not
\* there, and no customer pays one that was not reported made.
Promise ==
  INSTANCE GatewayPromise WITH
    txn     <- txn,
    outcome <- [o \in Orders |->
                 IF call[o] \in {"charged", "failed"} THEN call[o] ELSE "none"]

KeepsPromise == Promise!Spec

\* qris.go, "the standard QRIS dinamis transformation": a TemanQRIS code has
\* the merchant's tags, the order's amount and a CRC that is right.  The one
\* exception is a merchant whose own code has the CRC 6304: that is taken for
\* the tag, and the tag is left behind.
Unlucky(p)  == p.sealed /\ Check(Encode[p.tags] \o "6304") = "6304"
RightCodes  == [p \in Payloads, n \in Amounts |-> Dynamic(p, n)]
Convertible == {p \in Payloads : ~Unlucky(p)}

QrIsPayable ==
  \A o \in Orders :
    provider = "temanqris" /\ payload \in Convertible /\ qr[o] # ""
      => qr[o] = RightCodes[payload, ordAmount[o]]

\* order.go, "so no customer is charged for unfulfillable stock": a code that
\* a customer sees is of a transaction that exists, of an order whose payment
\* is stored, and of a request that was not rolled back.
ShownIsPayable ==
  \A o \in Orders :
    shown[o] => txn[o] # "none" /\ row[o] /\ req[o] = "created"

\* bot.js, "so the user is notified only once": a second message about an
\* order's status comes only after one that Telegram did not acknowledge.
OncePerOrder == \A o \in Orders : notices[o] <= unsure[o] + 1

\* The bot stops asking without having told the customer anything only when
\* its attempts are used up and either the order still was PENDING when it
\* last asked, or Telegram refused the message.
ToldUnlessExhausted ==
  \A o \in Orders :
    poll[o] = "stopped" /\ notices[o] = 0
      => polls[o] > PollMax /\ (seen[o] = "PENDING" \/ refused[o])

\* However the API and Telegram behave, no order is polled for ever.
PollEnds ==
  \A o \in Orders : poll[o] = "wait" ~> poll[o] \in {"stopped", "lost"}

\* A request that reserved an account does not hang on the gateway: the charge
\* is made or given up after three attempts, and the request concluded.
RequestConcludes ==
  \A o \in Orders : req[o] = "charge" ~> req[o] \in {"created", "failed"}
=============================================================================
