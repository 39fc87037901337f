---------------------------- MODULE BotMenusProofs ----------------------------
(* Theorems about BotMenus, for any menus, responses, commands, titles and *)
(* chats.                                                                  *)
EXTENDS BotMenus, TLAPS

-----------------------------------------------------------------------------
(* The inductive invariant.  It says nothing of the command of a row that is *)
(* not there, so that there may be no commands at all.                       *)

RowTypes ==
  /\ row     \in [Rows -> {"NONE", "ON", "OFF"}]
  /\ command \in [Rows -> Stored \cup {Blank}]
  /\ \A id \in Rows : Live(id) => command[id] \in Stored

\* A command, as it is stored, is in a table once.
Unique ==
  \A id \in Rows : \A other \in Table(id) \ {id} :
    Live(id) /\ Live(other) => command[id] # command[other]

ContentInv == RowTypes /\ Unique

LEMMA InitContentInv == Init => ContentInv
<1> SUFFICES ASSUME Init
             PROVE  ContentInv
  OBVIOUS
<1>1. row = [id \in Rows |-> "NONE"] /\ command = [id \in Rows |-> Blank]
  BY DEF Init, ContentInit
<1>2. \A id \in Rows : ~Live(id)
  BY <1>1 DEF Live
<1>3. RowTypes
  BY <1>1, <1>2 DEF RowTypes
<1> QED BY <1>2, <1>3 DEF ContentInv, Unique

\* Both tables are among the rows, and a row is in one of them.
LEMMA TableRows ==
  ASSUME NEW id \in Rows
  PROVE  /\ Table(id) \subseteq Rows
         /\ \A other \in Table(id) : Table(other) = Table(id)
BY ContentTables DEF Table, Rows

\* A statement that leaves a command alone, or writes a free one.
LEMMA StatementKeepsInv ==
  ASSUME ContentInv, NEW id \in Rows, NEW c \in Stored \cup {Blank},
         NEW state \in {"NONE", "ON", "OFF"},
         row' = [row EXCEPT ![id] = state], command' = [command EXCEPT ![id] = c],
         state # "NONE" => \/ c \in Stored /\ ~Taken(id, c)
                           \/ Live(id) /\ c = command[id]
  PROVE  ContentInv'
<1> USE DEF ContentInv, RowTypes
<1>1. \A other \in Rows \ {id} : Live(other)' = Live(other) /\ command'[other] = command[other]
  BY DEF Live
<1>2. RowTypes'
  BY <1>1 DEF Live
<1>3. Live(id)' => \A other \in Table(id) \ {id} : Live(other) => c # command[other]
  BY TableRows DEF Live, Taken, Unique
<1>4. command'[id] = c
  OBVIOUS
<1> HIDE DEF RowTypes
<1>5. Unique'
  <2> SUFFICES ASSUME NEW p \in Rows, NEW q \in Table(p) \ {p}, Live(p)', Live(q)'
               PROVE  command'[p] # command'[q]
    BY DEF Unique, Table
  <2>1. q \in Rows /\ p \in Table(q) \ {q} /\ Table(p) = Table(q)
    BY TableRows DEF Table, Rows
  <2>2. CASE p = id
    BY <1>1, <1>3, <1>4, <2>1, <2>2
  <2>3. CASE q = id
    BY <1>1, <1>3, <1>4, <2>1, <2>3
  <2>4. CASE p # id /\ q # id
    BY <1>1, <2>1, <2>4 DEF Unique
  <2> QED BY <2>2, <2>3, <2>4
<1> QED BY <1>2, <1>5

LEMMA Normalized ==
  ASSUME NEW raw \in Typed
  PROVE  normalizeCommand(raw) \in Stored
BY DEF Typed, Dress, Stored, normalizeCommand

LEMMA AdminStep ==
  ASSUME ContentInv, AdminMenus \/ AdminResponses
  PROVE  ContentInv'
<1>1. ASSUME NEW id \in Rows, NEW c \in Stored, NEW label, NEW b \in BOOLEAN,
             Insert(id, c, label, b)
      PROVE  ContentInv'
  BY <1>1, StatementKeepsInv DEF Insert
<1>2. ASSUME NEW id \in Rows, NEW c \in Stored, NEW label, Update(id, c, label)
      PROVE  ContentInv'
  <2>1. /\ row[id] \in {"NONE", "ON", "OFF"} /\ row' = [row EXCEPT ![id] = row[id]]
        /\ command' = [command EXCEPT ![id] = c] /\ ~Taken(id, c)
    BY <1>2 DEF Update, ContentInv, RowTypes
  <2> QED BY <2>1, StatementKeepsInv
<1>3. ASSUME NEW id \in Rows, NEW b \in BOOLEAN, SetEnabled(id, b)
      PROVE  ContentInv'
  <2>1. /\ command[id] \in Stored \cup {Blank} /\ Live(id)
        /\ command' = [command EXCEPT ![id] = command[id]]
        /\ row' = [row EXCEPT ![id] = IF b THEN "ON" ELSE "OFF"]
    BY <1>3 DEF SetEnabled, ContentInv, RowTypes
  <2> QED BY <2>1, StatementKeepsInv
<1>4. ASSUME NEW id \in Rows, Delete(id)
      PROVE  ContentInv'
  BY <1>4, StatementKeepsInv DEF Delete
<1>5. CASE AdminMenus
  BY <1>1, <1>2, <1>3, <1>4, <1>5, Normalized
     DEF AdminMenus, CreateMenu, UpdateMenu, SetMenuEnabled, DeleteMenu, Rows
<1>6. CASE AdminResponses
  BY <1>1, <1>2, <1>3, <1>4, <1>6, Normalized
     DEF AdminResponses, CreateResponse, UpdateResponse, SetResponseEnabled,
         DeleteResponse, Rows
<1> QED BY <1>5, <1>6

LEMMA ContentInvariant == Spec => []ContentInv
<1>1. ContentInv /\ UNCHANGED content => ContentInv'
  BY DEF ContentInv, RowTypes, Unique, Live, content
<1>2. [Next]_vars => AdminMenus \/ AdminResponses \/ UNCHANGED content
  BY DEF Next, AdminNext, ChatNext, Expire, vars, Command, Tap, Begin, AskMenus, MenusCached,
         MenusArrive, MenusFail, AskResponse, ResponseArrives, ServeMenus, ServeResponse
<1> QED BY <1>1, <1>2, AdminStep, InitContentInv, PTL DEF Spec

-----------------------------------------------------------------------------
\* However the admin types them: the rows of a table answer to different
\* commands.  The constraint compares what is stored, and what is stored is
\* normalized.
THEOREM CommandsAreUnique == Spec => []OneRowPerCommand
<1>1. ContentInv => OneRowPerCommand
  <2> SUFFICES ASSUME ContentInv, NEW p \in Rows, NEW q \in Table(p) \ {p},
                      Live(p), Live(q)
               PROVE  command[p].word # command[q].word
    BY DEF OneRowPerCommand
  <2>1. command[p] \in Stored /\ command[q] \in Stored /\ command[p] # command[q]
    BY TableRows DEF ContentInv, RowTypes, Unique
  <2> QED BY <2>1 DEF Stored
<1> QED BY <1>1, ContentInvariant, PTL

-----------------------------------------------------------------------------
(* Types *)

Pcs == {"idle", "keyboard", "response", "lookup", "button", "reply"}

NetTypes ==
  /\ DOMAIN net = Chats
  /\ \A c \in Chats :
       /\ net[c].state \in {"none", "asked", "menus", "found", "missing"}
       /\ net[c].menus \subseteq Menu

\* TypeOK without the command of a row that is not there.
BotTypes ==
  /\ title \in [Rows -> Titles]
  /\ menuCache \subseteq Menu
  /\ young \in BOOLEAN
  /\ pc   \in [Chats -> Pcs]
  /\ goal \in [Chats -> Texts]
  /\ NetTypes
  /\ sawOn  \in [Chats -> BOOLEAN]
  /\ sawOff \in [Chats -> BOOLEAN]

LEMMA ListedAreMenus == ASSUME ContentInv, BotTypes PROVE ListEnabled \subseteq Menu
<1>1. ASSUME NEW m \in Menus, row[m] = "ON"
      PROVE  command[m] \in Typed /\ title[m] \in Titles
  BY <1>1 DEF ContentInv, RowTypes, BotTypes, Live, Rows, Stored, Typed, Dress
<1> QED BY <1>1 DEF ListEnabled, Menu

\* What is put on the net is one of the things a handler may wait for.
LEMMA NetStep ==
  ASSUME NetTypes, NEW c \in Chats, NEW ms \in SUBSET Menu,
         NEW answer \in {Quiet, Asked, Items(ms), Found, Missing},
         net' = [net EXCEPT ![c] = answer]
  PROVE  NetTypes'
BY DEF NetTypes, Quiet, Asked, Items, Found, Missing

LEMMA GoStep ==
  ASSUME BotTypes, NEW c \in Chats, NEW where \in Pcs, Go(c, where)
  PROVE  pc' \in [Chats -> Pcs] /\ goal' \in [Chats -> Texts] /\ NetTypes'
<1>1. NetTypes'
  BY NetStep DEF Go, BotTypes
<1> QED BY <1>1 DEF Go, BotTypes, Texts, Plain

LEMMA AfterStep ==
  ASSUME BotTypes, NEW c \in Chats, NEW menus, AfterMenus(c, menus)
  PROVE  pc' \in [Chats -> Pcs] /\ goal' \in [Chats -> Texts] /\ NetTypes'
<1>1. \E where \in Pcs : Go(c, where)
  BY DEF AfterMenus, Pcs
<1> QED BY <1>1, GoStep

LEMMA TypeStep ==
  ASSUME ContentInv, BotTypes, [Next]_vars PROVE BotTypes'
<1> USE DEF BotTypes
<1>1. CASE UNCHANGED vars
  BY <1>1 DEF vars, content, cache, handlers, NetTypes
<1>2. CASE Watch
  <2>1. sawOn' \in [Chats -> BOOLEAN] /\ sawOff' \in [Chats -> BOOLEAN]
    BY <1>2 DEF Watch
  <2>2. CASE AdminNext
    <3>1. title' \in [Rows -> Titles]
      BY <2>2, TitlesAssumption
      DEF AdminNext, AdminMenus, CreateMenu, UpdateMenu, SetMenuEnabled,
          DeleteMenu, AdminResponses, CreateResponse, UpdateResponse,
          SetResponseEnabled, DeleteResponse, Insert, Update, SetEnabled,
          Delete
    <3> QED BY <2>1, <2>2, <3>1 DEF AdminNext, cache, NetTypes
  <2>3. CASE Expire
    BY <2>1, <2>3 DEF Expire, content, NetTypes
  <2>4. ASSUME NEW c \in Chats, ChatNext(c) PROVE BotTypes'
    <3>1. title' = title
      BY <2>4 DEF ChatNext, Command, Tap, Begin, AskMenus, MenusCached, MenusArrive,
                  MenusFail, AskResponse, ResponseArrives, ServeMenus,
                  ServeResponse, content
    <3>2. ASSUME NEW text \in Texts, NEW where \in Pcs,
                 pc' = [pc EXCEPT ![c] = where],
                 goal' = [goal EXCEPT ![c] = text], UNCHANGED <<cache, net>>
          PROVE  BotTypes'
      BY <2>1, <3>1, <3>2 DEF cache, NetTypes
    <3>3. CASE \E text \in Texts : Command(c, text)
      BY <3>2, <3>3 DEF Command, Begin, Pcs
    <3>4. CASE \E text \in Texts : Tap(c, text)
      BY <3>2, <3>4 DEF Tap, Begin, Pcs
    <3>5. ASSUME NEW ms \in SUBSET Menu,
                 NEW answer \in {Quiet, Asked, Items(ms), Found, Missing},
                 net' = [net EXCEPT ![c] = answer],
                 UNCHANGED <<cache, pc, goal>>
          PROVE  BotTypes'
      <4>1. NetTypes'
        BY <3>5, NetStep
      <4> QED BY <2>1, <3>1, <3>5, <4>1 DEF cache
    <3>6. CASE AskMenus(c) \/ AskResponse(c)
      BY <3>5, <3>6 DEF AskMenus, AskResponse
    <3>7. CASE ServeMenus(c)
      BY <3>5, <3>7, ListedAreMenus DEF ServeMenus
    <3>8. CASE ServeResponse(c)
      BY <3>5, <3>8 DEF ServeResponse
    <3>9. CASE MenusCached(c) \/ MenusFail(c)
      <4>1. pc' \in [Chats -> Pcs] /\ goal' \in [Chats -> Texts] /\ NetTypes'
        BY <3>9, AfterStep DEF MenusCached, MenusFail
      <4> QED BY <2>1, <3>1, <3>9, <4>1 DEF MenusCached, MenusFail, cache
    <3>10. CASE MenusArrive(c)
      <4>1. pc' \in [Chats -> Pcs] /\ goal' \in [Chats -> Texts] /\ NetTypes'
        BY <3>10, AfterStep DEF MenusArrive
      <4>2. menuCache' \subseteq Menu /\ young' \in BOOLEAN
        BY <3>10 DEF MenusArrive, NetTypes
      <4> QED BY <2>1, <3>1, <4>1, <4>2
    <3>11. CASE ResponseArrives(c)
      <4>1. \E where \in Pcs : Go(c, where)
        BY <3>11 DEF ResponseArrives, Pcs
      <4>2. pc' \in [Chats -> Pcs] /\ goal' \in [Chats -> Texts] /\ NetTypes'
        BY <4>1, GoStep
      <4> QED BY <2>1, <3>1, <3>11, <4>2 DEF ResponseArrives, cache
    <3> QED
      BY <2>4, <3>3, <3>4, <3>6, <3>7, <3>8, <3>9, <3>10, <3>11 DEF ChatNext
  <2> QED BY <1>1, <2>2, <2>3, <2>4 DEF Next
<1> QED BY <1>1, <1>2 DEF Next

LEMMA TypeInvariant == Spec => []BotTypes
<1>1. Init => BotTypes
  <2> SUFFICES ASSUME Init PROVE BotTypes
    OBVIOUS
  <2>1. NetTypes
    BY DEF Init, NetTypes, Quiet
  <2>2. /\ title = [id \in Rows |-> ""] /\ menuCache = {} /\ young = FALSE
        /\ pc = [c \in Chats |-> "idle"] /\ goal = [c \in Chats |-> Plain("")]
        /\ sawOn = [c \in Chats |-> FALSE] /\ sawOff = [c \in Chats |-> FALSE]
    BY DEF Init, ContentInit
  <2> QED BY <2>1, <2>2, TitlesAssumption DEF BotTypes, Texts, Plain, Pcs
<1>2. ContentInv /\ BotTypes /\ [Next]_vars => BotTypes'
  BY TypeStep
<1> QED BY <1>1, <1>2, ContentInvariant, PTL DEF Spec

\* Type correctness.  There must be a command for a row without one to have.
THEOREM BotTypeCorrect == Words # {} => (Spec => []TypeOK)
<1> SUFFICES ASSUME Words # {} PROVE Spec => []TypeOK
  OBVIOUS
<1>1. Blank \in Stored
  <2>1. \E c \in Stored : TRUE
    <3>1. PICK w : w \in Words
      OBVIOUS
    <3>2. [word |-> w, dress |-> "plain"] \in Stored
      BY <3>1 DEF Stored
    <3> QED BY <3>2
  <2> QED BY <2>1 DEF Blank
<1>2. ContentInv /\ BotTypes => TypeOK
  BY <1>1 DEF ContentInv, RowTypes, BotTypes, NetTypes, TypeOK, ContentTypeOK, Pcs
<1> QED BY <1>2, ContentInvariant, TypeInvariant, PTL

-----------------------------------------------------------------------------
(* Answers *)

\* How a request comes to have its answer.
LEMMA AnswerStep ==
  ASSUME BotTypes, [Next]_vars, NEW c \in Chats, pc'[c] = "response",
         net'[c] \in {Found, Missing}
  PROVE  /\ goal'[c] = goal[c] /\ pc[c] = "response"
         /\ \/ net'[c] = net[c]
            \/ ServeResponse(c)
<1> USE DEF BotTypes, NetTypes
<1>1. Quiet \notin {Found, Missing} /\ Asked \notin {Found, Missing}
  BY DEF Quiet, Asked, Found, Missing
<1>2. ASSUME NEW x \in Chats, NEW where, Go(x, where)
      PROVE  x # c /\ pc'[c] = pc[c] /\ goal'[c] = goal[c] /\ net'[c] = net[c]
  BY <1>1, <1>2 DEF Go
<1>3. ASSUME NEW x \in Chats, ChatNext(x)
      PROVE  /\ goal'[c] = goal[c] /\ pc[c] = "response"
             /\ net'[c] = net[c] \/ ServeResponse(c)
  <2>1. CASE \E text \in Texts : Command(x, text) \/ Tap(x, text)
    BY <2>1 DEF Command, Tap, Begin
  <2>2. CASE AskMenus(x) \/ AskResponse(x)
    BY <1>1, <2>2 DEF AskMenus, AskResponse
  <2>3. CASE MenusCached(x) \/ MenusArrive(x) \/ MenusFail(x) \/ ResponseArrives(x)
    BY <1>2, <2>3 DEF MenusCached, MenusArrive, MenusFail, ResponseArrives, AfterMenus
  <2>4. CASE ServeMenus(x)
    BY <2>4 DEF ServeMenus, AwaitsMenus
  <2>5. CASE ServeResponse(x)
    BY <2>5 DEF ServeResponse
  <2> QED BY <1>3, <2>1, <2>2, <2>3, <2>4, <2>5 DEF ChatNext
<1>4. CASE AdminNext \/ Expire \/ UNCHANGED vars
  BY <1>4 DEF AdminNext, Expire, vars, handlers
<1> QED BY <1>3, <1>4 DEF Next

\* The backend finds a response exactly where one is enabled: what the bot
\* sends, normalized, is how the command of the row was stored.
LEMMA ResolvesEnabled ==
  ASSUME ContentInv, NEW c \in Chats
  PROVE  ResolveResponse(Sent(c)) # {} <=> Enabled(c)
<1> DEFINE sent == [word |-> goal[c].text, dress |-> "plain"]
<1>1. ResolveResponse(Sent(c)) = {r \in Responses : row[r] = "ON" /\ command[r] = sent}
  BY DEF ResolveResponse, Sent, Refused, normalizeCommand, GetByCommand
<1>2. \A r \in Responses : row[r] = "ON" => (command[r] = sent <=> command[r].word = goal[c].text)
  BY DEF ContentInv, RowTypes, Live, Rows, Stored
<1> HIDE DEF sent
<1> QED BY <1>1, <1>2 DEF Enabled

\* Whatever the admin does while a request is on its way, and however requests
\* interleave: a customer is shown a response, or told there is none, only if
\* that was so at some moment between message and answer.
THEOREM AnswersHeld == Spec => []AnswerHeld
<1>1. Init => AnswerHeld
  BY DEF Init, AnswerHeld
<1>2. ContentInv /\ BotTypes /\ AnswerHeld /\ [Next]_vars => AnswerHeld'
  <2> SUFFICES ASSUME ContentInv, BotTypes, AnswerHeld, [Next]_vars,
                      NEW c \in Chats, pc'[c] = "response",
                      net'[c] \in {Found, Missing}
               PROVE  /\ net'[c] = Found   => sawOn'[c]
                      /\ net'[c] = Missing => sawOff'[c]
    BY DEF AnswerHeld
  <2>1. CASE UNCHANGED vars
    BY <2>1 DEF vars, handlers, AnswerHeld
  <2>2. CASE Watch
    <3>1. /\ sawOn'[c]  <=> sawOn[c] \/ Enabled(c)'
          /\ sawOff'[c] <=> sawOff[c] \/ ~Enabled(c)'
      BY <2>2 DEF Watch, Answerable
    <3>2. CASE net'[c] = net[c]
      BY <3>1, <3>2, AnswerStep DEF AnswerHeld
    <3>3. CASE ServeResponse(c)
      <4>1. Enabled(c)' <=> Enabled(c)
        BY <3>3 DEF ServeResponse, Enabled, content
      <4>2. net'[c] = IF Enabled(c) THEN Found ELSE Missing
        BY <3>3, ResolvesEnabled DEF ServeResponse, BotTypes, NetTypes
      <4>3. Found # Missing
        BY DEF Found, Missing
      <4> QED BY <3>1, <4>1, <4>2, <4>3
    <3> QED BY <3>2, <3>3, AnswerStep
  <2> QED BY <2>1, <2>2 DEF Next
<1> QED BY <1>1, <1>2, ContentInvariant, TypeInvariant, PTL DEF Spec

=============================================================================
