------------------------------- MODULE BotMenus -------------------------------
(***************************************************************************)
(* How the bot answers typed commands and tapped buttons from the content  *)
(* that TelegramContent keeps: src/bot/src/bot.js and keyboards.js.        *)
(*                                                                         *)
(* Node runs one handler at a time, and every await is a point where the   *)
(* others go on: a handler is a chat with a program counter, and what it   *)
(* waits for is on the net.  Two handlers that find the cached menus too   *)
(* old both ask for new ones, and the answers may overtake each other.     *)
(***************************************************************************)
EXTENDS TelegramContent

CONSTANTS
  Chats  \* handlers that may run at a time

VARIABLES
  menuCache,  \* the menus of the last answer
  young,      \* whether that answer is less than MENU_TTL_MS old
  pc,         \* the await each handler is at
  goal,       \* the text of the message it is about
  net,        \* what the handler waits for
  sawOn, sawOff  \* while the request ran, its command was, and was not, enabled

handlers == <<pc, goal, net, sawOn, sawOff>>
cache    == <<menuCache, young>>
vars     == <<content, cache, handlers>>

Menu == [command : Typed, title : Titles]

\* Texts: a command with its slash, or a title, which a button shows and sends
\* without outer blanks (buildMainMenu).
Slashed(word) == [slash |-> TRUE, text |-> word]
Plain(text)   == [slash |-> FALSE, text |-> text]

Texts == [slash : {TRUE}, text : Words] \cup [slash : {FALSE}, text : {"", "tag"}]

Quiet     == [state |-> "none", menus |-> {}]
Asked     == [state |-> "asked", menus |-> {}]
Items(ms) == [state |-> "menus", menus |-> ms]
Found     == [state |-> "found", menus |-> {}]
Missing   == [state |-> "missing", menus |-> {}]

TypeOK ==
  /\ ContentTypeOK
  /\ menuCache \subseteq Menu
  /\ young \in BOOLEAN
  /\ pc   \in [Chats -> {"idle", "keyboard", "response", "lookup", "button",
                         "reply"}]
  /\ goal \in [Chats -> Texts]
  /\ DOMAIN net = Chats
  /\ \A c \in Chats :
       /\ net[c].state \in {"none", "asked", "menus", "found", "missing"}
       /\ net[c].menus \subseteq Menu
  /\ sawOn  \in [Chats -> BOOLEAN]
  /\ sawOff \in [Chats -> BOOLEAN]

Init ==
  /\ ContentInit
  /\ menuCache = {}
  /\ young  = FALSE
  /\ pc     = [c \in Chats |-> "idle"]
  /\ goal   = [c \in Chats |-> Plain("")]
  /\ net    = [c \in Chats |-> Quiet]
  /\ sawOn  = [c \in Chats |-> FALSE]
  /\ sawOff = [c \in Chats |-> FALSE]

-----------------------------------------------------------------------------
(* Buttons *)

\* A button is labelled with the title of its menu, or the command without one.
Label(menu) == IF menu.title = "" THEN Slashed(menu.command.word) ELSE Plain(menu.title)

\* handleMenuButton compares the untrimmed label with the text of the message.
ButtonMatches(menus, text) == {m \in menus : Label(m) = text}

-----------------------------------------------------------------------------
(* Handlers *)

AwaitsMenus(c) == pc[c] \in {"keyboard", "lookup", "button", "reply"}

\* A message goes to the first handler that takes it.
Begin(c, text, handler) ==
  /\ pc[c] = "idle"
  /\ pc'   = [pc EXCEPT ![c] = handler]
  /\ goal' = [goal EXCEPT ![c] = text]
  /\ UNCHANGED <<content, cache, net>>

\* bot.hears takes what begins like a command; a word of which it does not (one
\* that begins with neither a letter, a digit nor an underscore) is left out.
IsCommand(text) == text.slash

\* A message that names a command: typed, or sent by the button of a menu without
\* a title (resolveCommand), or one of the fixed buttons that show a response
\* (sendResponse).  The order command goes to the catalog at once.
Command(c, text) == IsCommand(text) /\ Begin(c, text, "keyboard")

\* Any other text: typed, or sent by the button of a keyboard that may be as old
\* as the chat (handleMenuButton).
Tap(c, text) == ~IsCommand(text) /\ text # Plain("") /\ Begin(c, text, "button")

Go(c, where) ==
  /\ pc'   = [pc EXCEPT ![c] = where]
  /\ net'  = [net EXCEPT ![c] = Quiet]
  /\ goal' = IF where = "idle" THEN [goal EXCEPT ![c] = Plain("")] ELSE goal

\* getEnabledMenus asks the backend when the cache has expired.
AskMenus(c) ==
  /\ AwaitsMenus(c) /\ net[c] = Quiet
  /\ ~young
  /\ net' = [net EXCEPT ![c] = Asked]
  /\ UNCHANGED <<content, cache, pc, goal>>

\* What follows getEnabledMenus.  A tapped button that matches a menu is
\* answered with its text, after one more keyboard, or with the catalog; one
\* that matches nothing is ignored.
AfterMenus(c, menus) ==
  \/ pc[c] = "keyboard" /\ Go(c, "response")
  \/ pc[c] \in {"lookup", "button", "reply"} /\ Go(c, "idle")
  \/ pc[c] = "button" /\ ButtonMatches(menus, goal[c]) # {} /\ Go(c, "reply")

MenusCached(c) ==
  /\ AwaitsMenus(c) /\ net[c] = Quiet
  /\ young
  /\ AfterMenus(c, menuCache)
  /\ UNCHANGED <<content, cache>>

\* Mutant: an empty answer is taken for a failure.
MenusArriveNonEmpty(c) ==
  /\ AwaitsMenus(c) /\ net[c].state = "menus"
  /\ menuCache' = IF net[c].menus = {} THEN menuCache ELSE net[c].menus
  /\ young'     = TRUE
  /\ AfterMenus(c, menuCache')
  /\ UNCHANGED content

MenusArrive(c) ==
  /\ AwaitsMenus(c) /\ net[c].state = "menus"
  /\ menuCache' = net[c].menus
  /\ young'     = TRUE
  /\ AfterMenus(c, menuCache')
  /\ UNCHANGED content

\* The request fails, before or after the backend handled it: the old cache is
\* used, and the next handler asks again.
MenusFail(c) ==
  /\ AwaitsMenus(c) /\ net[c] # Quiet
  /\ AfterMenus(c, menuCache)
  /\ UNCHANGED <<content, cache>>

AskResponse(c) ==
  /\ pc[c] = "response" /\ net[c] = Quiet
  /\ net' = [net EXCEPT ![c] = Asked]
  /\ UNCHANGED <<content, cache, pc, goal>>

\* A response is shown, and an error as such.  Where there is no response a
\* typed command is looked up among the menus; a fixed button has a text of its
\* own.
ResponseArrives(c) ==
  /\ pc[c] = "response" /\ net[c] # Quiet
  /\ \/ Go(c, "idle")
     \/ net[c] = Missing /\ Go(c, "lookup")
  /\ UNCHANGED <<content, cache>>

-----------------------------------------------------------------------------
(* The backend: BotMenus and BotResponse.  The bot sends the command in lower *)
(* case and without its slash.                                                *)

ServeMenus(c) ==
  /\ AwaitsMenus(c) /\ net[c] = Asked
  /\ net' = [net EXCEPT ![c] = Items(ListEnabled)]
  /\ UNCHANGED <<content, cache, pc, goal>>

Sent(c) == [word |-> goal[c].text, dress |-> "dressed"]

ServeResponse(c) ==
  /\ pc[c] = "response" /\ net[c] = Asked
  /\ net' = [net EXCEPT ![c] = IF ResolveResponse(Sent(c)) # {} THEN Found
                                                                ELSE Missing]
  /\ UNCHANGED <<content, cache, pc, goal>>

\* MENU_TTL_MS have passed.
Expire ==
  /\ young
  /\ young' = FALSE
  /\ UNCHANGED <<content, menuCache, pc, goal, net>>

-----------------------------------------------------------------------------
\* Whether the command of a request was enabled, and was not, at some moment
\* since the request came.
Answerable(c) == pc[c] \in {"keyboard", "response"}
Enabled(c)    == \E r \in Responses : row[r] = "ON" /\ command[r].word = goal[c].text

Watch ==
  /\ sawOn'  = [c \in Chats |-> Answerable(c)' /\ (sawOn[c] \/ Enabled(c)')]
  /\ sawOff' = [c \in Chats |-> Answerable(c)' /\ (sawOff[c] \/ ~Enabled(c)')]

ChatNext(c) ==
  \/ \E text \in Texts : Command(c, text) \/ Tap(c, text)
  \/ AskMenus(c) \/ MenusCached(c) \/ MenusArrive(c) \/ MenusFail(c)
  \/ AskResponse(c) \/ ResponseArrives(c)
  \/ ServeMenus(c) \/ ServeResponse(c)

AdminNext == (AdminMenus \/ AdminResponses) /\ UNCHANGED <<cache, pc, goal, net>>

Next == (AdminNext \/ Expire \/ \E c \in Chats : ChatNext(c)) /\ Watch

Spec == Init /\ [][Next]_vars

-----------------------------------------------------------------------------
(* Properties *)

\* However they were typed, no two rows of a table answer to the same command:
\* the UNIQUE constraint sees normalized commands (normalizeCommand).
OneRowPerCommand ==
  \A id \in Rows : \A other \in Table(id) \ {id} :
    Live(id) /\ Live(other) => command[id].word # command[other].word

\* A customer is shown a response, or told there is none, only if that was so
\* at some moment between the message and the answer: the slash that the bot
\* strips twice and the backend adds, and the case, lead to the same row.
AnswerHeld ==
  \A c \in Chats : pc[c] = "response" =>
    /\ net[c] = Found   => sawOn[c]
    /\ net[c] = Missing => sawOff[c]

\* Once the admin leaves the menus alone, the bot shows them as they are from
\* some moment on, although answers overtake each other and some are lost, if
\* answers go on arriving.
MenusCatchUp ==
  (/\ <>[][ListEnabled' = ListEnabled]_vars
   /\ []<><<\E c \in Chats : MenusArrive(c)>>_vars)
    => <>[](menuCache = ListEnabled)
=============================================================================
