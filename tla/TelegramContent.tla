--------------------------- MODULE TelegramContent ---------------------------
(***************************************************************************)
(* The menus and static responses that an admin manages and the bot shows: *)
(* src/internal/service/telegram.go over the tables telegram_menus and     *)
(* telegram_responses.                                                     *)
(*                                                                         *)
(* A command is a word and the way it is typed: "plain" stands for /promo, *)
(* "dressed" for what normalizes to it ("promo", " /Promo "), "broken" for *)
(* what is refused (two tokens, a second slash, nothing).  A title is ""   *)
(* for none, when the button shows the command, or a tag, which may have   *)
(* outer blanks; one that looks like a command is left out.  A row is "ON" *)
(* or "OFF" by is_enabled, and "NONE" before its INSERT and after its      *)
(* DELETE: nothing here keeps the id of a row that is gone, so a model may *)
(* use it again.  Reply texts and the sort order are left out: a list of   *)
(* menus is a set, and where the code takes the first match any match may  *)
(* be it.                                                                  *)
(***************************************************************************)
EXTENDS Naturals, FiniteSets

CONSTANTS
  Menus, Responses,  \* the rows there may be at a time
  Words,             \* the commands, normalized
  Titles             \* the titles there may be

ASSUME ContentTables == Menus \cap Responses = {}
ASSUME TitlesAssumption == "" \in Titles /\ Titles \subseteq {"", "tag", " tag "}

VARIABLES
  row,      \* the state of each row
  command,  \* its command
  title     \* its title; a response has none

content == <<row, command, title>>

Rows   == Menus \cup Responses
Dress  == {"plain", "dressed", "broken"}
Typed  == [word : Words, dress : Dress]
Stored == [word : Words, dress : {"plain"}]
Blank  == CHOOSE c \in Stored : TRUE

Live(id)  == row[id] \in {"ON", "OFF"}
Table(id) == IF id \in Menus THEN Menus ELSE Responses

ContentTypeOK ==
  /\ row     \in [Rows -> {"NONE", "ON", "OFF"}]
  /\ command \in [Rows -> Stored]
  /\ title   \in [Rows -> Titles]

ContentInit ==
  /\ row     = [id \in Rows |-> "NONE"]
  /\ command = [id \in Rows |-> Blank]
  /\ title   = [id \in Rows |-> ""]

\* Mutant: the command is stored as it was typed.
AsTyped(raw) == raw

\* normalizeCommand of a command it does not refuse.
normalizeCommand(raw) == [raw EXCEPT !.dress = "plain"]

Refused(raw) == raw.dress = "broken"

\* UNIQUE (command), in each table.
Taken(id, cmd) == \E other \in Table(id) \ {id} : Live(other) /\ command[other] = cmd

-----------------------------------------------------------------------------
(* The statements of MenuRepository and ResponseRepository, which differ in *)
(* the table they run on.                                                   *)

Insert(id, cmd, label, enabled) ==
  /\ row[id] = "NONE"
  /\ ~Taken(id, cmd)
  /\ row'     = [row EXCEPT ![id] = IF enabled THEN "ON" ELSE "OFF"]
  /\ command' = [command EXCEPT ![id] = cmd]
  /\ title'   = [title EXCEPT ![id] = label]

Update(id, cmd, label) ==
  /\ Live(id)
  /\ ~Taken(id, cmd)
  /\ command' = [command EXCEPT ![id] = cmd]
  /\ title'   = [title EXCEPT ![id] = label]
  /\ UNCHANGED row

SetEnabled(id, enabled) ==
  /\ Live(id)
  /\ row' = [row EXCEPT ![id] = IF enabled THEN "ON" ELSE "OFF"]
  /\ UNCHANGED <<command, title>>

Delete(id) ==
  /\ Live(id)
  /\ row'     = [row EXCEPT ![id] = "NONE"]
  /\ command' = [command EXCEPT ![id] = Blank]
  /\ title'   = [title EXCEPT ![id] = ""]

\* MenuRepository.List for the bot.
ListEnabled ==
  {[command |-> command[m], title |-> title[m]] : m \in {n \in Menus : row[n] = "ON"}}

\* ResponseRepository.GetByCommand.
GetByCommand(cmd) == {r \in Responses : row[r] = "ON" /\ command[r] = cmd}

-----------------------------------------------------------------------------
(* TelegramService.  What is refused (a broken command, a taken one, a row  *)
(* that is not there) changes nothing and is no step.                       *)

CreateMenu(m, raw, label, enabled) ==
  /\ ~Refused(raw)
  /\ Insert(m, normalizeCommand(raw), label, enabled)

\* getMenu finds the row, then the UPDATE writes every column but is_enabled:
\* nothing of what was read is written back, so the two are one step.
UpdateMenu(m, raw, label) ==
  /\ ~Refused(raw)
  /\ Update(m, normalizeCommand(raw), label)

SetMenuEnabled(m, enabled) == SetEnabled(m, enabled)

DeleteMenu(m) == Delete(m)

CreateResponse(r, raw, enabled) ==
  /\ ~Refused(raw)
  /\ Insert(r, normalizeCommand(raw), "", enabled)

UpdateResponse(r, raw) ==
  /\ ~Refused(raw)
  /\ Update(r, normalizeCommand(raw), "")

SetResponseEnabled(r, enabled) == SetEnabled(r, enabled)

DeleteResponse(r) == Delete(r)

\* Mutant: the lookup compares with what the bot sent, which has no slash.
ResolveAsSent(raw) == GetByCommand([raw EXCEPT !.dress = "dressed"])

\* ResolveResponse: whether there is an enabled response to the command.
ResolveResponse(raw) ==
  IF Refused(raw) THEN {} ELSE GetByCommand(normalizeCommand(raw))

AdminMenus ==
  \E m \in Menus :
    \/ \E raw \in Typed, t \in Titles, b \in BOOLEAN : CreateMenu(m, raw, t, b)
    \/ \E raw \in Typed, t \in Titles : UpdateMenu(m, raw, t)
    \/ \E b \in BOOLEAN : SetMenuEnabled(m, b)
    \/ DeleteMenu(m)

AdminResponses ==
  \E r \in Responses :
    \/ \E raw \in Typed, b \in BOOLEAN : CreateResponse(r, raw, b)
    \/ \E raw \in Typed : UpdateResponse(r, raw)
    \/ \E b \in BOOLEAN : SetResponseEnabled(r, b)
    \/ DeleteResponse(r)
=============================================================================
