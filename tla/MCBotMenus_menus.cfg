CONSTANTS
  Menus = {m1, m2}
  Responses = {r1}
  Words = {"promo"}
  Titles <- MCTitles
  Chats = {c1, c2}
SPECIFICATION Spec
INVARIANTS
  TypeOK
  OneRowPerCommand
  AnswerHeld
PROPERTIES
  MenusCatchUp
