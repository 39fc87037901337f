----------------------------- MODULE MCPurchase -----------------------------
(* The small instance of Purchase that TLC checks. *)
EXTENDS Purchase

\* The tags every code begins and ends with, around those of a merchant.
Tags(merchant) ==
  <<Tag("00", "01"), Tag("01", "11")>> \o merchant \o <<Tag("58", "ID")>>

Code(tags, sealed, blanks) == [tags |-> tags, sealed |-> sealed, blanks |-> blanks]

\* Not configured; as printed, with and without blanks; its CRC cut off, in a
\* town whose postal code begins with 6304; a merchant whose CRC reads 6304; no
\* country.
MCPayloads ==
  {Unset,
   Code(Tags(<<Tag("26", "93")>>), TRUE, FALSE),
   Code(Tags(<<Tag("26", "93")>>), TRUE, TRUE),
   Code(Tags(<<>>) \o <<Tag("61", "63041"), Tag("62", "0703A01")>>, FALSE, FALSE),
   Code(Tags(<<Tag("26", "7081")>>), TRUE, FALSE),
   Code(<<Tag("00", "01"), Tag("01", "11")>>, TRUE, FALSE)}

\* Nothing to pay; one digit; ten, so that the length of the tag has two.
MCAmounts == {0, 9, 1500000000}
=============================================================================
