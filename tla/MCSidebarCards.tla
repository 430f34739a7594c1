--------------------------- MODULE MCSidebarCards ---------------------------
(* Constants for model checking the drawer with its cards.                 *)
EXTENDS SidebarCards

CONSTANTS
    a,  \* the conversation on file, which holds the card
    n   \* the one a first message makes
=============================================================================
