--------------------------- MODULE MCWindowManager ---------------------------
(* Instances of WindowManager for TLC. *)
EXTENDS WindowManager, TLC

Do(type, button, x, part, item) ==
  [type |-> type, button |-> button, at |-> [x |-> x, part |-> part, menu |-> item]]
Press(x, part, item) == Do("down", "left", x, part, item)
(* A window is closed or dragged, an arrow pressed, the menu shown on the  *)
(* desktop, pinned, dragged, and a program or the end of the session       *)
(* chosen.                                                                 *)
MCChrome ==
  {Press(1, "menu_button", "program"), Press(0, "title", "end_session"),
   Press(1, "arrow", "pushpin"), Press(3, "content", "title"),
   Do("up", "left", 3, "content", "off"), Do("motion", "none", 3, "content", "plate"),
   Do("down", "right", 3, "content", "title")}
MCGestures == <<MCChrome, MCChrome,
                {Press(0, "menu_button", "off"), Press(2, "title", "off")}>>
MCKeys == <<{"escape"}, {"other"}, {}>>
MCMaxInputs == <<5, 3, 1>>
=============================================================================
