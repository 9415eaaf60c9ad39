--------------------------- MODULE MCTerminalInput ---------------------------
EXTENDS TerminalInput

\* What is typed or pointed at, as an old terminal sends it and as the keyboard protocol does.
Done(legacy, kitty, means) == [legacy |-> legacy, kitty |-> kitty, means |-> means, severed |-> means]
Same(bytes, event) == Done(bytes, bytes, <<event>>)
Pressed(code, shift, mod) == Event("key", Stroke(code, shift, mod), <<>>)
At00(kind) == Event(kind, NoStroke, <<0, 0, 0, FALSE>>)

\* Alt with a special key is an escape byte before the bytes of that key.
AltHome == [Done(<<"ESC", "ESC", "[", "H">>, <<"ESC", "[", "1", ";", "3", "H">>, <<Pressed("Home", FALSE, TRUE)>>)
              EXCEPT !.severed = <<Pressed("Escape", FALSE, FALSE), Pressed("Home", FALSE, FALSE)>>]

MCKeys ==
  "alt home" :> AltHome @@
  "letter"   :> Same(<<"a">>, TextEvent(<<"a">>)) @@
  "accented" :> Same(<<"E9", "80">>, TextEvent(<<"E9", "80">>)) @@
  "escape"   :> Done(<<"ESC">>, <<"ESC", "[", "2", "7", "u">>, <<Pressed("Escape", FALSE, FALSE)>>) @@
  "alt a"    :> Done(<<"ESC", "a">>, <<"ESC", "[", "9", "7", ";", "3", "u">>, <<Pressed("a", FALSE, TRUE)>>) @@
  "shift up" :> Same(<<"ESC", "[", "1", ";", "2", "A">>, Pressed("ArrowUp", TRUE, FALSE)) @@
  "newline"  :> Done(<<"CR">>, <<"ESC", "[", "1", "3", ";", "5", "u">>, <<Pressed("Enter", FALSE, FALSE)>>) @@
  "paste"    :> Same(PasteStart \o <<"CR", "ESC">> \o PasteEnd, Event("paste", NoStroke, <<"CR", "ESC">>)) @@
  "drag"     :> Same(<<"ESC", "[", "<", "3", "2", ";", "1", ";", "1", "M">>, At00("drag")) @@
  "wheel"    :> Same(<<"ESC", "[", "<", "6", "5", ";", "1", ";", "1", "M">>, Event("scroll", NoStroke, <<3, 0, 0>>)) @@
  "quit"     :> Done(<<"^Q">>, <<"ESC", "[", "1", "1", "3", ";", "5", "u">>, <<>>)

\* A terminal with the keyboard protocol, and one that never answers the last question.
MCReplies ==
  {<<<<"ESC", "[", "?", "1", "u">>, <<"ESC", "[", "?", "6", ";", "5", "2", "c">>>>,
   <<<<"ESC", "[", "?", "2", "0", "2", "6", ";", "2", "$", "y">>>>}
=============================================================================
