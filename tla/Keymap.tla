------------------------------- MODULE Keymap -------------------------------
(***************************************************************************)
(* The authored keymap, what may be bound and unbound, and how a stroke is *)
(* resolved in a focus: by the authored names (Keymap.cpp) and by the      *)
(* compiled form the keystrokes use (CompiledKeymap.cpp).                  *)
(***************************************************************************)
EXTENDS Sequences, Naturals, FiniteSets, SequencesExt

FocusTargets == {"editor", "panel", "prompt", "external"}
keymapContexts == {"*"} \cup FocusTargets

\* A stroke; its code is "None" when it names no key.
KeyStroke(code, mod, shift, meta) == [code |-> code, mod |-> mod, shift |-> shift, meta |-> meta]
Key(code) == KeyStroke(code, FALSE, FALSE, FALSE)
Mod(code) == KeyStroke(code, TRUE, FALSE, FALSE)
ModShift(code) == KeyStroke(code, TRUE, TRUE, FALSE)
validStroke(stroke) == stroke.code # "None"

Binding(sequence, command, context) ==
  [sequence |-> sequence, command |-> command, context |-> context]

-----------------------------------------------------------------------------
(* Authored text: a stroke is written as its words, the key last. *)

Modifiers == {"Mod", "Meta", "Shift"}

\* One stroke, or none when a modifier is repeated, unknown or last.
Chord(words) == SubSeq(words, 1, Len(words) - 1)
namesStroke(words, KeyCodes) ==
  /\ words # <<>> /\ words[Len(words)] \in KeyCodes
  /\ ToSet(Chord(words)) \subseteq Modifiers
  /\ Cardinality(ToSet(Chord(words))) = Len(Chord(words))
parseKeyStroke(words, KeyCodes) ==
  IF ~namesStroke(words, KeyCodes) THEN {}
  ELSE LET has(modifier) == modifier \in ToSet(Chord(words))
       IN  {KeyStroke(words[Len(words)], has("Mod"), has("Shift"), has("Meta"))}

\* A sequence of strokes of which every one must parse, and of which there must be one.
parseKeySequenceString(strokes, KeyCodes) ==
  IF Len(strokes) # 1 THEN {} ELSE {<<stroke>> : stroke \in parseKeyStroke(strokes[1], KeyCodes)}

-----------------------------------------------------------------------------
(* What a keymap may hold. *)

ModifiedEnter(stroke) == stroke.code = "Enter" /\ (stroke.shift \/ stroke.mod \/ stroke.meta)

Shadowed(bindings, i) ==
  /\ bindings[i].context # "*"
  /\ \E j \in DOMAIN bindings : bindings[j].context = "*" /\ bindings[j].sequence = bindings[i].sequence

validBinding(bindings, i) ==
  /\ Len(bindings[i].sequence) = 1
  /\ \A stroke \in ToSet(bindings[i].sequence) : validStroke(stroke) /\ ~ModifiedEnter(stroke)
  /\ bindings[i].command # ""
  /\ bindings[i].context \in keymapContexts
  /\ \A j \in 1..i - 1 : bindings[j].sequence = bindings[i].sequence => bindings[j].context # bindings[i].context
  /\ ~Shadowed(bindings, i)

validate(bindings) == \A i \in DOMAIN bindings : validBinding(bindings, i)

\* A command that a global binding runs wherever the focus is.
hasGlobalBinding(bindings, command) ==
  \E i \in DOMAIN bindings :
    /\ bindings[i].context = "*" /\ bindings[i].command = command
    /\ \A j \in 1..i - 1 : (bindings[j].context = "*" /\ bindings[j].sequence = bindings[i].sequence)
                              => bindings[j].command = command

Without(bindings, context, sequence) ==
  SelectSeq(bindings, LAMBDA b : ~(b.context = context /\ b.sequence = sequence))

OrGlobal(context) == IF context = "" THEN "*" ELSE context

\* Whether a binding or its removal is accepted, and the keymap it leaves.
HatchStays(bindings) == hasGlobalBinding(bindings, "settings.open")

applyKeymapBind(bindings, strokes, command, context, KeyCodes) ==
  LET proposed(sequence) == Append(Without(bindings, OrGlobal(context), sequence),
                                   Binding(sequence, command, OrGlobal(context)))
  IN  { proposed(sequence) : sequence \in
          {s \in parseKeySequenceString(strokes, KeyCodes) :
             command # "" /\ validate(proposed(s)) /\ HatchStays(proposed(s))} }

applyKeymapUnbind(bindings, strokes, context, KeyCodes) ==
  LET proposed(sequence) == Without(bindings, OrGlobal(context), sequence)
  IN  { proposed(sequence) : sequence \in
          {s \in parseKeySequenceString(strokes, KeyCodes) :
             OrGlobal(context) \in keymapContexts /\ HatchStays(proposed(s))} }

-----------------------------------------------------------------------------
(* What a stroke does. *)

eligibleIn(b, context) == b.context \in {"*", context}

\* The first of some, when there is one.
FirstDeclared(matches) == IF matches = <<>> THEN <<>> ELSE <<matches[1]>>

\* The first eligible binding, unless a global one follows a focus one: then the first global one.
FirstMatch(matches) ==
  LET global == SelectSeq(matches, LAMBDA b : b.context = "*")
  IN  IF global # <<>> THEN FirstDeclared(global) ELSE FirstDeclared(matches)

resolveSequence(bindings, pending, context) ==
  FirstMatch(SelectSeq(bindings, LAMBDA b : pending # <<>> /\ eligibleIn(b, context) /\ b.sequence = pending))

\* The keymap of the keystrokes: contexts and strokes as numbers, a name outside the set as Never.
compileContext(name) == IF name \in keymapContexts THEN name ELSE "never"
compile(stroke) == <<stroke.code, stroke.mod, stroke.meta, stroke.shift>>
CompiledKeymap(bindings) ==
  [i \in DOMAIN bindings |->
    [sequence |-> [j \in DOMAIN bindings[i].sequence |-> compile(bindings[i].sequence[j])],
     command |-> bindings[i].command, context |-> compileContext(bindings[i].context)]]
resolve(entries, stroke, focus) ==
  FirstMatch(SelectSeq(entries, LAMBDA e : eligibleIn(e, focus) /\ e.sequence = <<compile(stroke)>>))
=============================================================================
