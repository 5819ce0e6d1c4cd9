----------------------------- MODULE AgentTools -----------------------------
(***************************************************************************)
(* What happens to the input of a tool call between the model and the      *)
(* tool: tools.Registry.Execute finds the tool, and a manifest or internal *)
(* command decodes the input as a JSON object before it runs.              *)
(*                                                                         *)
(* Tools are told apart by how they take their input, inputs by their      *)
(* form; what a program does once it runs is any outcome.                  *)
(***************************************************************************)

\* "shell"; the internal todo commands that need an argument ("add", "done",
\* "note"), and those that do not ("list", "next", "clear"); a command of a
\* manifest that puts named parameters into a template; one that makes a flag
\* of each; the built-in manifests read_file and list_dir; no such tool.
ToolKinds == {"shell", "todo", "todo_plain", "manifest", "flags", "builtin", "unknown"}

\* Text that is not JSON; an object with the tool's own parameters; an object
\* with one field "input", as ToToolDefs advertises for every tool; nothing.
Forms == {"text", "named", "wrapped", "empty"}

\* toolreg.Registry.Execute: blank input is an empty object.
Decodes(form) == form # "text"

\* What runs is given the argument the caller meant, if only as `--input`.
Fits(kind, form) ==
  CASE kind = "shell"                -> form \in {"text", "empty"}
    [] kind = "todo_plain"           -> Decodes(form)
    [] kind \in {"todo", "manifest"} -> form = "named"
    [] kind = "flags"                -> form \in {"named", "wrapped"}
    [] OTHER                         -> FALSE

\* The values Result.OK() can have.  A program of a manifest runs, without
\* its argument, also when the input does not fit; `cat` and `ls` of the
\* built-in manifests take the command's name, "run", for a file as well and
\* fail (no file has that name).
Outcomes(kind, form) ==
  IF Fits(kind, form) \/ (kind \in {"manifest", "flags"} /\ Decodes(form))
  THEN BOOLEAN ELSE {FALSE}

\* Whether the result has text in it.  The internal commands print JSON and a
\* failure its error; a program may succeed in silence (`mkdir`).
Prints(kind, ok) ==
  IF ok /\ kind \in {"shell", "manifest", "flags"} THEN BOOLEAN ELSE {TRUE}
=============================================================================
