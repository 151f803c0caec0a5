------------------------------- MODULE Prompt -------------------------------
(***************************************************************************)
(* What a stage asks a model: Parser.Run of internal/parse reads the       *)
(* newsletter (HtmlText), and asks for the extraction (Clients); Classify  *)
(* and the cold-reader checks ask for a text.  The model calls of a worker *)
(* come one after the other.                                               *)
(***************************************************************************)
EXTENDS HtmlText, Clients

prompt_vars == <<doc_vars, call_vars>>

PromptInit == DocInit /\ CallInit

\* The document goes into the prompt and is not read again.
Consume == doc' = <<>> /\ extracted' = NULL /\ UNCHANGED walk_vars

AskForExtraction ==
    /\ extracted # NULL
    /\ extracted.text # {}
    /\ \E c \in Call : c.method = "Tool" /\ Send(c)
    /\ Consume

\* "no extractable text", images or not: an error without a call.
NothingToExtract ==
    /\ extracted # NULL
    /\ extracted.text = {}
    /\ Consume
    /\ UNCHANGED call_vars

\* The prompts of Classify and of keepSelfContained hold no document.
AskForText ==
    /\ doc = <<>> /\ extracted = NULL /\ ~Walking
    /\ \E c \in Call : c.method = "Text" /\ Send(c)
    /\ UNCHANGED doc_vars

PromptNext ==
    \/ call = None /\ DocNext /\ UNCHANGED call_vars
    \/ AskForExtraction
    \/ NothingToExtract
    \/ AskForText
    \/ (Respond \/ BreakOff \/ Return \/ Forget) /\ UNCHANGED doc_vars

PromptSpec == PromptInit /\ [][PromptNext]_prompt_vars
=============================================================================
