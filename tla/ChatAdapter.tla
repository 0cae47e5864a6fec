---------------------------- MODULE ChatAdapter ----------------------------
(***************************************************************************)
(* Tool calls between the agent runtime and the policy: the OpenAI chat    *)
(* adapter (axrl/openai_proxy/chat_adapter.py), the parsing of a           *)
(* generation in the SGLang worker (axrl/worker/sglang_worker.py) and the  *)
(* validation in the environment (blackbox_env.py).                        *)
(*                                                                         *)
(* A message is its role and its tool calls; a call is the tool's name and *)
(* what its arguments decode to.  A generation is what the model wrote:    *)
(* its tool-call syntax, if any, and what is left of it once the reasoning *)
(* parser has taken the reasoning away.  Tokens and texts are left out.    *)
(***************************************************************************)
EXTENDS Sequences, SequencesExt

CONSTANTS
    ToolParserConfig,       \* tool_call_parser: "none", "auto" or a name
    ReasoningParserConfig,  \* reasoning_parser: "none", "auto" or a name
    DetectedParser          \* what the template detection finds, or "none"

\* Arguments: a JSON object, another JSON value, or no JSON (empty included).
Arguments == {"object", "value", "broken"}
Call(name, args) == [name |-> name, args |-> args]
Message(role, calls) == [role |-> role, calls |-> calls]

\* A chat completion request without its messages: are tools offered, the tool
\* choice, is reasoning to be separated, does the body validate, unsupported
\* fields that are set, multimodal content.
ContextType ==
    [tools: BOOLEAN, choice: {"auto", "none", "required", "named"}, separate: BOOLEAN,
     valid: BOOLEAN, unsupported: BOOLEAN, media: BOOLEAN]

\* What the model writes: no tool-call syntax, calls, syntax in which the parser
\* finds no call, or syntax on which it raises; in all and outside the reasoning.
Syntaxes == {"none", "calls", "no_call", "raises"}
Generation(syntax, visible, calls, finish) ==
    [syntax |-> syntax, visible |-> visible, written |-> calls, finish |-> finish]

---------------------------------------------------------------------------
(* The adapter: from a request to the input of a generation. *)

\* _resolve_parser_config, of a configuration that is supported.
ResolveParserConfig(configured) == IF configured = "auto" THEN DetectedParser ELSE configured
ToolCallParser == ResolveParserConfig(ToolParserConfig)
ReasoningParser == ResolveParserConfig(ReasoningParserConfig)

\* _validate_request refuses it.
UnsupportedRequestFields(context, messages) ==
    \/ messages = <<>>
    \/ context.choice \in {"required", "named"} /\ ~context.tools
    \/ context.unsupported

\* _normalize_assistant_tool_calls: the arguments of past calls must be JSON.
NormalizeRaises(messages) ==
    \E m \in ToSet(messages) :
        m.role = "assistant" /\ \E c \in ToSet(m.calls) : c.args = "broken"

\* convert_request raises.
ConvertRaises(context, messages) ==
    \/ ~context.valid
    \/ UnsupportedRequestFields(context, messages)
    \/ context.media
    \/ NormalizeRaises(messages)

\* The GenerationInput of convert_request.  The tool_choice of the request is not
\* handed on, so the worker resolves it to "auto" whenever tools are offered.
GenerationInput(context) ==
    [tools |-> context.tools, choice |-> "unset",
     parser |-> IF context.tools THEN ToolCallParser ELSE "none"]

---------------------------------------------------------------------------
(* The SGLang worker: from what the model writes to a GenerationOutput. *)

ResolveToolChoice(choice, tools) ==
    IF choice = "unset" THEN IF tools THEN "auto" ELSE "none" ELSE choice

\* parse_function_calls, where the choice is not a forced one: a parser that
\* raises is caught, and the text stays as it is.
ParsesCalls(input, gen) ==
    /\ input.tools
    /\ ResolveToolChoice(input.choice, input.tools) = "auto"
    /\ input.parser # "none"
    /\ gen.syntax = "calls"

\* generate, as far as tool calls go.
GenerationOutput(input, gen) ==
    LET parses == ParsesCalls(input, gen)
    IN [syntax |-> IF parses THEN "none" ELSE gen.syntax,
        visible |-> IF parses THEN "none" ELSE gen.visible,
        written |-> gen.written,
        finish |-> IF parses /\ gen.finish = "stop" THEN "tool_calls" ELSE gen.finish,
        calls |-> IF parses THEN gen.written ELSE <<>>]

---------------------------------------------------------------------------
(* The environment: is the output fit to be shown to the runtime? *)

\* _looks_like_unparsed_tool_call, of a parser whose syntax is the tag
\* <tool_call>, such as the configured one.
LooksLikeUnparsedToolCall(output) == output.finish = "tool_calls" \/ output.syntax # "none"

\* Slip: only what was parsed is validated.
ValidateParsedOnly(output, input) ==
    \E c \in ToSet(output.calls) : c.args # "object"

\* _validate_generation_tool_calls finds an invalid call.
InvalidToolCall(output, input) ==
    IF output.calls = <<>>
      THEN /\ input.tools /\ input.choice # "none"
           /\ LooksLikeUnparsedToolCall(output)
      ELSE \E c \in ToSet(output.calls) : c.args # "object"

\* _is_normal_finish_action of the OpenHands environment.
IsNormalFinishAction(output) == \E c \in ToSet(output.calls) : c.name = "finish"

---------------------------------------------------------------------------
(* The adapter: from the output to the response. *)

\* _split_reasoning_text: the syntax that is left in the text of the response.
SplitReasoningText(context, output) ==
    IF ReasoningParser # "none" /\ context.separate THEN output.visible ELSE output.syntax

\* _resolve_tool_calls falls back on a parse of its own.
ParsesAgain(context, output) ==
    /\ output.calls = <<>>
    /\ context.tools /\ context.choice # "none"
    /\ GenerationInput(context).parser # "none"

\* build_response raises: nothing catches the parser here.
BuildResponseRaises(context, output) ==
    ParsesAgain(context, output) /\ SplitReasoningText(context, output) = "raises"

\* The tool calls of build_response.
ResponseCalls(context, output) ==
    IF ParsesAgain(context, output) /\ SplitReasoningText(context, output) = "calls"
      THEN output.written ELSE output.calls

\* build_response: the tool calls and the finish reason the runtime is told.
BuildResponse(context, output) ==
    LET calls == ResponseCalls(context, output)
    IN [calls |-> calls,
        finish |-> IF calls # <<>> /\ output.finish = "stop" THEN "tool_calls" ELSE output.finish]
============================================================================
