----------------------------- MODULE Tokenizers -----------------------------
(* The tokenizers of the crates tokenizer-*: what each registers itself as, *)
(* and the order in which a parser asks those that it has.  A tokenizer is  *)
(* known by its type, its name, its priority and the optional hooks it has: *)
(*   containing     its blocks have blocks inside (is_containing_block)     *)
(*   interrupts     eat_and_interrupt_previous_sibling                      *)
(*   continues      eat_continuation_text                                   *)
(*   lazy           eat_lazy_continuation_text                              *)
(*   closes         on_close                                                *)
(*   rebuilds       extract_phrasing_content_lines, build_block_token       *)
(*   pairs          is_delimiter_pair, process_delimiter_pair               *)
(*   singles        process_single_delimiter                                *)
(*   children       its parse hook asks for the nodes of the tokens inside  *)
EXTENDS Integers, Sequences, FiniteSets, SequencesExt

Tokenizer(type, name, priority, hooks) ==
  [type |-> type, name |-> name, priority |-> priority, hooks |-> hooks]

\* TokenizerPriority
Atomic == 10
FencedBlock == 10
ContainingBlock == 10
InterruptableBlock == 2
LinkPriority == 3
ContainingInline == 2
InterruptableInline == 2
SoftInline == 1
FallbackPriority == -1

-----------------------------------------------------------------------------
(* Block tokenizers *)

AdmonitionTokenizer ==
  Tokenizer("block", "admonition", FencedBlock, {"containing", "continues", "closes", "children"})

BlockquoteTokenizer ==
  Tokenizer("block", "blockquote", ContainingBlock,
            {"containing", "interrupts", "continues", "children"})

DefinitionTokenizer == Tokenizer("block", "definition", Atomic, {"continues", "closes"})

EcmaImportTokenizer == Tokenizer("block", "ecmaImport", Atomic, {})

FencedCodeTokenizer == Tokenizer("block", "fencedCode", FencedBlock, {"interrupts", "continues"})

FootnoteDefinitionTokenizer ==
  Tokenizer("block", "footnoteDefinition", ContainingBlock,
            {"containing", "continues", "closes", "children"})

HeadingTokenizer == Tokenizer("block", "heading", Atomic, {"interrupts"})

HtmlBlockTokenizer == Tokenizer("block", "html", Atomic, {"interrupts", "continues"})

IndentedCodeTokenizer == Tokenizer("block", "indentedCode", Atomic, {"continues"})

ListTokenizer ==
  Tokenizer("block", "listItem", ContainingBlock,
            {"containing", "interrupts", "continues", "children"})

MathTokenizer == Tokenizer("block", "math", FencedBlock, {"interrupts", "continues"})

ParagraphTokenizer ==
  Tokenizer("block", "paragraph", FallbackPriority, {"continues", "lazy", "rebuilds"})

SetextHeadingTokenizer == Tokenizer("block", "setextHeading", Atomic, {"interrupts"})

TableTokenizer == Tokenizer("block", "table", InterruptableBlock, {"interrupts", "lazy"})

ThematicBreakTokenizer == Tokenizer("block", "thematicBreak", Atomic, {"interrupts"})

-----------------------------------------------------------------------------
(* Inline tokenizers *)

AutolinkTokenizer == Tokenizer("inline", "autolink", Atomic, {"singles"})

AutolinkExtensionTokenizer ==
  Tokenizer("inline", "autolinkExtension", LinkPriority, {"singles", "children"})

BreakTokenizer == Tokenizer("inline", "break", SoftInline, {"singles"})

DeleteTokenizer == Tokenizer("inline", "delete", ContainingInline, {"pairs", "children"})

EmphasisTokenizer == Tokenizer("inline", "emphasis", ContainingInline, {"pairs", "children"})

FootnoteTokenizer == Tokenizer("inline", "footnote", LinkPriority, {"pairs", "children"})

FootnoteReferenceTokenizer == Tokenizer("inline", "footnoteReference", Atomic, {"singles"})

HtmlInlineTokenizer == Tokenizer("inline", "html", Atomic, {"singles"})

ImageTokenizer == Tokenizer("inline", "image", LinkPriority, {"pairs", "children"})

ImageReferenceTokenizer == Tokenizer("inline", "imageReference", LinkPriority, {"pairs", "children"})

InlineCodeTokenizer == Tokenizer("inline", "inlineCode", Atomic, {"singles"})

\* The option backtick_required gives it another name, priority and hooks.
InlineMathTokenizer(backtickRequired) ==
  IF backtickRequired THEN Tokenizer("inline", "inlineMathBacktick", Atomic, {"singles"})
  ELSE Tokenizer("inline", "inlineMath", InterruptableInline, {"pairs"})

LinkTokenizer == Tokenizer("inline", "link", LinkPriority, {"pairs", "children"})

LinkReferenceTokenizer ==
  Tokenizer("inline", "linkReference", LinkPriority, {"pairs", "singles", "children"})

TextTokenizer == Tokenizer("inline", "text", FallbackPriority, {"singles"})

-----------------------------------------------------------------------------
(* Registration *)

\* The name that asks for no place in particular.
Anywhere == ""

\* A mutant of InsertIndex that puts a tokenizer before its equals.
InsertIndexBeforeEquals(list, priority, before) ==
  LET ahead(i) == list[i].name = before \/ priority >= list[i].priority
  IN CHOOSE i \in 1..(Len(list) + 1) :
       (i <= Len(list) => ahead(i)) /\ \A j \in 1..(i - 1) : ~ahead(j)

\* calc_insert_index: before the tokenizer named or the first of lower
\* priority, whichever comes first.
InsertIndex(list, priority, before) ==
  LET ahead(i) == list[i].name = before \/ priority > list[i].priority
  IN CHOOSE i \in 1..(Len(list) + 1) :
       (i <= Len(list) => ahead(i)) /\ \A j \in 1..(i - 1) : ~ahead(j)

Inserted(list, tokenizer, before) ==
  LET at == InsertIndex(list, tokenizer.priority, before)
  IN SubSeq(list, 1, at - 1) \o <<tokenizer>> \o SubSeq(list, at, Len(list))

NamesOf(list) == [k \in DOMAIN list |-> list[k].name]

\* The order that a parser built in gives to tokenizers it registers in turn.
Ordered(tokenizers) ==
  FoldLeft(LAMBDA list, tokenizer : Inserted(list, tokenizer, Anywhere), <<>>, tokenizers)

\* register_builtin_tokenizers
YozoraBlocks ==
  Ordered(<<IndentedCodeTokenizer, HtmlBlockTokenizer, SetextHeadingTokenizer,
               ThematicBreakTokenizer, BlockquoteTokenizer, ListTokenizer, HeadingTokenizer,
               FencedCodeTokenizer, AdmonitionTokenizer, MathTokenizer,
               FootnoteDefinitionTokenizer, DefinitionTokenizer, EcmaImportTokenizer,
               TableTokenizer>>)

YozoraInlines ==
  Ordered(<<HtmlInlineTokenizer, InlineMathTokenizer(TRUE), InlineCodeTokenizer,
               AutolinkTokenizer, AutolinkExtensionTokenizer, BreakTokenizer, FootnoteTokenizer,
               FootnoteReferenceTokenizer, ImageTokenizer, ImageReferenceTokenizer, LinkTokenizer,
               LinkReferenceTokenizer, InlineMathTokenizer(FALSE), EmphasisTokenizer,
               DeleteTokenizer>>)

\* register_gfm_tokenizers
GfmBlocks ==
  Ordered(<<IndentedCodeTokenizer, HtmlBlockTokenizer, SetextHeadingTokenizer,
               ThematicBreakTokenizer, BlockquoteTokenizer, ListTokenizer, HeadingTokenizer,
               FencedCodeTokenizer, DefinitionTokenizer>>)

GfmInlines ==
  Ordered(<<HtmlInlineTokenizer, InlineCodeTokenizer, AutolinkTokenizer, BreakTokenizer,
               ImageTokenizer, ImageReferenceTokenizer, LinkTokenizer, LinkReferenceTokenizer,
               EmphasisTokenizer>>)

\* register_gfm_ex_tokenizers
GfmExBlocks ==
  Ordered(<<IndentedCodeTokenizer, HtmlBlockTokenizer, SetextHeadingTokenizer,
               ThematicBreakTokenizer, BlockquoteTokenizer, ListTokenizer, HeadingTokenizer,
               FencedCodeTokenizer, DefinitionTokenizer, TableTokenizer>>)

GfmExInlines ==
  Ordered(<<HtmlInlineTokenizer, InlineCodeTokenizer, AutolinkTokenizer,
               AutolinkExtensionTokenizer, BreakTokenizer, ImageTokenizer,
               ImageReferenceTokenizer, LinkTokenizer, LinkReferenceTokenizer, EmphasisTokenizer,
               DeleteTokenizer>>)

\* create_processor_hook_groups_with_apis: the runs of one priority.
GroupsOf(list) ==
  LET starts == {k \in DOMAIN list : k = 1 \/ list[k - 1].priority # list[k].priority}
      group(k) == SubSeq(list, k, CHOOSE e \in k..Len(list) :
                                    /\ \A j \in k..e : list[j].priority = list[k].priority
                                    /\ e = Len(list) \/ e + 1 \in starts)
  IN [g \in 1..Cardinality(starts) |->
        group(CHOOSE k \in starts : Cardinality({j \in starts : j < k}) = g - 1)]
=============================================================================
