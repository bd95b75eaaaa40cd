---------------------------- MODULE JinjaBlocks ----------------------------
(***************************************************************************)
(* The search for the top level blocks of a file, its macros, snapshots,   *)
(* materializations or docs (core/dbt/clients/_jinja_blocks.py), which     *)
(* comes before Jinja itself reads it.                                     *)
(*                                                                         *)
(* A file is a sequence of tokens: the six markers of Jinja, quotes, the   *)
(* names in Names and anything else, with the blanks left out.  A position *)
(* is the number of the next token; a None instead of one is an error.     *)
(***************************************************************************)
EXTENDS Integers, SequencesExt

CONSTANTS None, Names

Quotes == {"'", "\""}

\* The first position of a token of a set, None when there is none
search(data, pos, tokens) ==
    LET at == {i \in pos..Len(data) : data[i] \in tokens} IN IF at = {} THEN None ELSE Min(at)

\* STRING_PATTERN: the end of the first string
string_end(data, pos) ==
    LET ends(i) == {j \in (i + 1)..Len(data) : data[j] = data[i]}
        at == {i \in pos..Len(data) : data[i] \in Quotes /\ ends(i) # {}}
    IN IF at = {} THEN None ELSE Min(ends(Min(at))) + 1

\* RAW_BLOCK_PATTERN: the end of the first raw block
raw_end(data, pos) ==
    LET tag(i, name) == i + 2 <= Len(data) /\ SubSeq(data, i, i + 2) = <<"{%", name, "%}">>
        at == {i \in pos..Len(data) : tag(i, "raw") /\ \E j \in (i + 3)..Len(data) : tag(j, "endraw")}
    IN IF at = {} THEN None ELSE Min({j \in (Min(at) + 3)..Len(data) : tag(j, "endraw")}) + 3

\* Mutant: the first closing marker counts, also in a string
StringsToo(data, pos, close) ==
    LET at == search(data, pos, {close}) IN IF at = None THEN None ELSE at + 1

\* handle_expr and _expect_block_close: the position after the closing marker,
\* which may not be in a string
RECURSIVE close_pos(_, _, _)
close_pos(data, pos, close) ==
    LET at == search(data, pos, Quotes \cup {close})
        string == string_end(data, at)
    IN CASE at = None -> None
         [] at # None /\ data[at] = close -> at + 1
         [] OTHER -> IF string = None THEN None ELSE close_pos(data, string, close)

\* BLOCK_START_PATTERN, COMMENT_START_PATTERN and EXPR_START_PATTERN
starts(data, pos) ==
    {i \in pos..Len(data) : \/ data[i] \in {"{#", "{{"}
                            \/ data[i] = "{%" /\ i < Len(data) /\ data[i + 1] \in Names}

\* handle_tag: the tag that starts at a position
handle_tag(data, at) ==
    LET name == IF at + 1 < Len(data) /\ data[at + 2] \in Names THEN data[at + 2] ELSE None
    IN [block_type_name |-> data[at + 1], block_name |-> name, start |-> at,
        end |-> IF data[at + 1] = "raw" THEN raw_end(data, at)
                ELSE close_pos(data, at + (IF name = None THEN 2 ELSE 3), "%}")]

\* TagIterator.find_tags: the tags, None when it raises
RECURSIVE find_tags(_, _, _)
find_tags(data, pos, tags) ==
    IF pos = None THEN None
    ELSE IF starts(data, pos) = {} THEN tags
    ELSE LET at == Min(starts(data, pos))
             tag == handle_tag(data, at)
             comment_end == search(data, at + 1, {"#}"})
         IN CASE data[at] = "{#" -> find_tags(data, IF comment_end = None THEN None ELSE comment_end + 1, tags)
              [] data[at] = "{{" -> find_tags(data, close_pos(data, at + 1, "}}"), tags)
              [] data[at] = "{%" -> find_tags(data, tag.end, Append(tags, tag))

CONTROL_FLOW_TAGS == [if |-> "endif", for |-> "endfor"]
END_TAGS == [macro |-> "endmacro", docs |-> "enddocs"]

\* One tag in BlockIterator.find_blocks
find_block(s, data, tag, allowed_blocks, collect_raw_data) ==
    LET type == tag.block_type_name
        flow == type \in Range(CONTROL_FLOW_TAGS)
        stack == CASE type \in DOMAIN CONTROL_FLOW_TAGS -> Append(s.stack, type)
                   [] flow /\ s.stack # <<>> -> Front(s.stack)
                   [] OTHER -> s.stack
        raw == SubSeq(data, s.last_position, tag.start - 1)
        raises == \/ flow /\ (s.stack = <<>> \/ CONTROL_FLOW_TAGS[Last(s.stack)] # type)
                  \/ type \in allowed_blocks /\ (stack # <<>> \/ s.current # None)
    IN IF s.raises \/ raises THEN [s EXCEPT !.raises = TRUE]
       ELSE IF type \in allowed_blocks
       THEN [s EXCEPT !.stack = stack, !.current = tag,
                      !.last_position = IF collect_raw_data THEN tag.start ELSE @,
                      !.blocks = IF collect_raw_data /\ raw # <<>> THEN Append(@, [type |-> "__dbt__data", full_block |-> raw]) ELSE @]
       ELSE IF s.current # None /\ type = END_TAGS[s.current.block_type_name]
       THEN [s EXCEPT !.stack = stack, !.current = None, !.last_position = tag.end,
                      !.blocks = Append(@, [type |-> s.current.block_type_name, name |-> s.current.block_name,
                                            contents |-> SubSeq(data, s.current.end, tag.start - 1),
                                            full_block |-> SubSeq(data, s.current.start, tag.end - 1)])]
       ELSE [s EXCEPT !.stack = stack]

\* extract_toplevel_blocks: the blocks in order, None when it raises
extract_toplevel_blocks(data, allowed_blocks, collect_raw_data) ==
    LET tags == find_tags(data, 1, <<>>)
        init == [stack |-> <<>>, current |-> None, last_position |-> 1, blocks |-> <<>>, raises |-> FALSE]
        end == FoldLeft(LAMBDA s, tag : find_block(s, data, tag, allowed_blocks, collect_raw_data), init, tags)
        raw == SubSeq(data, end.last_position, Len(data))
    IN IF tags = None THEN None
       ELSE IF end.raises \/ end.current # None THEN None
       ELSE IF collect_raw_data /\ raw # <<>> THEN Append(end.blocks, [type |-> "__dbt__data", full_block |-> raw])
       ELSE end.blocks
=============================================================================
