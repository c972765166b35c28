# mcluac, modelled

`mcluac` is a Lua 5.4 to bytecode compiler written in C: it reads a script in
chunks, makes a list of tokens, lets plug-ins look at them, parses them into a
tree, lets plug-ins look at that, compiles the tree into function objects and
writes them as a chunk file. It is sequential: one thread, no signals, no
state kept between two runs. What is hard about it is elsewhere: one arena that
everything shares and that may run out between any two steps, hash tables with
open addressing, and a one-pass code generator whose registers, jumps, break
lists, labels and upvalue chains must agree at the end of a long sequence of
statements that no test lists in full.

The specifications model that: long sequences of legal operations, boundaries of
fixed-size tables, and the failure of any one step. All paths below are in
`src/src/` of the repository.

## 1. The system

| component | source | state | operations | uses |
|---|---|---|---|---|
| arena | `heap/mcheap.c` | two ends of one buffer, a free count | init, static and managed reserve, resize | - |
| string table | `strtbl/mcstrtbl.c` | slots, character pool | intern (lookup, then insert) | arena (static) |
| file and string wrappers | `mcf/mcfs.c`, `mcf/mcstr.c` | an open file | read a chunk, write bytes | libc |
| string objects | `lib/mclstr.c` | bytes of one object | alloc, append | arena |
| lexer | `lex/mclex.c` | chunk, position, token list | next token, literals, identifiers | file, string table, arena |
| syntax tree | `lib/mclast.c` | nodes with child arrays | alloc, append child | arena |
| parser | `parse/mcparse.c` | position in the token list | one function a production | tokens, tree |
| function objects | `lib/mclfunc.c` | code, constants and their index, upvalues, nested functions | emit, constant, upvalue, proto | arena |
| compiler | `compile/mccompile.c` | an `MCComp` for every function being compiled | one handler a node type | tree, functions, string table, arena |
| plug-in loader | `visitors/mcxt.c` | open libraries, two counts | load, run, free | dlopen, plug-ins |
| plug-ins shipped | `visitors/tokens`, `visitors/ast` | a bracket stack; none | init, visit, deinit | tokens, tree |
| driver and dumper | `compile/mcluac.c` | an output buffer, stage of the run | main, compile file, dump | all of the above |
| instruction formats | `lib/mclops.h` | - | encode and decode macros | - |
| configuration, VM | `vm/` | constants; nothing built | check a configuration | - |

How they interact: calls only, all of them synchronous. The shared state is the
arena, and in it the objects, which the callers name by the address of their
header so that a resize may move the bytes. Names are compared by the pointer the
string table gave out, from the lexer down to the compiler's list of locals. The
plug-ins are callbacks: the loader calls `init`, `visit` for each token or node,
and `deinit`, and any of them may refuse.

What makes each part correct:

* **arena**: no two objects and no header overlap; growing keeps the contents;
  new memory reads as zero; the free count is the free space.
* **string table**: equal names, equal pointers; nothing is lost when names
  collide or the pool runs out; every call returns.
* **function objects**: one index for one constant, through growth of two arrays
  either of which may fail; the search loops find an empty slot.
* **compiler**: every jump lands where its construct wants it; active locals are
  not overwritten by temporaries; an upvalue chain ends at the innermost variable
  of its name; `max_stack` is enough; a script that could not be compiled in full
  is not returned.
* **loader and driver**: what was set up is torn down, what was opened is closed,
  whatever failed; exit code 0 means that the whole chunk is in the file.
* **parser**: the tree says what the text says, operators group by their rank, a
  text with an error has no tree, and every parse ends.
* **lexer**: the tokens are the longest pieces the grammar knows, they do not
  depend on where the chunks end, and success means that the whole text was read.
* **expressions**: the code computes what the expression means, evaluates in
  order, leaves other locals alone, and counts the registers it uses.
* **plug-ins shipped**: every bracket is joined to its partner; nothing that can run
  is removed.
* **instruction formats, chunk**: what was packed or written is what is read back.

## 2. The modules

```
HeapStore   what a store of separate byte sequences promises
  ^ refines
MCHeap      the arena                          MC_Heap: TLC instance
  ^ extends
MCHeap_proofs   its theorems

MCStrTbl    string table      MCConsts   constants of a function
        \                      /
         MCNames   a name on its way from the lexer into a function
            MC_Names: TLC instance     MCNames_proofs: theorems

MCLexInput  the input buffer and its chunks
  MCLex     the lexer
    MCLexProps   a grammar of tokens; the lexer on a file implements that in memory
      MC_Lex: TLC instance      MCLex_proofs: theorems

MCParse     the parser, its nodes and the room they take
  MCBrackets    the bracket checker, a plug-in on the tokens
    MCParse_proofs: theorems about both
  MCParseProps  what the tree owes to the text
        \           (and MCBrackets)
         MCVisitors   the remover of unreachable code, a plug-in on the tree
            MC_Parse: TLC instance

MCOps       instruction words                  theorems in MCLuac_proofs
  MCExp     the expression compiler     LuaValues  values of Lua (external)
    LuaVM   a machine for its code (external)
      MCExpProps  what a statement means  <-- LuacChunk  the chunk file
                                              LuaUndump  its reader (external)
        MC_Exp: TLC instance

MCCompState  functions, registers, jumps, names, expressions (helpers)
   MCComp    the statement handlers
     MCCompProps   what the bytecode must satisfy
        MC_Comp: TLC instances    MCComp_proofs: theorems
                                    MCBranch_proofs: theorems about branches

NatSteps    computations in steps: what the proofs know of recursive functions

MCXt  plug-in loader          LuacBfr  output buffer
        \                      /
         MCLuac   main, from the command line to the exit code
            MC_Luac: TLC instance      MCLuac_proofs: theorems
```

Operators marked `\* mutant` are plausible mistakes. No action uses one: each
stands beside the definition it is a mistake in, and replacing that by it breaks
the property the mistake is recorded with in `PROJECT.json`.

### The arena: `MCHeap`, `HeapStore`

`data_top`, `head_bot` and `managed_cap` are the fields of `MCHeap`; `objs` is
what callers hold (for a managed object its header, for a static area the
pointer); `mem` is the buffer. `StaticReserve`, `ManagedReserve` and
`ManagedResize` are the three functions of `mcheap.c`; `Write` is any caller that
stores a byte in its own object. A call that returns NULL or 1 changes nothing
and is no step. `managed_cap` is a `u64` and wraps at the constant `U64`.

`LateStatic` separates two ways the arena is used. `luac_init` reserves its static
areas (token, label and scratch buffers, the string table) before any object
exists: `LateStatic = FALSE`. `mccomp_init` also reserves static areas, and
`mccomp_proto` calls it for every nested function, when objects exist:
`LateStatic = TRUE`.

`HeapStore` is the abstract specification: a list of byte sequences, `New`,
`Grow`, `Write`. `ImplementsStore` says that the arena implements it under the
mapping `Contents` (object `o` is read through its header's `data`).

### Names: `MCStrTbl`, `MCConsts`, `MCNames`

A call of `mcstrtbl_intern` is not atomic in `MCStrTbl`: `Intern` begins it, and
every round of a probing loop is a step (`ProbeOn`), so that the question whether
it returns makes sense. The pool is an offset; two pointers are equal exactly
when the offsets are. `names` is a history variable.

`MCConsts` is the constant array and its index. A call is one step there, since
its loops are bounded by an empty slot if there is one; that is what `RoomLeft`
states. Three C functions (integers, floats, strings) have the same shape and are
one operator; `Same` is their comparison, which includes the type because a value
of `Values` does. `ConstRefused` is a failure of `array_ensure` after the index
may already have grown.

`MCNames` composes them: the lexer and the compiler intern, and the compiler
turns interned names and integers into constants, calls alternating in any order.

### The parser: `MCParse`, `MCParseProps`

A recursive descent parser is its C stack. `agenda` is that stack as the steps
still to be taken, the innermost first: `Enter` replaces a call by the steps of its
function, in the order of the code (take a token, allocate, call, push), and what a
function decides by the current token is a call of its own (`parse_forkind`). So a
production is an operator of a few lines, and the place of each allocation among the
tokens, on which its failure depends, is kept. `nodes` are the C locals that hold
nodes.

`pos`, `error` and `CURTKN` are the fields of `ParseState`; `root` is what is left in
`nodes` when the agenda is empty. The token array is chosen while it is read:
`text` is the part seen so far. A Token* that is held before it goes into a node
lies on `nodes` as a node of type `token`.

`ReturnNull` is every `return NULL`: it takes all callers with it up to the
`parse_block` that called `parse_stat` (the item `keep`), where only the error flag
makes it go on. Whether an allocation fails is not a choice: `room` is what
is left of the arena, and a node takes the words that `mclast_alloc` and
`mclast_push_child` ask for.

`lost` (an allocation has failed), the field `paren`, and `at` for the nodes of
`nil`, `true`, `false` and `...` are history.

### The lexer: `MCLexInput`, `MCLex`, `MCLexProps`

`in` is the input buffer: `buf` and `idx` are `input` and `curr_char_idx`, `fpos` is
the place in the file. `mclex_peek` and `mclex_advance` fill the buffer before they
look; a script in memory is a buffer that is full from the start. One action is one
round of a loop of `mclex.c` (`mode` says of which) or the decision at the start of a
token. `w.bfr` is `wordscratch`, `w.str` the string object a literal is moved to piece
by piece. `fails` says which of interning, allocation and growth fail in a run.
`pieces`, `from` and `lost` are history.

`MCLexProps` defines tokens without saying how they are read: a long literal, for
instance, begins with a bracket of some level and has no closing bracket of that
level but at its end. `PiecesAreTokens` compares every piece and its value with that.
`Whole` is the lexer on the same text in memory, at the same place.

### The visitors: `MCBrackets`, `MCVisitors`

Both are operators on what the parser's run has reached: `tkv_run` calls
`mctbc_visit` of the bracket checker for one token after the other, and `astv_walk` cuts every block on
its way down. What can run is defined on the tree by itself (`Running`): the first
statement of a block, and what stands behind a statement that control may leave.

### Expressions: `MCOps`, `MCExp`, `LuaVM`, `LuaValues`, `MCExpProps`

`MCExp` is the code generator of `mccompile.c:184-883` and of the statements that
consist of expressions (return, assignment, an `if` with one clause): mutually
recursive operators, one for a C function, on a record with the fields of `MCComp`
(`code`, `freereg`, `maxreg`, `error`) and `r`, the returned register. `room` is what
the heap grants. Instructions are words made by `MCOps`, the macros of `mclops.h`,
with the sizes of the fields as constants, so operands that do not fit are cut.

`CompileStat` is one step. Then `LuaVM`, a machine for the instructions of Lua 5.4 that
expressions use, runs the code, one instruction a step. `MCExpProps` gives the
meaning of the same statement without registers (`Meaning`), and `CodeComputes`
compares them: values, calls with their arguments and order, tables, locals, errors.
Both know numbers, strings and booleans as far as comparing and naming operations
needs; calls are events in `world`. `LuaVM`, `LuaValues` and `LuaUndump` are external:
they stand for Lua 5.4, which the program compiles for.

### The chunk: `LuacChunk`, `LuaUndump`

The dump functions of `mcluac.c` as the sequence of units they put: a byte, an
instruction word, a number, a character. Bytes of words and numbers are left out.
`ChunkReadsBack` writes a function with two nested ones for the code at hand and reads
it with `LuaUndump`.

### The compiler: `MCCompState`, `MCComp`, `MCCompProps`

The handlers recurse over the tree. In the model the tree is chosen one
statement at a time: a handler without a block is one action; a handler with a
block is an action for what comes before it (`WhileStart`) and one for what comes
after (`WhileEnd`), and the actions in between are the block's statements.

* `fs` is the stack of `MCComp` records, parent first. The fields have the names
  of the C fields: `code`, `locals`, `nactive`, `freereg`, `breaks` (of length
  `nbreaks`), `in_loop`, `labels`, `gotos`, `error`, `has_tbc`, `has_capture`,
  `upvals`, `num_params`, `is_vararg`, `max_stack`.
* `ctl` is the C stack: a frame holds what an open handler keeps in its C locals
  (`saved`, `sbreaks`, `top`, the jump of its condition, the jumps at the end of
  its clauses, `base`, `prep`).
* `phase` is what `mccomp_run` will return. `"wild"` is the end of a run in which
  the code writes outside the function (see section 5).
* `heap` is what the arena still grants; `HeapRunsShort` may change it between
  two statements. `"full"`: no request succeeds. The others let small requests
  succeed, but an array does not grow: that of the constants in `"tight"`, that of
  the upvalues in `"short"` (`Stuck`), neither in `"lean"`; the runs have the first
  two, the theorems all. A record of the compiler is not in the model apart from that.
* `upvals` holds every capture of a function, in order. The array of the code has 256
  places and `num_upvals` is a byte: `UpPlace` is the place a capture was written to, and
  `NumUpvals` how many of the last ones the code sees when it looks a name up.

`lost`, `owed`, `lands` and `jumps` are history: no guard reads them. `lost` is the set of
the kinds of things that are missing (an instruction, a test, a name, a capture, ...); the
others record what a statement promised (this break must land where that loop ends), which
the emitted code is compared with.

In these modules four expressions stand for all (`MCExp` has them all): a constant,
a name, a call and `...`. They cover what statements depend on: one value or several, a register or none, a capture or
none, a failure or none. Constants have no value and no index; assignment is to
names. Arithmetic on `u8` fields (`nactive`, `freereg`, `in_loop`, `num_upvals`) wraps at `U8`.

### The driver: `MCXt`, `LuacBfr`, `MCLuac`

`MCXt` holds the slots of the loader, with `opened` standing for the loader's own
count of a library, and runs a visitor hook by hook. `LuacBfr` is the output
buffer: bytes are numbered in the order they are produced, so that a lost or
swapped byte is seen. `MCLuac` is `main` and `luac_compile_file`, with `stage` as
the place the code has reached. Lexing, parsing and compiling succeed or fail here;
their modules say when.

## 3. The runs

| run | question | bounds |
|---|---|---|
| `heap` | Do objects, headers and the free count stay right, and is the arena a store? | 8 bytes, headers of 1 byte, lengths 0, 1 and 3, two byte values, 4 objects |
| `heap_late` | Is the same true when static areas come after objects? *violated* | 8 bytes, headers of 2, 3 objects |
| `comp_blocks` | Do jumps land and do locals keep their registers in nested loops and branches? | 4 statements out of local, assign, call, while, repeat, for-in, if, break, goto, label; 5 open handlers; one or three names, fed by a call or by two values; const locals; bytes of 3 bits with 8 locals and 7 breaks, so that `nactive` and `freereg` wrap |
| `comp_scopes` | Does every upvalue lead to its variable, also when the making of others failed or too many were made? | 5 statements of local, assign, local function, do; two names and `_ENV`; 3 functions deep; from any statement on arrays of upvalues may fail to grow; bytes that wrap at 3, so that a function has its places for upvalues overwritten by the fourth |
| `comp_oom` | Is an incomplete script ever returned without an error, but for what section 5 names, and do loop instructions pair? | 4 statements of local (to be closed), all loops, return, break, functions; conditions on a name; 3 functions deep; one pending break; between any two statements the arena may fill up, or have no room for another constant |
| `comp_forbreak` | The same as the first for a break in a numeric for. *violated* | 4 statements |
| `lex` | Are the tokens those of the grammar, do chunks not show, does 0 mean the whole text, does lexing end? | every text of up to 3 to 12 characters over 11 sets of 2 to 8 characters, one for each part of the lexer, in memory and in chunks of 1 and 2 characters; `MAX_IDLEN` 4, `MAX_STR_LEN` 5, 3 tokens; interning, allocation or growth may fail |
| `parse` | Does the tree say what the text says, does no error get lost, does the parser end, and do the visitors pair and cut right? | every text of up to 6 to 11 tokens over 14 sets of 5 to 9 tokens, one for each part of the grammar, with ample room; texts of 5 to 11 tokens in heaps of 35 to 112 words; brackets nested 2 deep |
| `exp` | Does the code compute what the statement means, in every heap, and does the chunk read back? | some 21000 statements with their values: every operator over pairs of operands, logical operators nested 3 deep, calls, tables of up to 3 fields, assignments to up to 3 targets; operands of 5 bits, 2 values a SETLIST, 4 locals; heaps of 0 to 9 instructions and 0 to 4 constants; sizes in groups of 2 bits, short strings of up to 2 characters |
| `names` | Is a name one pointer and one constant, and does every call return? | 5 names, three of which belong in the last slot, 4 slots, a pool of 7 bytes; 2 integers, one with the hash of a name; arrays that start at 2 and 4 |
| `names_full` | Does intern return when the table is full? *violated* | 2 slots |
| `luac` | Is everything cleaned up, and does 0 mean a whole file? | up to 2 + 2 plug-ins (one library twice), 3 slots, 2 visits, a buffer of 3 bytes, pieces of 0, 1, 2 and 5 bytes, 7 bytes and a last piece |

**Why the bounds are enough.** In the arena two objects can overlap only pairwise, a
resize involves one object and the top, and 8 bytes let the ends meet after each
kind of call: with lengths 0, 1, 3 there are exact fits, off-by-ones and empty
objects. For the theorems of section 4 no bound is needed. In the compiler a
jump can go wrong only when a construct is inside, before or behind another, and
four statements give every pair of them with a break or goto at three depths; the
capture of a name needs three functions to have a level that only passes it on,
and five statements to declare it, capture it, shadow it and read it again. In
the names run the index has to grow twice (7/10 of 4, of 8), the array twice, and
the table has to wrap at its last slot. In the parser a set of tokens belongs to one part
of the grammar and its length is that of the shortest text with all of that part, or of
two of its constructs one inside the other; the heaps differ by
less than a node or two, so that allocations fail throughout such a text, when a list
grows and in a call. In the lexer's run a chunk of one character ends at every place
of a text, and a scratch buffer of 4 with literals of 5 makes words, numbers
and literals meet each limit; literals are long enough to be moved three times. In
the expressions' run every operator meets every kind of operand (a local, a constant, a
call) on each side, a table is flushed before and at its end, integers lie on both sides of
what LOADI and the K forms hold, and a heap is tried for each instruction that may be
the first that does not fit. In the driver's run each buffer case (fits, exactly
fits, flushes, bypasses) occurs with an empty and a full buffer.

**Deadlock.** The lexer, the parser, the compiler, the machine, the driver and the arena
end: the tree is handed out, the script has been compiled, the program has exited, the arena is used up. `CHECK_DEADLOCK FALSE` is
set for them. The `names` runs check for deadlock.

**Fairness.** `MCNames` assumes `WF` of the steps of a running `mcstrtbl_intern`, and
`MCLex`, `MCParse` and `MCExpProps` `WF` of their next step. The program is sequential, so nothing can take
the processor from a call that has begun but its own next instruction; no fairness
is assumed for beginning a call. All other properties are safety.

### What the runs show

* The arena, the index of constants, the plug-in loader and the output buffer do
  what they should, at every boundary and after every failure.
* The break, condition and goto jumps of all constructs but the numeric for land
  where they should.
* Upvalues are cached by name. This is safe: a local function cannot be compiled
  further once its enclosing block has changed the meaning of a name, and
  `UpvalsDenote` holds whatever was shadowed, also when a capture fails half way: the
  outer functions get their upvalues before the inner ones, and the first that cannot ends it.
* A full arena cannot lead to incomplete bytecode from any statement, because the
  error flag of each function is read by its `mccomp_body`, and the failure of a
  nested function fails its parent.

* The parser's tree is the text: every token read is in it once, in its place, also
  where a list outgrows its node or the position is set back. Where the heap runs out
  statements may be missing (section 5), but what is there is made of tokens read,
  in order. The parser can fail to end in one way only, a heap without room for the
  nodes of a function statement.
* The lexer reads a file in chunks as it reads the same text in memory, wherever a chunk
  ends, and its tokens are the longest pieces. It always ends.
* Expressions compute what they mean, in order, with the registers they count, and a
  short heap either refuses a statement or changes nothing in its code. The instances
  leave out what section 5 lists under expressions.
* The bracket checker refuses what is nested too deep and nothing else of what parses,
  and joins brackets of one kind although it does not compare kinds. The remover drops
  nothing that can run unless there is a label in what it drops.
* A chunk is read back as the functions it was written for.

### Disagreements found (the `violation` runs)

1. `mcheap.c:39`: a static area may be handed out over live headers, because the
   test compares with the end of the buffer and not with `head_bot`. It needs a
   script with nested functions in an arena that is almost full.
2. `mccompile.c:1156`: a break in a numeric for is reported as "break outside
   loop" and dropped, or leaves an outer loop.
3. `mcstrtbl.c:81`: interning a new name in a full table never returns, so the
   test for a full table at line 49 is never reached.

## 4. What is proved

For every value of the constants; a run shows the same on one instance.

| theorem | says |
|---|---|
| `MCHeap_proofs!TypeCorrect` | `Spec => []TypeOK`; in particular `managed_cap` never leaves `0 .. U64 - 1` and `data_top` never leaves the buffer |
| `MCHeap_proofs!Disjointness` | `Spec => []ObjectsDisjoint` |
| `MCHeap_proofs!HeaderSafety` | `Spec => []HeadersIntact`, also with late static areas |
| `MCHeap_proofs!EndsMeet` | `Spec /\ ~LateStatic => []EndsMeetAtMost` (the run `heap_late` shows why the assumption is needed) |
| `MCHeap_proofs!CapCounts` | `Spec /\ ~LateStatic => []ManagedCapCounts`: the free count is the buffer less what is in use |
| `MCHeap_proofs!Refinement` | `Spec /\ ~LateStatic => Store!Spec` |
| `MCNames_proofs!TableTypeCorrect` | `Spec => []StrTypeOK`: the counters count, the pool never overflows |
| `MCNames_proofs!OneNameOnePointer` | `Spec => []NamesAreOne` |
| `MCNames_proofs!StoredIsFound` | `Spec => []WordsFound` |
| `MCNames_proofs!SearchEnds` | `Spec => []RoomLeft`: a probe of the index of constants meets an empty slot |
| `MCNames_proofs!EachConstantOnce` | `Spec => []ConstsFound`, through every growth and every failure |
| `MCComp_proofs!InductiveInv` | `Spec => []IInv`, on which the theorems below rest |
| `MCComp_proofs!TypeCorrect` | `Spec => []TypeOK` of the compiler |
| `MCComp_proofs!UpvaluesDenote` | `Spec => []UpvalsDenote` |
| `MCComp_proofs!CodeComplete` | `Spec => []CodeIsWhole` |
| `MCComp_proofs!RegistersInPlace` | `Spec => []RegInv` if `"fornum" \notin Kinds` |
| `MCComp_proofs!LocalsStay` | `Spec => []LocalsKept` if `"fornum" \notin Kinds`, for every limit of locals |
| `MCBranch_proofs!BranchInv` | `Spec => [](IInv /\ BInv)`, on which the next three rest |
| `MCBranch_proofs!JumpsStayInside` | `Spec => []JumpsInside` |
| `MCBranch_proofs!GotosLand` | `Spec => []GotosReachLabel` |
| `MCBranch_proofs!BranchesArrive` | `Spec => []BranchesLand` if `NoDrops`: no numeric for, and at most `MaxBreaks` statements |
| `MCParse_proofs!ErrorsReachTop` | `Spec => []ErrorsReach` |
| `MCParse_proofs!ParseTypeCorrect` | `Spec => []ParseTypeOK`: tokens are read up to the end and never past it, the heap is not overdrawn, open blocks keep their nodes |
| `MCParse_proofs!BracketsJoined` | `Spec => []BracketsPair`: of what parses, the checker refuses what is too deep and joins the rest bracket by bracket |
| `MCLex_proofs!InputSound` | the input buffer is a piece of the text, with the next character in it or none left |
| `MCLex_proofs!ChunksDoNotShow` | `LexSpec => LikeInMemory`: the lexer on a file implements the lexer in memory |
| `MCLex_proofs!RoundsCorrect` | `LexSpec => []RoundInv`: the inductive invariant of the rounds of the lexer |
| `MCLex_proofs!ZeroIsAll` | `LexSpec => []ZeroMeansAll`: code 0 is for a text read to its end, without a gap |
| `MCLex_proofs!LexTypeCorrect` | `LexSpec => []LexTypeOK`: what buffers, literals and the token array hold |
| `MCLuac_proofs!ABCkRoundTrip`, `ABxRoundTrip`, `AsBxRoundTrip`, `SJRoundTrip` | every operand that fits its field comes back, with its sign, for every size of the fields |
| `MCLuac_proofs!BufferKeepsOrder` | `Spec => []DumpInOrder` |
| `MCLuac_proofs!ZeroIsWhole` | `Spec => []ZeroMeansWhole` |
| `MCLuac_proofs!AllTornDown` | `Spec => []VisitorsTornDown` |
| `MCLuac_proofs!EveryoneVisited` | `Spec => []AllVisited` |
| `MCLuac_proofs!LibrariesClosed` | `Spec => []HandlesClosed` |

**The arena.** One assumption, `HeapAssumption`: the sizes are naturals, a header
is not empty, and the sum of the buffer, a header and any length asked for is
below `U64`, so that the sums in the C tests do not wrap. The arena has 256 MB
and lengths are at most `u32`, so the code justifies it.

`ObjectsDisjoint` is not inductive: nothing in it says where the next object
goes. `LayoutInv` adds that every object ends at or below `data_top`
(`BelowTop`), so a new one or a moved one, which starts there, is disjoint from
all; that managed objects end at or below `head_bot` and their headers lie above
it (`HeadersAbove`); and that headers are pairwise apart (`HeadersApart`). One
lemma for each action shows that `LayoutInv` is kept. It does not say
`data_top <= head_bot`, which is false with late static areas; the managed
operations test for it themselves, which is why `HeaderSafety` needs no
assumption about them.

`FreshInv` carries the refinement: without late static areas
`data_top <= head_bot`, and all bytes from `data_top` on are `Zero`, because
nobody writes above `data_top`. So a new object is a sequence of zeros (`New`), a
resize is a copy followed by zeros (`Grow`), and, by disjointness, a write
changes one byte of one object (`Write`). Each action has a lemma for its
abstract step.

`CapInv` adds to it the free count. The count alone is not inductive, since it wraps:
it stays above 0 because what the objects take (`Taken`, added up object after object)
is never more than what the two ends have moved; the bytes a resize leaves behind lie
between. The two sums agree as long as the ends do not pass each other, hence the same
hypothesis.

**The string table.** Assumed: a table of at least one slot, hashes are naturals,
and a name takes at least two bytes of the pool, since `mcstrtbl_intern` counts
the terminating zero and refuses the empty name (`StrTblAssumption`).
`TableInv` is about the call that runs: a lookup has passed, from the home of its
word, only occupied slots with other words (`LookupSound`). When it comes to an
empty slot, a stored copy of the word would lie behind that slot, which
`WordsFound` forbids, or before it, where the lookup has been (`NotThere`): so no
word is stored twice (`OneSlotEach`). While the word is inserted, it is nowhere in
the table and its place in the pool is nobody else's (`InsertSound`,
`PoolApart`). `DistCases` removes the remainders from the arithmetic of the ring.
The theorems hold for a full table too: what goes wrong there is that the call
does not return, not what it returns.

**The constants.** Assumed: hashes are naturals and the index starts with two slots or
more (`NamesAssumption`; 16 in the code, and an index of one slot would be full when its
first entry is in). `ConstInv` says of the index what `TableInv` says of the table: every
entry is reached from its hash over used slots, every constant has one entry and every
entry leads to its constant (`IndexOK`, `Indexes`). There are fewer constants than slots:
the index has grown before the array has, and the array may have failed to. A rehash is a
loop over the old slots; `RehashStep` is one round of it, and the invariant of the loop
says that the entries of the rounds so far are in, each once.

**The compiler.** Assumed: limits are naturals, `U8` is not 0, `MaxBreaks` is below it
(64 by default, and `nbreaks` is a byte) and the parts of a script
come from the sets given for them (`CompAssumption`, `ScriptAssumption`). No bound is
assumed for the depth, the length or the number of functions, for the number of
captures, or for that of locals: `MAX_LOCALS` is 256 by default, and `nactive` may wrap. `IInv` has these parts.

* `FsOK`: every function has the type `Comp`; whatever was lost is of a kind in `Unnoticed`, or the
  `error` flag is set (`Whole`), which is what `mccomp_body` reads; and `UpSound`: an upvalue is a captured local of
  the function around it, or one of its upvalues with the same name, which then is not
  a local there. The last clause is the one `UpvalsDenote` cannot do without: it fails as
  soon as the function around goes on, and that it cannot before the inner one has ended is what
  the frames say.
* `CtlOK`: a function has one frame, the frames of a function lie above it and below those of
  the next, and what a handler has saved is still there (`saved` and `sbreaks` are
  within the locals and breaks of its function). The windows of breaks of nested handlers nest, which
  is why a loop that patches its own and cuts the list does not cut those of another.
* `Delivered`: what was returned is one function and whole.

`Kept` and `Moved` say what a handler may do to a function: add code, use registers, raise flags. There
is one lemma for each helper, from `EmitIs` up to a list of expressions, and one for each action.
`UpvaluesDenote` then is an induction over the levels between a use and its declaration. It
speaks of functions with at most 256 captures each: the next one is written over the first (section 5), and
what then goes wrong in the functions inside is not excluded, but theirs alone: the premise
is about the way from a use to its declaration. `CodeComplete` has no such
premise. What a failed growth of an array does lose is part of the statement (`Unnoticed`,
section 5): a test or a name with the array of the constants, a capture with that of the
upvalues, never an instruction, a local or a function, and in a full arena nothing at all.

**Registers.** `LocalsKept` speaks of the innermost function between two statements; what a handler
finds when a block ends is what older handlers saved, so `RegInv` speaks of all of them. A local has the
register of its place in the list (`Straight`, also behind the active ones, where the next declaration
may find its place), nothing is reserved above the locals of the innermost function, and blocks nest: each has saved
no more locals than the one inside it, and the block of a generic for comes after its control registers
(`Nested`). Each helper is shown to leave the locals alone or to move both counts together
(`SameRegs`), and then each action. There is one hypothesis, no numeric
for: the locals of its body do take its registers (section 5). The limit of locals is free. With
the default of 256 it never fires, and `nactive` wraps at the 256th local: `freereg` wraps with it, so
that locals stay below it and apart, but a block may then have saved more locals than are left, and
the control registers of a generic for around it are given away. So what is said of
those, and `Nested`, is said of a function that never had 256 locals at a time (`Unwrapped`):
`locals` is an array whose filled part never shrinks, and its length tells.

**Branches.** A jump is emitted with distance 0 and patched later, by a handler that
remembered its place in a local variable, by the loop that takes its breaks from the shared list, or
by the label a goto waits for. `BInv` says that these do not get into each other's way; it holds
without further assumptions. For every open function (`Level`):

* `Traced`: `Owns` is the set of jumps that are waited for, each with what waits for it: the condition of
  a frame, an ended clause of a frame, a place in the list of breaks, a pending goto. `Apart` says that
  each is a jump in the code, that no two wait for the same one, and that none has landed already
  (a branch recorded in `lands`, or a goto at its label). So a patch changes a jump only its owner knows
  of, and what has landed stays (`LandsSound`, `GotosSound`). No jump points outside the
  code so far, or right behind it (`InBounds`).
* `Paired`: FORPREP and FORLOOP, TFORPREP and TFORLOOP find each other, or the
  loop is still open and its frame will make them. An instruction can only be lost in a full arena, and
  from a full arena nothing is returned, since the final RETURN is lost too (`Whole`); hence its guard.
* `Marks`: the places in frames are places of the code.
* `InLoops`, under `NoDrops` only: `in_loop` counts the open loops, and with the statements
  that are left it is at most `MaxStats`, so that the byte does not wrap; a break that is owed to a loop lies
  in that loop's window of the list and in none of a loop inside it.

Of a finished function remains what the properties need (`Settled`). A handler that only adds code
keeps all of this (`Longer`); one that pushes a frame adds an owner; one that pops a frame patches
all it owned, and has to show that the jumps have landed. A function begins with nothing that
waits (`Fresh`) and ends with nothing but gotos without a label (`Alone`).

`BranchesArrive` needs `NoDrops`, and for two reasons that are in the code: a numeric for does not open
a window for its breaks (disagreement 2 of section 3, run `comp_forbreak`), and the list drops a
break when it is full (mccompile.c:1309-1312). The second is stated as a bound on the statements of a script, since
how many breaks wait at once is not a constant; below the default of 64 nothing can be
dropped. `JumpsInside` and `GotosReachLabel` need neither.

**Recursive functions.** The provers know nothing of `f[n \in Nat] == ... f[n - 1] ...`.
`NatSteps` has what is needed, for any step `Op`: the function exists and
unfolds (`StepsUnfold`), and a set that holds 0 and with every number the next holds them all
(`Induct`, from the least number of its complement). A proof instantiates the module with the step of
one recursive function of the model: a probe, a rehash, a list of expressions, of names, of
targets, a chain of upvalues, a sum over objects.

**The parser.** Assumed: sizes are naturals, `ParseAssumption`; and a stack of the checker
of natural size. `ErrorsReach` alone is not inductive, since a parse with steps left
could still build a tree; `ErrorInv` adds that after an error no call is left. Then no
step can follow, and the only step that sets the flag is `SyntaxError`, where
`ReturnNull` passes every `parse_block`.

For the rest, the agenda is typed like a stack program. A point (`Points`) says what is
known between two steps: how many nodes are held and how many of them belong to the blocks
outside, the current token if the rule has looked at it, what the last node is, and which
brackets are open. `Moves` is the type of each step, and of a call that of a whole rule: a
call finds `Takes` nodes, leaves one in their place, and the brackets as they were. `Run`
says that a list of steps leads from one point to another. Each `parse_*` rule
is shown once to be a run of its own type, whatever the current token is (`TableRuns` to `StatRuns`);
so a recursive call needs no induction: its type stands in the list, and is paid for when the call is
entered. `ParseInv` has `ErrorInv` and:

* `AgendaInv`: the agenda runs from a point that holds now to one with no open bracket. The
  brackets of that point are those of the text read so far (`Opened`), and every bracket closed in it
  was of the kind of the innermost open one (`Balanced`), until an allocation fails: from then on
  `parse_block` may go on in the middle of a statement, and a later bracket need not match.
* `BlocksInv`: below a `keep` on the agenda lies the node of its block. This is where the parser lands
  after `return NULL`: all nodes above are dropped (`ReturnNull`), and what the rules of the statement
  would have found there no longer matters, since the number of nodes that belong outside never
  goes up along the agenda.
* `TextInv`, `RoomInv`, `NodesInv`: `"eos"` is read last and never passed, which needs that no step takes
  it unlooked; what nodes and lists take comes off the room and stays within it, also when a list
  of children grows in the middle (`PushFills`, `AdoptFills`).

`BracketsJoined` adds the induction over the tokens that the checker makes. Behind `k` tokens its stack
holds the places of the open brackets (`Joins`), in the order of `Opened`, each with its
depth, and a bracket that was closed has its partner, at the depth below with nothing less deep between
(`IsJoined`). That the kinds agree is not checked by the program; it follows from `Balanced`. A
text nested deeper than the stack is refused at the first bracket too deep, and stays refused
(`DeepRefused`). The depth in the property counts brackets, that of the invariant is the
length of `Opened`; `DepthIs` says that they are one.

**The lexer.** Assumed: a zero is a character, scripts are made of characters, and a
chunk of a file holds at least one character beside its final zero, the lexer is
started by one of its two calls, the scratch buffer has two places or more, and the token
array and a literal one (`NulAssumption`, `LexAssumption`). `LexInv` says that the buffer is a piece of the text that ends at the
place in the file (`Sound`). From it, looking, stepping and filling are the same as in
memory at the place `Consumed` (lemma `Input`; a buffer that is filled and stays
empty is the end of the text). Then each action maps to the same action of the lexer in
memory: one lemma for each group of actions, made of those for what actions are made
of (`ReadMaps`, `MoveMaps`, ...). That needs no assumption about limits or failures.

`ZeroMeansAll` and `LexTypeOK` follow from `RoundInv`. It has four parts beside `LexInv`.
`Chain`: each piece begins where the one before it ended, the first at the start of the text
and the last at `from`, where the token that is being read begins. `Ended`: code 0 is given
with a last piece `"eos"`, at the end or at a zero byte. `Room`: the token array has
a place as long as lexing goes on (a full array is the end), and a literal is below
`MaxStr` while its closing bracket is looked for. `WorkOK`: the scratch buffer has a place
left at the start of a round, and a literal outgrows `MaxStr` by less than a scratch
buffer, since a full buffer is flushed and the length is compared before the next character.
`Room` is what makes `WorkOK` inductive: a bracket that turns out not to close is
collected without that comparison. The overrun that the code has in that place is the mode `wild`, where the model stops; the
theorems say nothing of what it does there. A round ends in one of five ways (it goes on,
fails, skips, counts a token, ends a literal), with one lemma each; the actions are cases
of these.

**Instruction words.** A word is a number in digits of different ranges. `Digits` says
that quotient and remainder of `a + b * r` are `b` and `a`; `Places` and `Below`
move it past the lower fields. Assumed: the ranges are positive (`OpsAssumption`).

**The driver.** Assumed: the sizes are naturals (`BfrAssumption`,
`LuacAssumption`). `DumpInv` says that file and buffer together are
the dump so far unless a write has failed (`DumpInOrder`), that a failed write
leads to the cleanup with a code other than 0 (`WriteFails`), and that cleanup with
code 0 is reached with an empty buffer only (`Flushed`). `luac_put` has a case for
each of its ways, and each rests on one fact about sequences (`CountOn`).

**The plug-ins.** Assumed: nothing; the bounds on slots and visits play no part.
`VisitInv` says which slots have run at each stage (`RunSoFar`): within a stage those
below `slot`, at its end all up to `EndSlot`, and the AST visitors begin where the token
visitors end. From it follow `AllVisited` and `VisitorsTornDown`. `HandleInv` says that a
library is open once for each counted slot that holds it, which `mcxt_free` takes back.
It needs that the token plug-ins are loaded before the AST plug-ins: a token plug-in
that came later would be put into a slot that is in use.

**Only model-checked.** Liveness (`Answered`, `EndsOrStarves`, `LexEnds`) is out of the
prover's reach. The expression compiler and the chunk (`CodeComputes`, `ErrorsShow`,
`RegistersCounted`, `ChunkReadsBack`) are recursive over trees, with
RECURSIVE operators, which the prover does not take. `TreeIsText` and `OperatorsGroup` compare a
finished tree with the text, and `UnreachKeepsRuns` a cut tree with the whole one: each is an
induction over trees, which the prover cannot be given. `PiecesAreTokens` compares with a grammar that
folds over the characters of a piece.

## 5. Behaviour the model has and no run states

Seen while translating, kept in the model as the code has it, and not stated as a
property since nothing in the repository says otherwise:

* After a failed allocation `parse_block` goes on with the token at hand
  (mcparse.c:1341). The nodes of while, do, repeat, a numeric for, a call, break, goto
  and label are allocated last, so such a statement disappears and the tree
  is handed out; what is left of a statement that fails earlier is met as a new
  statement, mostly a syntax error. With no room for a function statement the parser
  does not end (1389).
* `parse_function` does not look whether the main block ended at the end of the
  text: a stray `end`, or whatever follows `return`, hides the rest of the script (1421-1434).
* A comma before the `)` of a parameter list and a call as the target of an
  assignment are accepted (607-632, 1238).
* LOADNIL over several names, a call with several results and `...` write registers that
  `max_stack` does not count until something else is emitted before the block ends
  (mccompile.c:923, 1602). `RegistersCounted` covers expressions.
* The first local of a numeric for's body is given the register of the loop's limit,
  because only `freereg` is moved past the loop's registers (1182). With
  `MAX_LOCALS = 256` the limit of locals never fires and `nactive`, a `u8`, wraps to 0 (172).
* `mccomp_return` emits `RETURN0` for a bare `return` in every function, also in one
  that is vararg or has captured locals, and decides its `k` flag before captures that
  follow (1030-1065).
* Labels belong to the function, not to the block; the first one of a name wins, and
  a goto whose label never comes keeps distance 0 and is not reported (1424-1471).
* `mccomp_block` emits no `CLOSE` for captured locals of a block that ends; only the
  generic for does (1531-1539).
* In an arena where the constant array cannot grow but small requests
  succeed ("tight"; with an arena that refuses by size this comes before it is full)
  `mccomp_const_name` fails without setting `error`, and `mccomp_cond`
  turns that into "no jump": the script is returned without its condition (197-199,
  857-867), or without the name of a global function. The run `comp_oom` has it, and
  `CodeIsWhole` names it as all that is lost there.
* In an arena where an upvalue array cannot grow ("short") a name that is a local of
  a function further out is taken for a global, without an error: `mccomp_resolve_upval` returns
  -1 for this failure as for a name nobody declares, after it has set `has_capture`
  and given the upvalue to the functions further out (mccompile.c:140-169, mclfunc.c:361-382).
* The number of upvalues is a byte. The 256th capture of a function makes it 0: names
  captured so far are not found any more and captured again, and from the 257th on
  captures are written over the first ones (mclfunc.c:374-379).
* `in_loop` is a byte as well: in the 256th loop inside one another it is 0, and a
  break there is dropped as outside a loop (mccompile.c:1115, 1304-1307).
* When a break is emitted into a full arena, `(u32) -1` is stored as its place and patched
  at the end of the loop (1309-1316); `mccomp_forin` does not look whether its prep was
  emitted (1282-1289). The model stops there, in phase `"wild"`.
* The 65th clause of an if gets no jump to the end (1083). `MaxEnds` is in the model.
* Expressions: constant indices beyond 255 are cut to 8 bits in GETFIELD, SELF and the K
  forms (331). SETLIST always has C = 0, so that a second flush of a table overwrites the
  first; a list that ends in a call or `...` exactly at a flush loses what is behind its
  first value; and keyed fields take effect before positional ones that precede them, when
  those are still waiting to be flushed (748). A multiple assignment evaluates a target's
  table and key after earlier targets have been assigned (975-1024). A NEWTABLE that does not fit is
  patched at index -1, with `error` set (788). The instances of `MC_Exp` have no such
  statement but the last, where the model stops as `wild`.
* The closing bracket of a long literal is collected in the scratch buffer without a
  look at its end, so that a `]====` can write behind it (mclex.c:443-448); the model
  stops there, in mode `wild`.
* A literal is cut when it has reached `MAX_STR_LEN` at a flush, and the rest of it is
  lexed as code; a name or number that fills the scratch buffer becomes two tokens
  (mclex.c:375, 218). Append failures are ignored: the literal is handed out without the
  piece (394, 460).
* A zero byte, or a read error, is the end of the script. An unterminated block comment
  ends silently with it (mclex.c:277). Malformed numbers are accepted (237-255).
* `mcfs_loadas_str8` tests its loop the wrong way round (mcfs.c:67); nothing calls it.
* The attribute of a local goes to `locals[nactive - 1]`: when the 256th local is declared with one,
  `nactive` has wrapped and that is `locals[-1]` (mccompile.c:935-940). The model stops there as `wild`.
* The remover of unreachable code cuts a label behind a `goto`, `break` or `return` and
  what follows it, although a goto may lead there (mcunreach.c:28-36).
* `mclstr_append_lstr` of a string to itself copies too much and `mclstr_rep` overflows
  for long results; nothing calls them.
* `mcfs_closefile` ignores the result of `fclose`, so "wrote" may be printed
  although libc's buffer was lost. `LuacBfr` writes straight to the file.
* `mccomp_assign` refuses to assign to a const local of the same function only; as an
  upvalue it can be assigned (131-138).

## 6. Not modelled

* **What `strtol` and `strtod` make of a number**, and real numbers: a number is its
  text in the lexer, and an integer with or without a fraction in expressions.
* **Statements with full expressions**: `MCComp` has every statement and four
  expressions, `MCExp` every expression and three statements. A composition would
  multiply two large instances; they meet in `freereg`, which a statement leaves where
  its locals end (`RegistersCounted`), and in the failure of a condition.
* **Unused code**: `mcstrtbl_clear`, `mclfunc_clear`, most of `mclstr.c` (sub, find,
  rep, reverse, case), the string loaders of `mcfs.c` and `mcvm_validate_config` have no
  callers; `vm/mcvm.c` is not in the build.
* **The protos of a function** (`mclfunc_add_proto`): an array that grows like that of
  the constants, in `MCConsts`.
* **Logging**, the command line, the default configuration: without state of their own.

## 7. Next

1. The remover of unreachable code composed with the gotos of `MCComp`.
2. `PiecesAreTokens` as a theorem, with recursive functions in place of the folds of the grammar.
