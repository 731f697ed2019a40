# A verification project for Skooma

Skooma is a small scripting language: a one-pass compiler that emits bytecode
while it parses, a stack machine that runs it, and a mark-and-sweep garbage
collector under both. Everything is one C thread. What makes it hard is not
concurrency between threads but *re-entrancy*: almost any line that allocates
may run the collector, which inspects and changes the data structures the line
is in the middle of changing; and *prediction*: the compiler decides at compile
time which stack slot, which upvalue and which scope every value will live in,
and the machine follows blindly.

Paths below are relative to the repository; its C files are in `src/`.

## 1. Inventory

| Component | State | Operations | Correct when |
|---|---|---|---|
| **Hash table** (`hashtable.c`) | `cap`, `len`, `left`, the entry array with tombstones | get, insert (expanding), remove, intern lookup, into, free | it is a partial map; probes end; the counters agree with the array; interning never makes a second string with the same contents |
| **Collector** (`mem.c`) | the list of objects, mark bits, gray stack, `gc_allocated`, `gc_next` | gcrealloc/gcfree, gc = markroots, trace, rmweakrefs, sweep | nothing reachable is freed, nothing unreachable stays, no mark outlives a collection |
| **Objects and values** (`object.c`, `value.c`) | strings, functions, closures, upvalues, classes, instances, bound methods, natives | allocation, interning, printing, conversion to strings | every reference an object holds is traced |
| **Interpreter** (`vmachine.c`) | value stack, frames, `callstart`, `retstart`, `temp`, `open_upvals`, globals | one handler per opcode, call, return, captureupval, closeupval, runerror | a captured variable is shared by all who can name it; a call leaves what its caller asked for |
| **Native functions** (`core.c`, `sstring.c`, `sgc.c`) | none of their own | called by nativecall | the result replaces callee and arguments |
| **Compiler: scopes** (`parser.c`) | a chain of Function states: locals with flags, scope, one shared array of upvalues | startscope, endscope, name declaration, get_local, get_upval, fn | a name reaches the variable lexical scoping says; the stack at run time is what the compiler thinks |
| **Compiler: statements** (`parser.c`) | ControlFlow (start and depth of the innermost loop, break lists), `gotret` | if, while, for, foreach, loop, switch, break, continue, return | every path through a statement leaves the same stack; every jump is patched; a function ends in a return |
| **Compiler: expressions, assignments** (`parser.c`) | Exp (what the code of an expression is), the recursion of subexp, the code and the constants | constants, variables, calls, operators, folding, and/or, declarations, assignment, return | the emitted code computes what the expression denotes, calls deliver as many values as their place takes, an assignment stores each value in its target |
| **Compiler: classes** (`parser.c`) | Class | class declarations, methods, inheritance | a method reaches its instance and its superclass |
| **Compiler: error recovery** (`parser.c`) | the current token and the one before, the flags `panic` and `error` of the Lexer | advance, expect, match, error, sync, and the way each function of the parser goes on after an error | compiling ends for every text, one mistake is one message, no unbalanced text is accepted |
| **Chunks** (`chunk.c`, `array.h`) | code, constants, line pairs | write, getline | the line of each instruction |
| **Lexer** (`lexer.c`) | position, line | scan | every token is the longest lexeme, on its own line, and no text is lost |
| **Loader** (`core.c`, loadscript) | table of loaded scripts | load, compile, call | each script once, no cycles |
| **Hashing, helpers, errors, debug, main** | | | |

How they meet:

* The compiler allocates strings, functions and constants through the
  collector, so the collector runs **during compilation**; it reaches the
  functions being compiled only while `vm->runtime` is 0 (`mem.c:232`).
* The interpreter allocates inside OP_CLOSURE, captureupval, OP_RET (growth of
  `vm->temp`), string concatenation, calls (growth of `callstart`): the
  collector sees the machine **between two C statements of one instruction**.
* The collector calls HashTable_remove on `vm->strings` (`mem.c:155`) **inside
  the allocation of HashTable_expand on that same table**.
* The compiler tells the interpreter by OP_CLOSE_UPVAL, OP_POP and the operands
  of OP_CLOSURE which slots are captured. If it is wrong, the interpreter has
  no way to notice.

The hard behaviours are listed with their lines, as `hazards`, in
`PROJECT.json`. They are of six sorts: a collection in the middle of an
operation; state that is read again after something else changed it (the
shared upvalue array, the open-upvalue list, the Exp of an operand); long sequences of
legal calls (tombstones, nested scopes with shadowing, calls through results of
calls); conventions between two parts that neither checks (who pops the
arguments, how many results, what is at the place of the callee); the parser
after a mistake, when the functions that are still running go on with tokens
they did not expect; the ends of things (the end of the source in the middle of a
token or of a switch, code deleted behind the back of the line table, a stack
with no room).

## 2. Plan

Done, in this order:

1. `Dictionary`, `HashTable`: the table as a refinement of a partial map.
2. `ManagedHeap`, `Collector`: the collector as a refinement of a heap where
   only unreachable objects disappear.
3. `HashTableProofs`, `CollectorProofs`: both for every size.
4. `Boxes`, `Machine`: calls and captured variables, with a collector that may
   strike inside instructions, as a refinement of variables in boxes.
5. `Scopes`: the compiler's prediction of slots and upvalues against lexical
   scoping.
6. `Statements`: the jumps and pops of loops, `switch`, `if`, `break`,
   `continue` and `return` against the stack on every edge of the code.
7. `Expressions`: the code of expressions, declarations and assignments against
   what they denote.

8. `Calls`: what every kind of call does with the stack (functions, bound
   methods, classes with and without initializer, natives, properties, `super`,
   iterators), and the classes in which methods are looked up.
9. `Recovery`: the whole grammar as a reader of tokens, with its errors.
10. `Lexer`, `LineTable` and their composition `SourceLines`: from characters to
    the line of an error.
11. `fixed` variables in `Scopes`.
12. `RecoveryProofs`, `ChunkProofs`, `MachineProofs`, `CallsProofs` and
    `ScopesProofs`, the latter four on the lemmas of `SequenceFacts`; the
    refinement of `Dictionary` in `HashTableProofs`.

Next:

13. `Scopes` composed with `Statements`: break and continue pop the locals of a
    loop with OP_POP even where a closure has captured them (`parser.c:1962`).
14. The scope of a superclass (the local `super`), globals, variable arguments.
15. Pacing: `gc_allocated`, `gc_next` and gcfactor.

Theorems left: each of those of `Calls` under the exceptions that it needs
itself, where they now share all six; `DescribesLast` and `JumpsOpen` of
`Expressions`.

The loader is not in the plan: loadscript ends in `TODO("Finish
implementing.")`, before a loaded script is run or recorded.

## 3. The modules and the code

### HashTable, Dictionary

`cap`, `len`, `left` and `entries` are the fields of `HashTable`; an entry is
free, a tombstone (empty key, value true) or live, as in `hashtable.h`.
`Slot(c, k, n)` is the n-th index a probe visits (`hash & mask`, then `+1 &
mask`); `EntryFind` is Entry_find, with the tombstone it prefers.

An insertion is split where something else can happen: `BeginInsert` (is room
left?), `Alloc` (the allocation returned; before it, `Remove` may have run any
number of times, because the allocation may collect), `Rehash` (one turn of the
loop), `Install`, `Place`. The variable `weak` says which of the two uses of the
table a behaviour is about and never changes. With `weak` it is `vm->strings`:
insertion only through OString_from (`InternHit`, `InternMiss`,
`InternInsert`; between the miss and the insertion the string itself is
allocated), removal only from rmweakrefs. Without, it is a table of
globals, methods or fields, which the collector does not touch, and
HashTable_into copies from an array in `Sources`.

`Dictionary` is a partial map. `DictSpec` says that the array, read as a map,
changes only as the map does, and that results (new or old key, the value
found) are the map's. All of `Alloc`, `Rehash` and `Install` are stutters.

### Collector, ManagedHeap

`ManagedHeap` has the heap as a graph: `objects`, labelled `edges` (the label is
the C field: `closed`, `constants`, `upvals`, `methods`, ...), `roots` by place
(the stack, the open upvalues, the compiler, ...), the intern table `strings`.
Its only way of losing an object is one that requires it to be unreachable and
not interned. `Mutator` is what a program may do: allocate, set a field, load a
field into a root, drop a root, intern.

`Collector` adds the phases of gc() in `mem.c`: mark the roots place by place,
trace (`MarkBlack` pops an object off the gray stack and marks what mark_black
marks for its type), remove weak references, sweep. The gray *stack* is a set:
the order of tracing is left open. The mutator does not run inside gc(), as in
the code, but a collection may start between any two of its steps.

### Machine, Boxes

`stack`, `frames`, `callstart`, `retstart`, `temp` and `open` are the fields of
VM; `loc[u]` is the slot an open upvalue points at (0: closed), `closed[u]` its
own value, `ups[c]` the upvalues of a closure. Each opcode that touches these
is an action. OP_CLOSURE is several steps (`Closure`, then a `CaptureLocal` or
`CaptureOuter` for each upvalue, then `CaptureEnd`) and so is OP_RET (`Ret`
fixes the number of results, `Grow`/`Save` move them to `vm->temp`, `Leave`
closes upvalues and drops the frame, `Restore` pushes the results), because
they allocate in the middle: `Collect` may run there. Which instruction comes
next is left open, except for what the compiler promises: it pops only slots
that are not captured, closes only slots that are, and uses the stack below its
own frame only through upvalues (`Floor`, `IsVariable`).

`Boxes` has no stack tricks: a variable is a value or a box, a closure holds
boxes, a call delivers what was asked for. `BoxSpec` maps an open upvalue's slot
to a box and the half-finished OP_RET to the finished return.

### Calls

`stack`, `frames`, `callstart` and `loops` are the parts of VM a call goes
through; `methods` and `overloaded` the fields of OClass, `oclass` and `field`
those of OInstance. There is an action for each instruction: the body of a class
(`OpClass`, `OpInherit`, `OpMethod`, `EndClass`), the four that call (`OpCall`,
`OpInvoke`, `OpInvokeIndex`, `OpInvokeSuper`), the two of foreach, OP_RET, and
those that make a value to call (`OpGetProperty`, `OpGetSuper` and a field that
holds a function). OP_CALLSTART and the pushes of the arguments are one action;
`Nested` is a call among the arguments of another, whose results are as many as
it leaves. `VCall`, `FnCall`, `NativeCall`, `InstanceCall`, `Invoke` and `Bind`
are the C functions of those names.

Next to the machine runs what the language means by each call: `Means` and its
variants give, from the names in the call and the *declared* classes (`own`,
`lineage`), which function is entered with which self and arguments, how many
results the place takes, or that the call is an error. `owed` is the stack of
these promises, one for each frame, and `got` what the step just made has
delivered. `Dispatched` and `Delivered` compare the two.

Native functions come in two sorts: `Tidy` ones pop their arguments (those of
`core.c`), the others store their result in `argv[-1]` and return (those of
`sstring.c` and `sgc.c`).

### Scopes

`fs` is the chain of Function states, `upvalues` their shared array. Next to
them run three histories that no code keeps: `env`, the variables in scope by
the rules of the language; `slots`, what the *emitted* code has on the stack of
each function; `means`, the variable for which each upvalue was created.
`EndScope` pops and closes exactly what endscope emits, including what it
forgets. Variables are known by the order of their declaration, so that the
innermost declaration in scope is the last, `Lexical(n)`. `Denotes(n)` is the
variable that the instruction codevar would emit reaches. A program with a compile error
is left out, since nothing runs it.

`Fixed` are the names that are declared as fixed. A closure may assign to a
variable of a function around it as far as the flags of its upvalue say, and
get_upval takes these from wherever its index points: a local of the function
around, or, for a variable that is handed on through a function, whatever local
has the number of the *upvalue* (any flags, if there is none). `FlagsEmitted`
compares the flags that OP_CLOSURE is given with those of the variable.

### Statements

One behaviour compiles one function body. `code` is the list of emitted
instructions, cut down to what a jump or the stack can tell apart: a variable
that is created (`var`), a use of variables (`use`, with the stack height the
compiler reckons with), pushes, pops, the jumps. `locals` is `F->locals.len`;
`scopes` the chain `F->S`; `lstart`, `ldepth` and `breaks` are `F->cflow`;
`gotret` is the flag of OFunction. `cs` is the C call stack: the parser is
recursive, and each running ifstm, whilestm, forstm, ... keeps in local
variables what it needs after its body (the outer loop, the saved context, the
jump to patch).

A statement without a body is one action (`Exprstm`, `Vardec`, `Returnstm`,
`Breakstm`, `Continuestm`); the others are one action up to the body and one
after it (`While` and `EndWhile`, `If`, `Then` and `EndIf`, ...); `Case` and
`Default` are the labels of a switch. Conditions are computed or constant;
under a constant false one `SavedCode` deletes the code of the body, as
restorecontext does, while the rest of the compiler's state keeps what it
learnt from it. Which statements follow each other is open, so the runs
compile every function within the bounds.

`Heights` has no counterpart in the code. It follows the control flow through
the finished function and collects the stack heights with which each
instruction can be reached, as a bytecode verifier would. The properties
compare that with what the compiler reckoned with.

### Expressions

One behaviour compiles one statement: a declaration with its expressions, an
expression or assignment, or a return. Each action reads a token or returns
from a C function. `toks` are the tokens so far, `tok` the one the parser looks
at; `cs` is the C stack, with a frame for each subexp (its limit, the operator
it waits for, the Exp of its first operand), call, index, explist and exprstm.
An opening parenthesis behind a `]` goes on with the index (`OpenInvokeIndex`,
the call that indexed() compiles itself), any other one is suffixedexp's.
`E` is the Exp of the function on top. `code` holds whole instructions, but they
have their length in bytes: SINSTRUCTION_POP, INSTRUCTION_POP and
LINSTRUCTION_POP take back bytes, and `TakeBack` leaves the instruction
`broken` when these are not those of the last instruction. `+`, `<`, `==`, `and`
and `or` stand for the binary operators; the others are emitted, and those of
arithmetic folded, the same way. `x` is a local variable, `f` one that holds a
function that returns its arguments, and one field name is enough for
properties.

`Exec` is the interpreter for such code, opcode by opcode as in `vmachine.c`;
`Denotes` and `Wanted` are the language, by intervals of `toks` and priorities
instead of a recursion with limits. `Compiled` says that they agree in every
environment of `Envs`: `x` nil, a number or an instance, its field a number or
the function, and `f` the function or an instance whose field is one, so that
`f[x]()` is a call that succeeds.

### Recovery

One behaviour compiles one source text. `curr` is the type of the current token;
of the token before it only matters whether it is a semicolon (`semi`). `cs` is
what the C functions that are running have still to do: a token on it is an
expect(), a capitalised word the rest of a function. Each action is a piece of a
C function between two such places: whether it takes the token, whether it
reports an error, and what it leaves to do, in the order of the code. `Advance`
takes any next token and may find the scanner complaining. Errors that depend on
names, limits or values are reported or not (`MayReport`); errors that depend on
the last Exp are decided by its type `et`.

Histories: `nest`, the brackets open in the tokens taken; `told` and `again`, a
message about the current token and a second one; `unclosed`, the switches whose
body ended with the file.

### Lexer, LineTable, SourceLines

`Lexer` has the scanner over classes of characters: one letter, digit or sign
stands for those the scanner treats alike, and the keywords are those that a few
letters can spell (the branches of TokenType_identifier all have the same two
shapes). `Scan` is one call of scan(), with the blanks and comments before the
token, hexdigit() and eschex() stepping back, octal() passing the digit behind
the zero that scan() has taken already, and the NUL at the end. The
language's tokens are stated separately, as sets of texts (`Lexeme`, `Types`),
and what strtod and strtoll read of a number's text as `ReadTo`.

`LineTable` has `chunk->lines` with LineArray_write and Chunk_getline. `written`
is a history: of each byte of code the line it was written with. `Trim` deletes
code from the end, as restorecontext, concatcode and the macros that take back
an instruction do; the table of lines is not told. `SourceLines` puts the two together: the
compiler goes from token to token, writes code on the line of the token before,
and deletes some of it.

## 4. The runs

| Run | Question | Bounds |
|---|---|---|
| `Tables` | Is `vm->strings` a set of strings under interning, removal and expansion with a collection inside? Is a table of fields a map, and does HashTable_into copy all of the superclass' table? | `vm->strings`: 5 strings, hashes chosen so that three share a home and a fourth is their neighbour, capacity up to 16 from an initial size of 2: three expansions, wrap-around, tombstones before and behind the entry looked for. Fields: 3 keys, 3 values, two source arrays with gaps, capacity up to 8 |
| `Instances` | Does a collection keep what is reachable and free the rest, for every graph of an instance, its class, a string? | 3 objects, every edge their types allow, roots on the stack and in the compiler, any number of collections |
| `Machine` | Do open upvalues implement boxes, with collections inside OP_CLOSURE and OP_RET? | 2 functions of one parameter, 2 upvalues, 3 slots, 2 frames, calls for one or all results |
| `Calls` | Does every call enter the function the language says, with its arguments in place, and leave the results asked for? | 2 classes, 1 instance, 9 slots, 3 frames, at most 2 arguments, 3 calls (one among the arguments of another counts as two), calls for one, two or all results; except the kinds that `Avoid` names |
| `StringResults` | ... also of the natives of `sstring.c`? **No.** | the same |
| `Scopes` | Does the compiler predict slots and captured variables rightly? | 2 names, one of them of fixed variables, and a function name, two blocks deep in a function and one in a function inside it, 6 declarations, no two neighbouring captures |
| `Endscope` | ... with neighbouring captures? **No.** | 3 declarations |
| `Statements` | Do all paths through a function agree on the stack, is every jump patched, does every function return? | every function of at most 4 statements, declarations and labels, nested at most 4 deep, except those that `Avoid` names |
| `Expressions` | Does the code of a statement do what the statement denotes? | every statement of at most 5 operands, operators and opening brackets over nil, a number, a string, `x`, `f`, `+`, `and`, `==`, `-`, `!`, property, index, call and method call; declarations of up to 3 names; except those that `Avoid` names |
| `Recovery` | Does the parser end, report a mistake once, and refuse unbalanced brackets? | every text of three tokens of any type behind each token, and behind ten openings that lead deep into the grammar (the labels of a switch, a method, the parts of `for`), with scanner errors anywhere |
| `Endless` | ... without exception? **No.** | texts of up to 4 tokens `id`, `;` and `)` |
| `Lines` | Is every token the longest lexeme, on its own line, and every byte of code found on the line it was written for? | every text of up to 6 characters of sets chosen for words, numbers, strings and comments (`MCSources`: tens of thousands), code deleted twice; except the texts that `Avoid` names and code of the same line behind a deletion (`SameLine`) |

`Machine` is checked up to permuting the two functions and the two upvalues;
it has no liveness property, so that is sound. `CHECK_DEADLOCK FALSE` stands in
the runs of `Machine`, `Calls`, `Scopes`, `Statements`, `Expressions`,
`Recovery` and `Lines` only: a program ends, by OP_RET of
the script, by a run-time error or because the bound is reached, and a
compilation ends with the function, the statement or the text. Tables and
collections never deadlock, and these runs check it.

Why the bounds are enough: every loop of the code that the models unroll
(probing, tracing, the scan of the upvalue list, endscope's look-ahead) is
exercised with zero, one and several turns; every action and each of its
alternatives fires; and each property has a mutant of the code, kept in the
modules next to the definition it breaks, that violates it within the bounds.
For the table, the collector, the line table, `Machine`, `Calls`, `Scopes`, the
patches of `Statements` and the safety properties of `Recovery` the proofs remove
the bounds altogether: what `Instances` checks for three types of object, they
show for all that mark_black tells apart and for every place markroots looks at.

With `TempInit = 4`, as in `Machine`, `vm->temp` never has to grow with a result
already in it, which keeps the gap of section 7 out of that run. `Scopes`
excludes what `Endscope` shows by `Adjacent = FALSE`, and functions three deep
by nesting only as deep as `OneLevel` says. With `Nested` in its
place `LexicalScoping` and `FlagsExact` are violated, and so are
`ClosureCaptures` and `FlagsEmitted` (section 7). With one level of closures
the hazard that these last two are about cannot occur, so no run checks them. The three names a
function may use freely (`Free`) are the bound on what it captures. In `Calls`,
classes come before instances, each declares a method and inherits from the one
before it, and one foreach runs at a time: these are bounds on the number of
states, and the tables of methods of two classes already differ in every way
that a lookup can tell. Nine slots and three frames are few enough for both
limits to be reached.

Three tokens are few for a program but not for recovery: what the parser does
after an error depends on what is running and on the next one or two tokens, and
the openings bring about every function that can be running.

Five tokens are enough for a call in the arguments of a call (`f(f(x))`), a
constant folded behind an `and` or below a unary operator, an operator between
two operators of other priorities, and a call that comes last in a list.

Four statements are enough for a break or a continue that has a local to pop in
a loop in a block in another statement, and for a switch of two labels with one
statement under each. `Avoid` names kinds of function that the compiler gets
wrong. `Statements` leaves out all of them, so what it shows is that the
compiler is right about all others; taking one name out of `Known` in
`MCStatements` gives its counterexample:

| Name | Function left out | What goes wrong | Violates |
|---|---|---|---|
| `switch_local` | a declaration below a switch | the switch's value is on the stack but not counted by `F->locals`: the local is looked for one slot too low (`parser.c:1639`) | StackBalanced |
| `switch_match` | a case whose constant equals a constant switch value | the code of the value is deleted, and its OP_POP stays (`parser.c:1664`) | StackBalanced, NoStalePatch |
| `last_case` | a switch whose last label is a case | the jump of a failed test is patched by the next label only (`parser.c:1669`) | AllPatched |
| `for_jump` | break or continue in a `for` with its own variable | both pop the variable; after break endscope pops it again, after continue the loop goes on without it (`parser.c:1830`) | StackBalanced |
| `dead_break` | break under `if (false)` | its jump is deleted but stays in the break list, and the patch lands in other code (`parser.c:1720`) | NoStalePatch, StackBalanced |
| `else_return` | return directly in an else | `gotret` stays set; what follows has no return (`parser.c:1723`) | AlwaysReturns |
| `stale_scope` | a build in which startscope finds a set `isgloop` in its memory | continue in an ordinary loop leaves three locals (`parser.c:699`, `1937`) | StackBalanced |

`Expressions` does the same, with `Known` in `MCExpressions`:

| Name | Statement left out | What goes wrong | Violates |
|---|---|---|---|
| `or` | `or` | codeor stores the type of the Exp in a jump and leaves the type alone, so that postfix cuts code and constants back to that number (`parser.c:2313`, `2339`) | Compiled, DescribesLast |
| `and_true` | `true and ...` | codeand takes back two bytes, OP_TRUE has one (`parser.c:2273`) | Compiled, DescribesLast |
| `and_multi` | a constant `and` a call | the Exp of the call replaces the whole, so the call is told to deliver several values; with a variable as first operand it is not (`parser.c:2347`) | Compiled |
| `stale_type` | a unary operator before a constant or a call | the Exp still describes the operand: `!1 + 2` is folded, `-f()` is asked for all results (`parser.c:2377`) | DescribesLast |
| `multi_assign` | several variables on the left | the values are stored in the order of the targets, though the last one is on top, and the first getter only is taken back (`parser.c:1291`) | Compiled |
| `set_index` | assignment to `x[...]` | OP_SET_INDEX pushes the value again, nobody pops it (`vmachine.c:1043`) | Compiled |
| `index_args` | `x[k](...)` with arguments | OP_INVOKE_INDEX drops the last argument instead of the key (`vmachine.c:326`) | Compiled |
| `no_init` | a declaration without `=` | adjustassign reads an Exp that nothing has set (`parser.c:1418`) | Compiled |

`Calls`, `Recovery` and `Lines` name what they leave out in their cfg:

| Name | Left out | What goes wrong | Violates |
|---|---|---|---|
| `native_count` | a native function called for two or more results | nativecall ignores retcnt; the caller finds one result (`vmachine.c:260`) | Delivered |
| `class_count` | a class called for two or more results | instancecall passes on 1, or leaves the one instance (`vmachine.c:272`) | Delivered |
| `index_args` | `x[k](...)` with arguments | OP_INVOKE_INDEX drops the last argument instead of the key (`vmachine.c:326`) | Dispatched |
| `tidy_error` | an error in a native function that pops its arguments | the message is looked for behind arguments that are gone (`vmachine.c:263`) | Dispatched |
| `sloppy_result` | a result of a native function that does not | its argument stays on top of the result (`sstring.c:44`) | Delivered |
| `foreach_limit` | foreach at the end of the stack | OP_FOREACH_PREP copies three values without the test of push() (`vmachine.c:1092`) | InBounds, which no run checks: everything else goes through push() |
| `fixed_any` | `fixed` before anything but `var` | fixedvardec does not look at the token it takes for `var`, so a bracket is lost (`parser.c:1428`) | Balanced |
| `hex_newline` | a hexadecimal number or escape before a newline | hexdigit() passes the newline with nextchar(), which counts it, and steps back (`lexer.c:113`) | TokenLine |
| `escape_end` | a backslash before the end of the source | string() takes the NUL for an escape and reads on behind it (`lexer.c:149`) | NothingLost |
| `octal_digit` | an 8 or 9 right behind the 0 that begins a number | octal() passes it without looking (`lexer.c:231`) | LongestMatch |
| `exponent` | digits with an exponent and without fraction | the token ends before the exponent that strtod reads: `0e0` is a number and a name (`lexer.c:208`). Behind a fraction exponents are checked | LongestMatch |
| `ellipsis` | `...` | the characters are compared with the code of a token (`lexer.c:617`) | LongestMatch |
| `SameLine = TRUE` | code written on the line of the last pair behind a deletion of where it points | the table gets a pair only when the line grows, so the new code is found on an earlier line (`chunk.c:23`) | LinesRight |

None of these but `sloppy_result` has a run of its own: few statements of the
repository are as plainly contradicted by them as by those of section 7. But they
are real, and the tables are where to look when one is mended: its name leaves
`Known` or `Avoid`.

## 5. Fairness

Three specifications state fairness. `FairSpec` of `HashTable` has weak fairness
of `Step`, the steps of a call already begun: they are straight-line code of the
only thread. `GCSpec` has weak fairness of `GCStep`: gc() is a plain call and
nothing else runs until it returns. Neither says that the program ever calls
anything. `FairSpec` of `Recovery` has weak fairness of the whole `Next`: compile
is one call in the only thread, and its input is a file that has been read
already. `CallsReturn`, `Terminates` and `Ends` rest on these.

`Ends` says that compile gets through every text, except where it is known to
go round for ever (`Hung`); `Returns` has no exception, and `Endless` shows it
violated. The other modules have safety properties only, since a program may loop
or stop as it likes.

## 6. What is proved

`HashTableProofs`, for any keys, any hash function, any `InitialSize >= 2` and
both uses of the table:

* the inductive invariant is `TypeOK /\ Accounting /\ WellFormed /\ Control /\
  Moved`. `Control` says where an insertion can be in relation to `left` and
  `idx` (nothing is placed with `left = 0`, `Remove` can run only before the new
  array exists); `Moved` says that while the loop of HashTable_expand runs, the
  new array holds what the passed part of the old one holds. Without `Moved`
  the installation could not be shown to keep `len` right, and without
  `Accounting` neither probe would be known to end, so that not even
  `EntryFind` would be defined: the parts need each other.
* `StoreFact` and `BuryFact` are the two lemmas about arrays: writing an entry
  where Entry_find points, and burying one under a tombstone, keep every other
  entry reachable from its home.
* `ImplementsDictionary`: the map that the array stands for (`MapOf`) changes
  only as `Dictionary` says. `PlaceMap` and `RemoveMap` are the two steps that
  change it; `Install` does not, because `Moved` says that the two arrays stand
  for the same map; the result of an insertion is new exactly if the map had no
  such key, because of `NoDuplicates` and intact paths.
* `CopiesOverride` is about HashTable_into, for any source table. `IntoCopies`
  speaks of the returns of the insertions, so it needs `Copying`: what the copy
  has passed is in the target also while an insertion is inside an expansion,
  and the entry that is being inserted is the one last looked at. That no later
  entry overwrites an earlier one needs `SourcesAssumption`, that a source holds
  no key twice; `WellFormedAlways` shows it of every table.
* results: `TypeCorrect`, `AccountingCorrect`, `ProbingTerminates`,
  `WellFormedAlways`, `ExpansionKeepsEntries`, `ImplementsDictionary`,
  `CopiesOverride`.

`CollectorProofs`, for any finite or infinite set of objects, any kinds, any
places for roots:

* the inductive invariant is by phase: between collections nothing is marked
  and nothing dangles (`IdleInv`); while marking, what is black has only marked
  successors and what was marked is allocated (`MarkInv`, `TriColour`); while
  sweeping, the marked and unswept are what is reachable (`SweepInv`). The
  middle step is `AllMarked`: when the gray stack is empty and all roots are
  marked, the marked objects are closed under references, so they contain
  `Reachable`; reachability is defined by quantifying over closed sets, so no
  induction over paths is needed.
* results: `TypeCorrect`, `Safety` (NoDangling), `TriColourHolds`,
  `MarksAlwaysCleared`, `Completeness` (CollectsAll), and `Refinement`: the
  collector implements `ManagedHeap`.

`ChunkProofs`, about the line table, for any lines and any sequence of writes and
deletions:

* the inductive invariant is `LInv`: types; `AllFound`, every byte of code is
  found in some pair with the line it was written for; and `PairsPassed`, the
  line of the last pair is not beyond the compiler's. `LinesRight` alone is not
  inductive: a write that adds no pair is right only because its line is
  *that of* the last pair, which follows from `PairsPassed` and the guard
  of LineArray_write together.
* `FindsUnique` (the search has one answer), `WriteKeeps` and `TrimKeeps` are the
  lemmas. The deletions are harmless to what is left because the search goes by
  index, and pairs behind the end of the code match nothing.
* result: `LinesAlwaysRight`, under the assumption `~SameLine`. The assumption
  is needed: with `SameLine = TRUE` the model checker finds a wrong line.

`ChunkProofs`, about the jumps of `Statements`, for functions of any length and
nesting:

* a jump is patched from a note of where it is: in the locals of the C function
  that emitted it (`Note`), or in a list of breaks. The compiler pushes and pops
  three stacks, `cs`, `breaks` and `scopes`, in different functions, and nothing in
  the code says that they fit. `Shape` does: each list of breaks belongs to one of
  the loops and switches that run and each scope to one of the functions that
  open one, in the same order (`Lists`, `Opened`, by way of `Counts`), and the
  functions began at places in the code that never fall (`Stack`).
* every action is one of five kinds of step: a function begins (`Enters`), goes
  on (`GoesOn`) or returns (`Leaves`), there is a break (`Breaks`), or code
  without jumps to patch is added (`Adds`). There is a lemma for each action that
  says which; what a step does to the code is one relation, `Changes`.
* `JumpsArePatched` (AllPatched) adds `Noted`: every jump that goes nowhere yet is
  noted somewhere. When the function is finished nothing is noted any more. Its
  hypothesis is `"last_case" \in Avoid`, no switch ends with a case: `EndSwitch`
  drops that note without a patch.
* `NotesOfJumpsStand` (NoStalePatch) adds `Stands`: what is noted is a jump, and
  lies in front of where the functions around that may still delete code began;
  for a list of breaks those are the functions inside its loop. Its hypotheses are
  `"dead_break"` and `"switch_match" \in Avoid`, the two ways in which code is
  deleted with a jump in it that stays noted. Neither theorem needs the other four
  names that the run leaves out; that these hypotheses are enough was
  first checked by TLC, on the invariants.

`MachineProofs`, for any number of closures, upvalues, slots and frames, any
program of the instructions and a collection at every place where one can be:

* the inductive invariant is `MInv`: types, `OpenSorted`, `UpvalInv` (what is
  open or captured is allocated) and `StackInv`. None of `OpenSorted`,
  `OpenOnStack` and the bounds of the stack is inductive: a return rewrites the
  stack above a mark of `retstart` before it closes the upvalues of its frame,
  and nothing in the code says that none of them is open above the mark. What
  keeps it so is `MarksInv`: an upvalue open above a mark is separated from it by the
  base of a frame (`Between`), and that frame closes it when it returns, before
  the mark is used.
* `PhaseInv` is the same for the states inside OP_CLOSURE and OP_RET.
* results: `TypeCorrect`, `UpvalsSorted`, `UpvalsOnStack`.
* `HeldInv` adds that all that the stack, `temp`, the frames and closed upvalues
  hold is allocated. Its result, `HeldIsAllocated` (NoDangling), has the
  hypothesis `[]FewResults`: no return hands over more results than `vm->temp`
  has room for when it is first allocated (eight in the code). Without it the
  theorem is false: see `vm->temp` in section 7.

Its second part, under the same hypothesis: `ImplementsBoxes`, every step of
`Machine` is a step of `Boxes` or a stutter. The refinement mapping is defined by
cases and folds; `View` says element by element what it yields in each phase
(`SlotsView`, `FramesView`), and there is a lemma for each action. A
collection is `Forget`: it may take only what nobody names, which is what
`HeldInv` is needed for. The return is one step of `Boxes`, taken when OP_RET has
fixed its results (`Ret`); the steps after it (`Save`, `Leave`, `Restore`) are
stutters, because `SlotsView` counts what is in `temp`, or on its way there, as
on the caller's stack already.

`RecoveryProofs`, for any tokens and texts of any length: `BracketsBalanced` and
`OneMistakeOneMessage`.

* `Balanced` speaks of the end only. The invariant, `BInv`, says of every state
  that what is still to be done, on `cs`, fits the brackets that are open:
  `Matched` asks for a chain of stacks of brackets, one in front of each goal, in
  which every goal takes off those that it has yet to close, ending with none.
  The chain is given by its existence, as a function, not by recursion over `cs`;
  a step replaces the goals at its front, so it is enough to join a few new links
  to the rest of an old chain (`ChainHead` and the lemmas after it).
* sync is why this is not obvious: it skips tokens, brackets included, and the
  theorem holds because compile cannot succeed any more once `error` is set.
* the hypothesis is `"fixed_any" \in Avoid`: without it `fixed (` is read as
  `fixed var`, and a bracket is lost (section 4). `FixedOnTop` is where it is used.
* `OneMistakeOneMessage` (`NoCascade`) has the same hypothesis and the invariant
  `CInv`. A second message about a token is possible only once sync has cleared
  panic without taking it. `Hot` says where the parser then is, as long as the
  token is one that dec goes forward on (`Live`): at dec, or in the statement
  that will take the token, on a way where nothing reports. That this way ends
  with the token taken is the easy part.
* the hard part is behind a semicolon, where sync stops in front of anything.
  Four tokens (`Odd`: `.`, `[`, `=` and `,`) begin no statement but go on with
  one, so dec would read them as if all were well. `OddShape` shows that no
  message about them can have been told when panic is cleared: either
  nothing has reported them yet, or panic is still set and the functions that
  run are such that one of them takes the token (`Aimed`) before any sync.
* `Grammar` is which function may have called which (`Behind`), as far as the two
  need it: behind a `;` there is the sync of a declaration, a switch, an if, a
  break or the next part of a for, and nothing else. `ClassTop` and `FixedVar` are
  about the two places where what dec takes changes: `self` and `super` in a
  class, and the token behind fixed.

`CallsProofs`, for any classes with any methods, any instances, natives, limits
and nesting: `CallsDispatched` and
`ResultsDelivered`.

* the inductive invariant is `CInv`. `ClassInv`: the tables of methods, filled by
  copying at OP_INHERIT and by writing one entry at a time, hold for every name
  what the nearest class of the lineage declares, also while a class body is
  half-way. `FramesOK`: every running frame is the one that its call was meant to
  enter (`Agrees` with `owed`), with its parameters on the stack below the next
  frame. `MarksOK`: the marks of `callstart` lie in order between the frames, so
  that a call finds its callee and not that of a call around it. `LoopsOK`: the
  three variables of a foreach stay where OP_FOREACH will look for them while
  the iterator runs.
* `Delivered` and `Dispatched` compare one step with one promise; that they hold
  at a *return* needs `FramesOK`, which remembers the promise from the call on.
* both have the hypothesis `Avoid = Kinds`, which is also the value of the
  run. Each of the six kinds is a call that the code gets wrong, named in
  section 4 with the line and the property that it violates; `StringResults`
  shows one of them. The hypothesis says nothing of the classes, of who calls
  whom, or of when an error occurs.

`ScopesProofs`, for programs of any size, with any number of names and scopes of
any depth:

* `SInv`, the invariant behind `StackFollowsScopes` (StackMatches), puts the
  locals of every function beside its slots (`Fits`): those that are
  initialised have the slots in order, their depths never fall, and
  the variables in them were declared one after the other. A scope is then the
  tail of the locals, and what endscope counts down to is where it begins
  (`InitialSegment`). `InnerLater`, all variables of an inner function are newer
  than all of those around it, makes the last declaration the innermost one.
* its hypothesis is `~Adjacent`, no two neighbouring locals are captured: what
  `Endscope` shows is exactly what it excludes, and `Apart` keeps it true of the
  locals, so that the loop of endscope always finds the end of a run.
* `UInv` adds the captured variables: `FlagsFit` relates the flags of *every*
  local of every function to what closures have captured, or the
  one being compiled will (`Taken`); `EntriesFit` says that the first `upvalc`
  entries of the shared array stand for locals of the function around, in the
  slots that they name. `FlagsExact` looks at the current function and at
  finished closures only, and is not inductive without it.
* results: `NamesReachTheirVariables` (LexicalScoping) and `FlagsAreExact`
  (FlagsExact). They have a second hypothesis,
  `Shallow`: there are variables at two neighbouring levels of functions only,
  as in the run. In a deeper nest the entries of a function are overwritten while it
  is being compiled, and both are false (section 7). `WalkOne` shows that the
  recursion of get_upval is one call of add_upval then; no induction over it is
  needed.

`SequenceFacts` has the lemmas about numbers and sequences that `ChunkProofs`,
`MachineProofs`, `CallsProofs` and `ScopesProofs` share.

The assumptions on constants are the named ASSUMEs of `HashTable`,
`ManagedHeap`, `LineTable`, `Machine`, `Scopes`, `Statements`, `Recovery` and
`Calls`; TLC evaluates them in every run of these modules. They say that the constants are of the right
type and that things of different sorts are different (data are not closures,
tokens are not names of C functions, `""` is not a class), except for
`InitialSize >= 2` (it is 8 in the code) and the sources of copies, above.

Checked by TLC only, and why:

* the liveness properties `CallsReturn`, `Terminates` and `Ends`, which the proof
  system cannot express;
* everything about `Lexer`: its definitions are recursive over the text, and
  the proof system knows neither RECURSIVE nor induction over data;
* `StackBalanced` and `AlwaysReturns` of `Statements` and `Compiled` of
  `Expressions`: they compare the compiler with what the *emitted code* does, by a
  walk over that code (`Heights`, `Exec`), so that what the walk yields would have
  to be shown by induction over the code;
* `DescribesLast` and `JumpsOpen` of `Expressions`, which walk over no code. Their
  proof needs an invariant of what folding may find in front of the instructions it
  takes back, for every operator that is waiting for its operand, and has not been
  attempted.

`TypeOK` of `HashTable` is checked in its run and proved; those of `Collector`
and `Machine` are proved. Those of `Scopes`, `Statements` and `Expressions`
document the variables and are not run; the types that `ScopesProofs` needs are
in `Layout` and `UType`. The two `CInv`, `MInv` and `UInv` were checked by
TLC in the runs `Calls`, `Recovery`, `Machine` and `Scopes` before they were
proved.

## 7. Where code and comments disagree

With a run:

* **`StringResults`** The natives of `sstring.c` and `sgc.c` leave their
  arguments on the stack: `printl("a" + tostr(1))` uses the argument.
* **`Endless`** sync returns at once behind a semicolon, so a text as short as
  `;)` is compiled for ever.
* **`Endscope`** endscope emits nothing for a run of two or more captured
  locals at the bottom of a scope: they stay on the stack, and later locals are
  looked for in the wrong slots. When exactly one local of the scope is
  captured and the one below the scope is too, the latter is dropped with it.

Without one, but to be seen by changing one constant, or by reading:

* `vm->temp` is an array whose growth can start a collection (`vmachine.c:879`),
  while `array.h:134` speaks of arrays that do not, and `marktemp` (`mem.c:99`)
  is never called by markroots. `TempInit = 1` in `MCMachine.cfg` violates
  `NoDangling`; in the code it takes nine results.
* Nested functions write their upvalues over those of the function around them
  before OP_CLOSURE has been emitted for it (`parser.c:802`, `544`, `1448`), while
  the comment at `parser.c:99` says that an entry is about the function that
  encloses. A function that captures itself and contains another one that captures
  something captures the latter's variable instead, and so does one that only hands a
  variable on. `MaxDepth <- Nested` in `MCScopes.cfg`
  violates `ClosureCaptures` (as a PROPERTY), `LexicalScoping` and `FlagsExact`: an
  overwritten entry is even taken for one of another variable.
* A variable that is handed on through a function gets the flags of an unrelated
  local (`parser.c:560`), though the field is called "Local flags" (`parser.c:109`):
  a fixed one can be assigned to two functions further in. The same constant
  violates `FlagsEmitted`.
* OP_FOREACH_PREP writes up to three values behind the stack (`vmachine.c:1092`),
  while push() stops with "VM stack overflow" (`vmachine.c:67`). Without
  `foreach_limit` in `Avoid`, `MCCalls.cfg` violates `InBounds`.
* octal() means to "skip leading zero" (`lexer.c:231`), but scan() has taken it
  already: `08` is a number without an error, of which strtoll reads the 0, and
  "Invalid digit" is said of later digits only. Without `octal_digit` in `Avoid`,
  `MCLines.cfg` violates `LongestMatch`.
* `etiscall` is true of every type (`parser.c:162` has `||` for `&&`), so
  "Invalid syntax." is never reported.
* The body of a switch is a loop that calls stm, which takes no token that it does not
  know, and nothing synchronises there (`parser.c:1648`): a second way of never
  ending, and the second disjunct of `Hung`. At the end of the file its closing
  brace is not missed, because the token before is tested (`parser.c:1685`).
* Run-time assignment to a fixed variable through an upvalue reports the name of
  a *global* with the upvalue's number (`vmachine.c:972`).

## 8. Not modelled

Hashing (the table takes any hash function), formatting and debugging output,
error texts, command line: pure functions and I/O. The script loader is
unfinished in the source. Strings as values (conversion, concatenation) and the
values of numbers and strings in the lexer are data that no property here is
about. Characters of the source are ASCII in `Lexer`: a byte above 127 is a
negative `char` where that type is signed, and scan() uses it as it is to index its
jump table (`lexer.c:601`), after which C promises nothing.

The byte accounting of the collector is absent: arrays are given back with their
capacity in elements for bytes (`array.h:252`), so `gc_allocated` only drifts
upwards, and gcfactor(0) leaves no growth at all (`mem.c:244`). Nothing the
models say depends on it, because a collection may start at any allocation.

In `Machine` arithmetic and jumps are absent, because the order of instructions
is arbitrary anyway. Variable arguments are absent everywhere (`lexer.c:617`
never recognises `...`, so no text has them). In `Expressions` variables are
local: those that are captured or global have other opcodes but the same Exp;
`self` and `super` are in `Recovery` and `Calls` only. The scope in which a subclass keeps its superclass as a local `super` is
not in `Scopes`. Globals are a table (`HashTable`) that OP_GET_GLOBAL and
OP_SET_GLOBAL look up by index; their flags are not modelled.
