------------------------------- MODULE HelloUdf -------------------------------
(***************************************************************************)
(* The scalar UDFs hello_world and helloworld, without and with a name, in *)
(* their Linux and Mac versions.  The server calls init once, the main     *)
(* function for each row, and deinit; it reads the answer of a row before  *)
(* the next call.  Three versions answer in the server's result buffer or  *)
(* in a constant; helloworld(name) of the Mac allocates a buffer per row   *)
(* and frees it at the next one, or in deinit.                             *)
(*                                                                         *)
(* A name is known by its length and by how many of its bytes come before  *)
(* a NUL byte, if it has one: %.*s stops there.  External: the server, the *)
(* allocator.                                                              *)
(***************************************************************************)
EXTENDS Integers

CONSTANTS
  Names,        \* the names in the column
  Addresses,    \* where malloc may put a buffer
  ResultLen,    \* bytes of the server's result buffer
  NoName,       \* SQL NULL; no name asked for
  NoPtr         \* NULL

ASSUME HelloAssumption ==
  /\ Names \subseteq [length : Nat, upto : Nat]
  /\ \A name \in Names : name.upto <= name.length
  /\ NoName \notin Names
  /\ ResultLen \in Nat /\ ResultLen > 28       \* the fixed texts fit
  /\ NoPtr \notin Addresses /\ "result" \notin Addresses \cup {NoPtr}

VARIABLES
  udf,      \* which of the four is called: <<version, takes a name>>
  stage,    \* "idle": no statement; "ready": after init; "row": an answer is out
  ptr,      \* initid->ptr
  heap,     \* bytes of each buffer that is allocated
  given,    \* history: the name of the row
  answer    \* what the last call returned

helloVars == <<udf, stage, ptr, heap, given, answer>>

Udfs == {"linux", "mac"} \X BOOLEAN

NoHeap   == [a \in {} |-> 0]
NoAnswer == [at |-> NoPtr, length |-> 0, name |-> NoName]

HelloInit ==
  /\ udf \in Udfs
  /\ stage = "idle"
  /\ ptr = NoPtr
  /\ heap = NoHeap
  /\ given = NoName
  /\ answer = NoAnswer

(***************************************************************************)
(* hello_world_init, helloworld_init.                                      *)
(***************************************************************************)
AcceptsArgs(n, isString) ==
  CASE udf = <<"linux", FALSE>> -> TRUE
    [] udf = <<"mac", FALSE>>   -> n = 0
    [] OTHER                    -> n = 1 /\ isString

RejectArgs ==
  /\ stage = "idle"
  /\ \E n \in 0 .. 2, isString \in BOOLEAN : ~ AcceptsArgs(n, isString)
  /\ UNCHANGED helloVars

AcceptCall ==
  /\ stage = "idle"
  /\ \E n \in 0 .. 2, isString \in BOOLEAN : AcceptsArgs(n, isString)
  /\ stage' = "ready"
  /\ ptr' = NoPtr
  /\ UNCHANGED <<udf, heap, given, answer>>

(***************************************************************************)
(* The main functions.                                                     *)
(***************************************************************************)
Returns(at, length, name) ==
  /\ stage # "idle"
  /\ stage' = "row"
  /\ answer' = [at |-> at, length |-> length, name |-> name]
  /\ UNCHANGED udf

\* A fixed text: on Linux of 21 bytes, a constant of the library, on the Mac of
\* 28, copied into the result buffer.
Greet ==
  /\ ~ udf[2]
  /\ given' = NoName
  /\ Returns("result", IF udf[1] = "linux" THEN 21 ELSE 28, NoName)
  /\ UNCHANGED <<ptr, heap>>

\* "Hello World, ", the name, and "!", whatever the buffer holds: sprintf does
\* not know.  (What the bytes behind the buffer were is not followed.)  A NULL
\* argument has no length, and is printed as the empty name.
HelloName ==
  /\ udf = <<"linux", TRUE>>
  /\ given' \in Names \cup {NoName}
  /\ Returns("result", IF given' = NoName THEN 14 ELSE 14 + given'.upto, given')
  /\ UNCHANGED <<ptr, heap>>

\* Returned before anything is freed.
WelcomeNull ==
  /\ udf = <<"mac", TRUE>>
  /\ given' = NoName
  /\ Returns(NoPtr, 0, NoName)
  /\ UNCHANGED <<ptr, heap>>

BufLen(name) == 8 + name.length + 25 + 1

\* free(initid->ptr), and a new buffer that malloc puts where none is.
Free == [b \in DOMAIN heap \ {ptr} |-> heap[b]]

Malloc(left, name) ==
  \E a \in Addresses \ DOMAIN left :
    /\ heap' = [b \in DOMAIN left \cup {a} |-> IF b = a THEN BufLen(name) ELSE left[b]]
    /\ ptr' = a

\* Mutant: the buffer of the first row is used for all of them.
MallocOnce(name) ==
  IF ptr = NoPtr THEN Malloc(heap, name) ELSE UNCHANGED <<heap, ptr>>

\* The old buffer is freed first, so the new one may be put where it was.
FreeAndMalloc(name) == Malloc(Free, name)

Welcome ==
  /\ udf = <<"mac", TRUE>>
  /\ given' \in Names
  /\ FreeAndMalloc(given')
  /\ Returns(ptr', 8 + given'.upto + 25, given')

\* Mutant: what malloc returned is kept only when it is not NULL.
FreeAndFailKept ==
  heap' = Free /\ UNCHANGED ptr

FreeAndFail ==
  heap' = Free /\ ptr' = NoPtr

\* No memory for the new buffer.
WelcomeFails ==
  /\ udf = <<"mac", TRUE>>
  /\ given' \in Names
  /\ FreeAndFail
  /\ Returns(NoPtr, 0, NoName)

HelloDeinit ==
  /\ stage # "idle"
  /\ stage' = "idle"
  /\ heap' = Free
  /\ ptr' = NoPtr
  /\ given' = NoName
  /\ answer' = NoAnswer
  /\ UNCHANGED udf

HelloNext ==
  \/ RejectArgs \/ AcceptCall
  \/ Greet \/ HelloName \/ WelcomeNull \/ Welcome \/ WelcomeFails
  \/ HelloDeinit

HelloSpec == HelloInit /\ [][HelloNext]_helloVars

(***************************************************************************)
(* Properties.                                                             *)
(***************************************************************************)

\* Through rows that are NULL and allocations that fail, initid->ptr is the one
\* buffer that is allocated, so that each is freed once, and none is left when
\* the statement is over.
BufferFreedOnce ==
  /\ DOMAIN heap = (IF ptr = NoPtr THEN {} ELSE {ptr})
  /\ stage = "idle" => ptr = NoPtr

\* The Linux version writes past the end of the result buffer; pages/02-4.md:52
\* says so of long names.
OverrunsResult ==
  udf = <<"linux", TRUE>> /\ given \in Names /\ 14 + given.upto >= ResultLen

\* The answer the server reads is the one of its row: it is where it was put,
\* with room for the byte that ends it, after rows with any other names.  The
\* name is there up to its first NUL byte.  Names that overrun the result buffer
\* are excepted; a NULL name is another matter, the Linux version greets the
\* empty name.
AnswerIsWhole ==
  stage = "row" /\ ~ OverrunsResult =>
    /\ answer.at \in Addresses =>
         answer.at \in DOMAIN heap /\ answer.length < heap[answer.at]
    /\ answer.at = "result" => answer.length < ResultLen
    /\ given \in Names /\ answer.at # NoPtr => answer.name = given

(***************************************************************************)
(* The inductive invariant: the answer of the row is in the buffer, which  *)
(* has the length for it, or where no buffer is.                           *)
(***************************************************************************)
BufferInv ==
  /\ ptr \in Addresses \cup {NoPtr}
  /\ BufferFreedOnce

AnswerInv ==
  stage = "row" =>
    \/ answer.at = NoPtr
    \/ /\ answer.at = "result" /\ (answer.length < ResultLen \/ OverrunsResult)
       /\ given \in Names => answer.name = given
    \/ /\ answer.at = ptr /\ given \in Names
       /\ answer.name = given /\ heap[ptr] = BufLen(given)
       /\ answer.length = given.upto + 33

HelloIInv == BufferInv /\ AnswerInv
=============================================================================
