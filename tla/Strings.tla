------------------------------ MODULE Strings ------------------------------
(***************************************************************************)
(* string.c of libc, one turn of a loop a step.  The caller hands over     *)
(* blocks and strings that lie inside the memory; every function but       *)
(* memmove gets what it writes apart from what it reads.                   *)
(***************************************************************************)
EXTENDS Integers

CONSTANTS
  MemSize,    \* bytes of memory
  Bytes,      \* values of a byte, 0 among them
  AddrMod     \* values of a size_t

ASSUME StringConstants ==
  /\ MemSize \in Nat /\ AddrMod \in Nat /\ MemSize < AddrMod
  /\ Bytes \subseteq Nat /\ 0 \in Bytes

Addrs == 1 .. MemSize
Null == 0

VARIABLES
  mem,      \* the memory
  pc,       \* "idle", in a loop ("loop", or "back" in memmove), or "done"
  fn,       \* the function called
  arg,      \* its arguments: two pointers, a byte and a size
  p1,       \* the pointer that starts at arg.i
  p2,       \* the pointer that starts at arg.j, or the character found so far
  left,     \* size as the loop counts it down
  ret,      \* what the function returned
  before,   \* auxiliary: the memory when the function was called
  touched   \* auxiliary: the bytes the last turn read or wrote

stringVars == <<mem, pc, fn, arg, p1, p2, left, ret, before, touched>>

-----------------------------------------------------------------------------
(* What a caller hands over: a block of size bytes, a string that ends by e. *)
Block(a, size) == a + size - 1 <= MemSize
String(a, e) == \E x \in a .. e : mem[x] = 0

Enter(f, a, loop, p, q) ==
  /\ pc = "idle" /\ pc' = loop
  /\ fn' = f /\ arg' = a /\ p1' = p /\ p2' = q /\ left' = a.size
  /\ before' = mem /\ UNCHANGED <<mem, ret, touched>>

Args(i, j, c, size) == [i |-> i, j |-> j, c |-> c, size |-> size]

CallMemset(i, c, size) == Block(i, size) /\ Enter("memset", Args(i, Null, c, size), "loop", i, Null)
CallMemchr(i, c, size) == Block(i, size) /\ Enter("memchr", Args(i, Null, c, size), "loop", i, Null)
CallMemchrRev(i, c, size) ==
  Block(i, size) /\ Enter("memchr_rev", Args(i, Null, c, size), "loop", i + size - 1, Null)
CallMemcmp(i, j, size) ==
  Block(i, size) /\ Block(j, size) /\ Enter("memcmp", Args(i, j, 0, size), "loop", i, j)
CallMemcpy(i, j, size) ==
  /\ Block(i, size) /\ Block(j, size) /\ (i + size <= j \/ j + size <= i)
  /\ Enter("memcpy", Args(i, j, 0, size), "loop", i, j)
(* Mutant of CallMemmove: it always copies forwards. *)
CallMemmoveForward(i, j, size) ==
  Block(i, size) /\ Block(j, size) /\ Enter("memmove", Args(i, j, 0, size), "loop", i, j)
(* The difference of the addresses is unsigned. *)
CallMemmove(i, j, size) ==
  /\ Block(i, size) /\ Block(j, size)
  /\ IF (i - j) % AddrMod >= size
     THEN Enter("memmove", Args(i, j, 0, size), "loop", i, j)
     ELSE Enter("memmove", Args(i, j, 0, size), "back", i + size, j + size)
CallStrlen(i) == String(i, MemSize) /\ Enter("strlen", Args(i, Null, 0, 0), "loop", i, Null)
CallStrnlen(i, size) ==
  /\ String(i, MemSize) \/ Block(i, size)
  /\ Enter("strnlen", Args(i, Null, 0, size), "loop", i, Null)
CallStrchr(i, c) == String(i, MemSize) /\ Enter("strchr", Args(i, Null, c, 0), "loop", i, Null)
CallStrchrRev(i, c) ==
  String(i, MemSize) /\ Enter("strchr_rev", Args(i, Null, c, 0), "loop", i, Null)
CallStrcmp(i, j) ==
  /\ String(i, MemSize) /\ String(j, MemSize)
  /\ Enter("strcmp", Args(i, j, 0, 0), "loop", i, j)
CallStrncmp(i, j, size) ==
  /\ String(i, MemSize) \/ Block(i, size)
  /\ String(j, MemSize) \/ Block(j, size)
  /\ Enter("strncmp", Args(i, j, 0, size), "loop", i, j)
CallStrlcpy(i, j, size) ==
  /\ Block(i, size)
  /\ (i + size <= j /\ String(j, MemSize)) \/ String(j, i - 1)
  /\ Enter("strlcpy", Args(i, j, 0, size), "loop", i, j)

-----------------------------------------------------------------------------
(* One turn of the loop of each function. *)
In(f) == pc = "loop" /\ fn = f
Return(v) == pc' = "done" /\ ret' = v /\ UNCHANGED <<p1, p2, left, fn, arg, before>>
Go(p, q, n) == p1' = p /\ p2' = q /\ left' = n /\ UNCHANGED <<pc, ret, fn, arg, before>>
Look(as) == touched' = as /\ UNCHANGED mem
Put(a, c, as) == touched' = as /\ mem' = [mem EXCEPT ![a] = c]

Memset ==
  /\ In("memset")
  /\ IF left = 0 THEN Return(arg.i) /\ Look({})
     ELSE Put(p1, arg.c, {p1}) /\ Go(p1 + 1, p2, left - 1)

(* memcpy, and memmove when it calls memcpy. *)
Memcpy ==
  /\ In("memcpy") \/ In("memmove")
  /\ IF left = 0 THEN Return(IF fn = "memcpy" THEN p1 ELSE arg.i) /\ Look({})
     ELSE Put(p1, mem[p2], {p1, p2}) /\ Go(p1 + 1, p2 + 1, left - 1)

(* The copying from the end of memmove. *)
MemmoveBack ==
  /\ pc = "back"
  /\ IF p1 = arg.i THEN Return(arg.i) /\ Look({})
     ELSE Put(p1 - 1, mem[p2 - 1], {p1 - 1, p2 - 1}) /\ Go(p1 - 1, p2 - 1, left)

(* memchr and memchr_rev. *)
Memchr ==
  /\ In("memchr") \/ In("memchr_rev")
  /\ IF left = 0 THEN Return(Null) /\ Look({})
     ELSE /\ Look({p1})
          /\ IF mem[p1] = arg.c THEN Return(p1)
             ELSE Go(IF fn = "memchr" THEN p1 + 1 ELSE p1 - 1, p2, left - 1)

Memcmp ==
  /\ In("memcmp")
  /\ IF left = 0 THEN Return(0) /\ Look({})
     ELSE /\ Look({p1, p2})
          /\ IF mem[p1] # mem[p2] THEN Return(mem[p1] - mem[p2])
             ELSE Go(p1 + 1, p2 + 1, left - 1)

Strlen ==
  /\ In("strlen")
  /\ Look({p1})
  /\ IF mem[p1] = 0 THEN Return(p1 - arg.i) ELSE Go(p1 + 1, p2, left)

(* Mutant of Strnlen: the size is not looked at. *)
StrnlenUnbounded ==
  /\ In("strnlen")
  /\ Look({p1})
  /\ IF mem[p1] = 0 THEN Return(p1 - arg.i) ELSE Go(p1 + 1, p2, left)
Strnlen ==
  /\ In("strnlen")
  /\ IF p1 - arg.i = arg.size THEN Return(arg.size) /\ Look({})
     ELSE /\ Look({p1})
          /\ IF mem[p1] = 0 THEN Return(p1 - arg.i) ELSE Go(p1 + 1, p2, left)

Strchr ==
  /\ In("strchr")
  /\ Look({p1})
  /\ IF mem[p1] = arg.c THEN Return(p1)
     ELSE IF mem[p1] = 0 THEN Return(Null) ELSE Go(p1 + 1, p2, left)

StrchrRev ==
  LET found == IF mem[p1] = arg.c THEN p1 ELSE p2
  IN  /\ In("strchr_rev")
      /\ Look({p1})
      /\ IF mem[p1] = 0 THEN Return(found) ELSE Go(p1 + 1, found, left)

Strcmp ==
  /\ In("strcmp")
  /\ Look({p1, p2})
  /\ IF mem[p1] # mem[p2] THEN Return(mem[p1] - mem[p2])
     ELSE IF mem[p1] = 0 THEN Return(0) ELSE Go(p1 + 1, p2 + 1, left)

Strncmp ==
  /\ In("strncmp")
  /\ IF left = 0 THEN Return(0) /\ Look({})
     ELSE /\ Look({p1, p2})
          /\ IF mem[p1] # mem[p2] THEN Return(mem[p1] - mem[p2])
             ELSE IF mem[p1] = 0 THEN Return(0) ELSE Go(p1 + 1, p2 + 1, left - 1)

(* The last byte of the size is for the terminator. *)
Strlcpy ==
  /\ In("strlcpy")
  /\ \/ left = 0 /\ Look({}) /\ Return((p2 - arg.j - 1) % AddrMod)
     \/ left = 1 /\ Put(p1, 0, {p1}) /\ Return((p2 - arg.j - 1) % AddrMod)
     \/ /\ left > 1
        /\ Put(p1, mem[p2], {p1, p2})
        /\ IF mem[p2] = 0 THEN Return(p2 - arg.j) ELSE Go(p1 + 1, p2 + 1, left - 1)

(* Back in the caller. *)
Leave ==
  /\ pc = "done" /\ pc' = "idle"
  /\ fn' = "none" /\ arg' = Args(Null, Null, 0, 0) /\ p1' = Null /\ p2' = Null /\ left' = 0
  /\ ret' = Null /\ before' = mem /\ Look({})

-----------------------------------------------------------------------------
StringInit ==
  /\ mem \in [Addrs -> Bytes] /\ before = mem /\ touched = {}
  /\ pc = "idle" /\ fn = "none" /\ arg = Args(Null, Null, 0, 0)
  /\ p1 = Null /\ p2 = Null /\ left = 0 /\ ret = Null

StringCalls ==
  \E i \in Addrs :
    \/ \E c \in Bytes, size \in 0 .. MemSize :
         CallMemset(i, c, size) \/ CallMemchr(i, c, size) \/ CallMemchrRev(i, c, size)
    \/ \E j \in Addrs, size \in 0 .. MemSize :
         \/ CallMemcmp(i, j, size) \/ CallMemcpy(i, j, size) \/ CallMemmove(i, j, size)
         \/ CallStrncmp(i, j, size) \/ CallStrlcpy(i, j, size)
    \/ \E size \in 0 .. MemSize : CallStrnlen(i, size)
    \/ \E c \in Bytes : CallStrchr(i, c) \/ CallStrchrRev(i, c)
    \/ \E j \in Addrs : CallStrcmp(i, j)
    \/ CallStrlen(i)

StringNext ==
  \/ StringCalls \/ Leave
  \/ Memset \/ Memcpy \/ MemmoveBack \/ Memchr \/ Memcmp
  \/ Strlen \/ Strnlen \/ Strchr \/ StrchrRev \/ Strcmp \/ Strncmp \/ Strlcpy

StringSpec == StringInit /\ [][StringNext]_stringVars

-----------------------------------------------------------------------------
InBlock(a, x) == x \in a .. a + arg.size - 1
InString(a, x) == x \in a .. MemSize /\ \A y \in a .. x - 1 : before[y] # 0

(* The bytes a function may look at: those of the blocks, cut to size, and of
   the strings, up to the terminator. *)
Given(x) ==
  CASE fn \in {"memset", "memchr", "memchr_rev"} -> InBlock(arg.i, x)
    [] fn \in {"memcmp", "memcpy", "memmove"} -> InBlock(arg.i, x) \/ InBlock(arg.j, x)
    [] fn \in {"strlen", "strchr", "strchr_rev"} -> InString(arg.i, x)
    [] fn = "strcmp" -> InString(arg.i, x) \/ InString(arg.j, x)
    [] fn = "strnlen" -> InBlock(arg.i, x) /\ InString(arg.i, x)
    [] fn = "strncmp" -> \/ InBlock(arg.i, x) /\ InString(arg.i, x)
                         \/ InBlock(arg.j, x) /\ InString(arg.j, x)
    [] fn = "strlcpy" -> InBlock(arg.i, x) \/ (InBlock(arg.j, x) /\ InString(arg.j, x))

(* No function of string.c reads or writes a byte before or after the blocks it
   was given, nor after the terminator of a string: not even when there is no
   terminator within the size, when the blocks end where the memory ends, or
   when the size is 0. *)
StringsInside == \A x \in touched : Given(x)

IsFirst(r, xs) == IF xs = {} THEN r = Null ELSE r \in xs /\ \A x \in xs : r <= x
IsLast(r, xs) == IF xs = {} THEN r = Null ELSE r \in xs /\ \A x \in xs : x <= r
InBytes == {x \in Addrs : InBlock(arg.i, x) /\ before[x] = arg.c}
InChars == {x \in Addrs : InString(arg.i, x) /\ before[x] = arg.c}

(* The first n bytes from arg.i and from arg.j are the same; as strings, none
   of them is a terminator. *)
Same(n, strings) ==
  \A t \in 0 .. n - 1 :
    before[arg.i + t] = before[arg.j + t] /\ (strings => before[arg.i + t] # 0)
(* The difference of the first two bytes that differ, among size of them. *)
Compared(size, strings) ==
  \/ ret = 0 /\ Same(size, strings)
  \/ \E t \in 0 .. size - 1 :
       /\ Same(t, strings)
       /\ ret = before[arg.i + t] - before[arg.j + t]
       /\ ret # 0 \/ (strings /\ before[arg.i + t] = 0)

(* The first n bytes from arg.j are at arg.i, then a terminator. *)
Cut(n) ==
  \A k \in Addrs :
    mem[k] = IF k = arg.i + n THEN 0
             ELSE IF k \in arg.i .. arg.i + n - 1 THEN before[arg.j + (k - arg.i)] ELSE before[k]
(* strlcpy copied n characters, the string or as many as fit. *)
CopiedLength(n) ==
  /\ \A t \in 0 .. n - 1 : before[arg.j + t] # 0
  /\ n = arg.size - 1 \/ before[arg.j + n] = 0
  /\ Cut(n)
(* A copy of the whole string reports its length.  Nothing is asked of what a
   cut copy reports: one character less than it wrote, SIZE_MAX for a size of 1,
   where string.h:91 says 'size copied'. *)
Copied ==
  \E n \in 0 .. arg.size - 1 : CopiedLength(n) /\ (n < arg.size - 1 => ret = n)

(* What a function has done when it returns.  Where string.c and the comments
   of string.h disagree on the value returned, nothing is asked of it here:
   memcpy returns the end of the copy ('ret = destination', string.h:40),
   strchr_rev the last match ('first occurance', :123), and a cut strlcpy. *)
Meant ==
  CASE fn = "memset" ->
         /\ ret = arg.i
         /\ \A k \in Addrs : mem[k] = IF InBlock(arg.i, k) THEN arg.c ELSE before[k]
    [] fn \in {"memcpy", "memmove"} ->
         /\ fn = "memmove" => ret = arg.i
         /\ \A k \in Addrs :
              mem[k] = IF InBlock(arg.i, k) THEN before[arg.j + (k - arg.i)] ELSE before[k]
    [] fn = "memchr" -> IsFirst(ret, InBytes)
    [] fn = "memchr_rev" -> IsLast(ret, InBytes)
    [] fn = "memcmp" -> Compared(arg.size, FALSE)
    [] fn = "strlen" -> InString(arg.i, arg.i + ret) /\ before[arg.i + ret] = 0
    [] fn = "strnlen" ->
         /\ ret \in 0 .. arg.size /\ \A x \in arg.i .. arg.i + ret - 1 : before[x] # 0
         /\ ret = arg.size \/ before[arg.i + ret] = 0
    [] fn = "strchr" -> IsFirst(ret, InChars)
    [] fn = "strchr_rev" -> IF InChars = {} THEN ret = Null ELSE ret \in InChars
    [] fn = "strcmp" -> Compared(MemSize, TRUE)
    [] fn = "strncmp" -> Compared(arg.size, TRUE)
    [] fn = "strlcpy" -> IF arg.size = 0 THEN mem = before ELSE Copied

Writers == {"memset", "memcpy", "memmove", "strlcpy"}

(* Every call of a function of string.c, on any memory, with blocks that overlap
   (memmove), touch, are empty or hold no terminator, leaves the memory as it
   should: the bytes moved, set or copied, a cut copy terminated, and not one
   byte more changed; and it returns what the function is for, where string.h
   does not say otherwise. *)
StringsExact == pc = "done" => Meant /\ (fn \notin Writers => mem = before)

(* The functions of string.c do what they are for, within what they are given. *)
StringsSound == StringsExact /\ StringsInside
=============================================================================
