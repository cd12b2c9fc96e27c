------------------------------ MODULE MCLuaVM ------------------------------
(***************************************************************************)
(* Small programs of Lua, compiled by the model of the parser and run by   *)
(* the model of the virtual machine.  The text of each is above its tree;  *)
(* ext is a function of the host that may return anything in MCResults or  *)
(* raise an error.  Constants of the code are small enough for their       *)
(* limits to be met: two constants may be operands, a constructor flushes  *)
(* two items at a time, the third flush needs a word of its own.           *)
(***************************************************************************)
EXTENDS LuaReference

P == INSTANCE LuaParser
D == INSTANCE LuaDump

nil      == <<"nil">>
true     == <<"true">>
false    == <<"false">>
dots     == <<"dots">>
int(n)   == <<"number", n>>
str(s)   == <<"string", s>>
var(n)   == <<"name", n>>
op(o)    == <<"op", o>>
paren(e) == <<"paren", e>>
call(f, es)      == <<"call", f, es>>
index(t, e)      == <<"index", t, e>>
method(t, n, es) == <<"method", t, n, es>>
table(fields)    == <<"table", fields>>
item(e)          == <<"item", e>>
field(k, e)      == <<"field", k, e>>
func(params, hasdots, b) == <<"function", params, hasdots, b>>
locals(ns, es)   == <<"local", ns, es>>
assign(vs, es)   == <<"assign", vs, es>>
callstat(c)      == <<"callstat", c>>
block(b)         == <<"do", b>>
whiles(e, b)     == <<"while", e, b>>
repeats(b, e)    == <<"repeat", b, e>>
ifs(clauses, b)  == <<"if", clauses, b>>
fornum(n, es, b) == <<"fornum", n, es, b>>
forlist(ns, es, b)    == <<"forlist", ns, es, b>>
localfunction(n, f)   == <<"localfunction", n, f>>
funcstat(v, self, f)  == <<"funcstat", v, self, f>>
returns(es)      == <<"return", es>>
breaks           == <<"break">>

\* Conditions, their jumps and the values they leave.
ConditionsPrograms == {
    \* local a, b = ext() while not (a and b) do a, b = 1, 2 print(a) end print(a, b)
    <<locals(<<"a", "b">>, <<<<call(var("ext"), <<>>)>>>>), whiles(<<op("not"), paren(<<var("a"), op("and"),
      var("b")>>)>>, <<assign(<<var("a"), var("b")>>, <<<<int(1)>>, <<int(2)>>>>), callstat(call(var("print"),
      <<<<var("a")>>>>))>>), callstat(call(var("print"), <<<<var("a")>>, <<var("b")>>>>))>>,
    \* local a = ext() local x = not (a == 1) print(x, a == 1 and 2, (a or 1) == 1)
    <<locals(<<"a">>, <<<<call(var("ext"), <<>>)>>>>), locals(<<"x">>, <<<<op("not"), paren(<<var("a"), op("=="),
      int(1)>>)>>>>), callstat(call(var("print"), <<<<var("x")>>, <<var("a"), op("=="), int(1), op("and"), int(2)>>,
      <<paren(<<var("a"), op("or"), int(1)>>), op("=="), int(1)>>>>))>>,
    \* if nil then print(1) end while false do end if true and ext() then print(1) end
    <<ifs(<<<<<<nil>>, <<callstat(call(var("print"), <<<<int(1)>>>>))>>>>>>, <<>>), whiles(<<false>>, <<>>),
      ifs(<<<<<<true, op("and"), call(var("ext"), <<>>)>>, <<callstat(call(var("print"), <<<<int(1)>>>>))>>>>>>,
      <<>>)>>,
    \* local a, b, c = ext() print(a == b, a ~= 1, not a == nil, a == nil and b or c, -(-1), 2 - 3 * 2 % 4,
    \*   #"a")
    <<locals(<<"a", "b", "c">>, <<<<call(var("ext"), <<>>)>>>>), callstat(call(var("print"), <<<<var("a"), op("=="),
      var("b")>>, <<var("a"), op("~="), int(1)>>, <<op("not"), var("a"), op("=="), nil>>, <<var("a"), op("=="), nil,
      op("and"), var("b"), op("or"), var("c")>>, <<op("-"), paren(<<op("-"), int(1)>>)>>, <<int(2), op("-"), int(3),
      op("*"), int(2), op("%"), int(4)>>, <<op("#"), str("a")>>>>))>>,
    \* local a = ext() if a == nil then a = 1 elseif a == false then return a else a = a == 1 end return a, a ==
    \*   1
    <<locals(<<"a">>, <<<<call(var("ext"), <<>>)>>>>), ifs(<<<<<<var("a"), op("=="), nil>>, <<assign(<<var("a")>>,
      <<<<int(1)>>>>)>>>>, <<<<var("a"), op("=="), false>>, <<returns(<<<<var("a")>>>>)>>>>>>,
      <<<<assign(<<var("a")>>, <<<<var("a"), op("=="), int(1)>>>>)>>>>), returns(<<<<var("a")>>, <<var("a"),
      op("=="), int(1)>>>>)>>,
    \* if ext() then end local a print(a) do local b = 1 end local c print(c)
    <<ifs(<<<<<<call(var("ext"), <<>>)>>, <<>>>>>>, <<>>), locals(<<"a">>, <<>>), callstat(call(var("print"),
      <<<<var("a")>>>>)), block(<<locals(<<"b">>, <<<<int(1)>>>>)>>), locals(<<"c">>, <<>>),
      callstat(call(var("print"), <<<<var("c")>>>>))>>,
    \* local a = ext() local b, c = a or nil, nil return b, c
    <<locals(<<"a">>, <<<<call(var("ext"), <<>>)>>>>), locals(<<"b", "c">>, <<<<var("a"), op("or"), nil>>,
      <<nil>>>>), returns(<<<<var("b")>>, <<var("c")>>>>)>>}

\* Variables, closures that hold them, and the ends of their scopes.
VariablesPrograms == {
    \* local t = {} for i = 1, 3 do t[i] = function() i = i + 1 return i end end print(t[1](), t[1](), t[2](),
    \*   t[3]())
    <<locals(<<"t">>, <<<<table(<<>>)>>>>), fornum("i", <<<<int(1)>>, <<int(3)>>>>, <<assign(<<index(var("t"),
      <<var("i")>>)>>, <<<<func(<<>>, FALSE, <<assign(<<var("i")>>, <<<<var("i"), op("+"), int(1)>>>>),
      returns(<<<<var("i")>>>>)>>)>>>>)>>), callstat(call(var("print"), <<<<call(index(var("t"), <<int(1)>>),
      <<>>)>>, <<call(index(var("t"), <<int(1)>>), <<>>)>>, <<call(index(var("t"), <<int(2)>>), <<>>)>>,
      <<call(index(var("t"), <<int(3)>>), <<>>)>>>>))>>,
    \* local r repeat local x = ext() local f = function() return x end r = f if not x then break end until x ==
    \*   1 print(r())
    <<locals(<<"r">>, <<>>), repeats(<<locals(<<"x">>, <<<<call(var("ext"), <<>>)>>>>), locals(<<"f">>,
      <<<<func(<<>>, FALSE, <<returns(<<<<var("x")>>>>)>>)>>>>), assign(<<var("r")>>, <<<<var("f")>>>>),
      ifs(<<<<<<op("not"), var("x")>>, <<breaks>>>>>>, <<>>)>>, <<var("x"), op("=="), int(1)>>),
      callstat(call(var("print"), <<<<call(var("r"), <<>>)>>>>))>>,
    \* local x do local y = 1 x = function() y = y + 1 return y end end local z = 5 print(x(), x(), z)
    <<locals(<<"x">>, <<>>), block(<<locals(<<"y">>, <<<<int(1)>>>>), assign(<<var("x")>>, <<<<func(<<>>, FALSE,
      <<assign(<<var("y")>>, <<<<var("y"), op("+"), int(1)>>>>), returns(<<<<var("y")>>>>)>>)>>>>)>>),
      locals(<<"z">>, <<<<int(5)>>>>), callstat(call(var("print"), <<<<call(var("x"), <<>>)>>, <<call(var("x"),
      <<>>)>>, <<var("z")>>>>))>>,
    \* while ext() do local x = 1 local f = function() x = x + 1 return x end print(f()) if f() == 3 then break
    \*   end end
    <<whiles(<<call(var("ext"), <<>>)>>, <<locals(<<"x">>, <<<<int(1)>>>>), locals(<<"f">>, <<<<func(<<>>, FALSE,
      <<assign(<<var("x")>>, <<<<var("x"), op("+"), int(1)>>>>), returns(<<<<var("x")>>>>)>>)>>>>),
      callstat(call(var("print"), <<<<call(var("f"), <<>>)>>>>)), ifs(<<<<<<call(var("f"), <<>>), op("=="),
      int(3)>>, <<breaks>>>>>>, <<>>)>>)>>,
    \* local x = 5 local f = function() return x end x = 6 print(f()) return f
    <<locals(<<"x">>, <<<<int(5)>>>>), locals(<<"f">>, <<<<func(<<>>, FALSE, <<returns(<<<<var("x")>>>>)>>)>>>>),
      assign(<<var("x")>>, <<<<int(6)>>>>), callstat(call(var("print"), <<<<call(var("f"), <<>>)>>>>)),
      returns(<<<<var("f")>>>>)>>,
    \* local a = 1 do local a = a + 1 print(a) local b = a do local a = b * 2 print(a) end end print(a)
    <<locals(<<"a">>, <<<<int(1)>>>>), block(<<locals(<<"a">>, <<<<var("a"), op("+"), int(1)>>>>),
      callstat(call(var("print"), <<<<var("a")>>>>)), locals(<<"b">>, <<<<var("a")>>>>), block(<<locals(<<"a">>,
      <<<<var("b"), op("*"), int(2)>>>>), callstat(call(var("print"), <<<<var("a")>>>>))>>)>>),
      callstat(call(var("print"), <<<<var("a")>>>>))>>,
    \* local a = 1 local f = function() local g = function() a = a + 1 return a end return g end return f()(),
    \*   a, f()()
    <<locals(<<"a">>, <<<<int(1)>>>>), locals(<<"f">>, <<<<func(<<>>, FALSE, <<locals(<<"g">>, <<<<func(<<>>, FALSE,
      <<assign(<<var("a")>>, <<<<var("a"), op("+"), int(1)>>>>), returns(<<<<var("a")>>>>)>>)>>>>),
      returns(<<<<var("g")>>>>)>>)>>>>), returns(<<<<call(call(var("f"), <<>>), <<>>)>>, <<var("a")>>,
      <<call(call(var("f"), <<>>), <<>>)>>>>)>>,
    \* local f, g do local a, b = ext() f = function() b = a return b end g = function() a = 7 return a, b end
    \*   end print(f(), g(), f())
    <<locals(<<"f", "g">>, <<>>), block(<<locals(<<"a", "b">>, <<<<call(var("ext"), <<>>)>>>>), assign(<<var("f")>>,
      <<<<func(<<>>, FALSE, <<assign(<<var("b")>>, <<<<var("a")>>>>), returns(<<<<var("b")>>>>)>>)>>>>),
      assign(<<var("g")>>, <<<<func(<<>>, FALSE, <<assign(<<var("a")>>, <<<<int(7)>>>>), returns(<<<<var("a")>>,
      <<var("b")>>>>)>>)>>>>)>>), callstat(call(var("print"), <<<<call(var("f"), <<>>)>>, <<call(var("g"), <<>>)>>,
      <<call(var("f"), <<>>)>>>>))>>,
    \* for i = 1, 2 do for j = i, 2 do if j == i then print(i) else break end end end return
    <<fornum("i", <<<<int(1)>>, <<int(2)>>>>, <<fornum("j", <<<<var("i")>>, <<int(2)>>>>, <<ifs(<<<<<<var("j"),
      op("=="), var("i")>>, <<callstat(call(var("print"), <<<<var("i")>>>>))>>>>>>, <<<<breaks>>>>)>>)>>),
      returns(<<>>)>>}

\* Several assignments at once.
AssignmentsPrograms == {
    \* local i = 1 local t = {} i, t[i] = i + 1, 20 print(i, t[1], t[2])
    <<locals(<<"i">>, <<<<int(1)>>>>), locals(<<"t">>, <<<<table(<<>>)>>>>), assign(<<var("i"), index(var("t"),
      <<var("i")>>)>>, <<<<var("i"), op("+"), int(1)>>, <<int(20)>>>>), callstat(call(var("print"), <<<<var("i")>>,
      <<index(var("t"), <<int(1)>>)>>, <<index(var("t"), <<int(2)>>)>>>>))>>,
    \* local a, b, c = 1 local d, e = ext(), 5, 6 print(a, b, c, d, e)
    <<locals(<<"a", "b", "c">>, <<<<int(1)>>>>), locals(<<"d", "e">>, <<<<call(var("ext"), <<>>)>>, <<int(5)>>,
      <<int(6)>>>>), callstat(call(var("print"), <<<<var("a")>>, <<var("b")>>, <<var("c")>>, <<var("d")>>,
      <<var("e")>>>>))>>,
    \* local t = {} t.x, t.y = ext() t.x, t.y = t.y, t.x print(t.x, t.y)
    <<locals(<<"t">>, <<<<table(<<>>)>>>>), assign(<<index(var("t"), <<str("x")>>), index(var("t"), <<str("y")>>)>>,
      <<<<call(var("ext"), <<>>)>>>>), assign(<<index(var("t"), <<str("x")>>), index(var("t"), <<str("y")>>)>>,
      <<<<index(var("t"), <<str("y")>>)>>, <<index(var("t"), <<str("x")>>)>>>>), callstat(call(var("print"),
      <<<<index(var("t"), <<str("x")>>)>>, <<index(var("t"), <<str("y")>>)>>>>))>>,
    \* local a = {} local b = a b.x, a, b = 1, b, 2 print(a, b)
    <<locals(<<"a">>, <<<<table(<<>>)>>>>), locals(<<"b">>, <<<<var("a")>>>>), assign(<<index(var("b"),
      <<str("x")>>), var("a"), var("b")>>, <<<<int(1)>>, <<var("b")>>, <<int(2)>>>>), callstat(call(var("print"),
      <<<<var("a")>>, <<var("b")>>>>))>>,
    \* local a, b = ext() a, b = b, a a = a a, c = c, b print(a, b, c)
    <<locals(<<"a", "b">>, <<<<call(var("ext"), <<>>)>>>>), assign(<<var("a"), var("b")>>, <<<<var("b")>>,
      <<var("a")>>>>), assign(<<var("a")>>, <<<<var("a")>>>>), assign(<<var("a"), var("c")>>, <<<<var("c")>>,
      <<var("b")>>>>), callstat(call(var("print"), <<<<var("a")>>, <<var("b")>>, <<var("c")>>>>))>>,
    \* x = 1 local f = function() x = x + 1 return x end print(f() + f() * 2, x .. f() .. x) return (f())
    <<assign(<<var("x")>>, <<<<int(1)>>>>), locals(<<"f">>, <<<<func(<<>>, FALSE, <<assign(<<var("x")>>,
      <<<<var("x"), op("+"), int(1)>>>>), returns(<<<<var("x")>>>>)>>)>>>>), callstat(call(var("print"),
      <<<<call(var("f"), <<>>), op("+"), call(var("f"), <<>>), op("*"), int(2)>>, <<var("x"), op(".."),
      call(var("f"), <<>>), op(".."), var("x")>>>>)), returns(<<<<paren(<<call(var("f"), <<>>)>>)>>>>)>>}

\* Constructors.
TablesPrograms == {
    \* local t = {1, 2, 3, ext()} print(t, #t)
    <<locals(<<"t">>, <<<<table(<<item(<<int(1)>>), item(<<int(2)>>), item(<<int(3)>>), item(<<call(var("ext"),
      <<>>)>>)>>)>>>>), callstat(call(var("print"), <<<<var("t")>>, <<op("#"), var("t")>>>>))>>,
    \* local t = {ext()} local u = {ext(), ext()} local v = {(ext())} print(t, u, v)
    <<locals(<<"t">>, <<<<table(<<item(<<call(var("ext"), <<>>)>>)>>)>>>>), locals(<<"u">>,
      <<<<table(<<item(<<call(var("ext"), <<>>)>>), item(<<call(var("ext"), <<>>)>>)>>)>>>>), locals(<<"v">>,
      <<<<table(<<item(<<paren(<<call(var("ext"), <<>>)>>)>>)>>)>>>>), callstat(call(var("print"), <<<<var("t")>>,
      <<var("u")>>, <<var("v")>>>>))>>,
    \* local t = {1, 2, 3, 4, 5, x = 6, [7] = 8} print(#t, t)
    <<locals(<<"t">>, <<<<table(<<item(<<int(1)>>), item(<<int(2)>>), item(<<int(3)>>), item(<<int(4)>>),
      item(<<int(5)>>), field(<<str("x")>>, <<int(6)>>), field(<<int(7)>>, <<int(8)>>)>>)>>>>),
      callstat(call(var("print"), <<<<op("#"), var("t")>>, <<var("t")>>>>))>>,
    \* local t = {x = 1, n = 2, f = function(self, y) return self.x + y end} return t:f(3)
    <<locals(<<"t">>, <<<<table(<<field(<<str("x")>>, <<int(1)>>), field(<<str("n")>>, <<int(2)>>),
      field(<<str("f")>>, <<func(<<"self", "y">>, FALSE, <<returns(<<<<index(var("self"), <<str("x")>>), op("+"),
      var("y")>>>>)>>)>>)>>)>>>>), returns(<<<<method(var("t"), "f", <<<<int(3)>>>>)>>>>)>>,
    \* local a = ext() a = a == 1 and a + 1 print(a) a = {a, a = a, [1 + 1] = 3} print(a)
    <<locals(<<"a">>, <<<<call(var("ext"), <<>>)>>>>), assign(<<var("a")>>, <<<<var("a"), op("=="), int(1),
      op("and"), var("a"), op("+"), int(1)>>>>), callstat(call(var("print"), <<<<var("a")>>>>)),
      assign(<<var("a")>>, <<<<table(<<item(<<var("a")>>), field(<<str("a")>>, <<var("a")>>), field(<<int(1),
      op("+"), int(1)>>, <<int(3)>>)>>)>>>>), callstat(call(var("print"), <<<<var("a")>>>>))>>}

\* Arguments, results and tail calls.
CallsPrograms == {
    \* local function f(...) local x, y = ... return x, y, ... end print(f(1), (f(2)), f(ext()))
    <<localfunction("f", func(<<>>, TRUE, <<locals(<<"x", "y">>, <<<<dots>>>>), returns(<<<<var("x")>>,
      <<var("y")>>, <<dots>>>>)>>)), callstat(call(var("print"), <<<<call(var("f"), <<<<int(1)>>>>)>>,
      <<paren(<<call(var("f"), <<<<int(2)>>>>)>>)>>, <<call(var("f"), <<<<call(var("ext"), <<>>)>>>>)>>>>))>>,
    \* local function f(n) if n > 0 then return f(n - 1) end return n, ext() end return f(3)
    <<localfunction("f", func(<<"n">>, FALSE, <<ifs(<<<<<<var("n"), op(">"), int(0)>>, <<returns(<<<<call(var("f"),
      <<<<var("n"), op("-"), int(1)>>>>)>>>>)>>>>>>, <<>>), returns(<<<<var("n")>>, <<call(var("ext"),
      <<>>)>>>>)>>)), returns(<<<<call(var("f"), <<<<int(3)>>>>)>>>>)>>,
    \* local function f(n) local g = function() return n end if n > 0 then return f(n - 1, g) end return g() end
    \*   return f(2)
    <<localfunction("f", func(<<"n">>, FALSE, <<locals(<<"g">>, <<<<func(<<>>, FALSE,
      <<returns(<<<<var("n")>>>>)>>)>>>>), ifs(<<<<<<var("n"), op(">"), int(0)>>, <<returns(<<<<call(var("f"),
      <<<<var("n"), op("-"), int(1)>>, <<var("g")>>>>)>>>>)>>>>>>, <<>>), returns(<<<<call(var("g"), <<>>)>>>>)>>)),
      returns(<<<<call(var("f"), <<<<int(2)>>>>)>>>>)>>,
    \* function ext2(a, ...) return arg.n, arg[1] end return ext2(1, 2, 3)
    <<funcstat(var("ext2"), FALSE, func(<<"a">>, TRUE, <<returns(<<<<index(var("arg"), <<str("n")>>)>>,
      <<index(var("arg"), <<int(1)>>)>>>>)>>)), returns(<<<<call(var("ext2"), <<<<int(1)>>, <<int(2)>>,
      <<int(3)>>>>)>>>>)>>,
    \* local t = {} function t.a(x) return x end function t:b(x) self.v = x return self end print(t:b(3).v,
    \*   t.a(4))
    <<locals(<<"t">>, <<<<table(<<>>)>>>>), funcstat(index(var("t"), <<str("a")>>), FALSE, func(<<"x">>, FALSE,
      <<returns(<<<<var("x")>>>>)>>)), funcstat(index(var("t"), <<str("b")>>), TRUE, func(<<"x">>, FALSE,
      <<assign(<<index(var("self"), <<str("v")>>)>>, <<<<var("x")>>>>), returns(<<<<var("self")>>>>)>>)),
      callstat(call(var("print"), <<<<index(method(var("t"), "b", <<<<int(3)>>>>), <<str("v")>>)>>,
      <<call(index(var("t"), <<str("a")>>), <<<<int(4)>>>>)>>>>))>>,
    \* local f = function(a, b, c) return c, b, a end local x, y = f(1, f(2, 3)) print(x, y, f(x)) return f(f(1,
    \*   2, 3))
    <<locals(<<"f">>, <<<<func(<<"a", "b", "c">>, FALSE, <<returns(<<<<var("c")>>, <<var("b")>>,
      <<var("a")>>>>)>>)>>>>), locals(<<"x", "y">>, <<<<call(var("f"), <<<<int(1)>>, <<call(var("f"), <<<<int(2)>>,
      <<int(3)>>>>)>>>>)>>>>), callstat(call(var("print"), <<<<var("x")>>, <<var("y")>>, <<call(var("f"),
      <<<<var("x")>>>>)>>>>)), returns(<<<<call(var("f"), <<<<call(var("f"), <<<<int(1)>>, <<int(2)>>,
      <<int(3)>>>>)>>>>)>>>>)>>,
    \* local function va(a, ...) return ..., a end print(va(1, 2, 3)) print(va()) local t = {va(...), ...}
    \*   return #t
    <<localfunction("va", func(<<"a">>, TRUE, <<returns(<<<<dots>>, <<var("a")>>>>)>>)), callstat(call(var("print"),
      <<<<call(var("va"), <<<<int(1)>>, <<int(2)>>, <<int(3)>>>>)>>>>)), callstat(call(var("print"),
      <<<<call(var("va"), <<>>)>>>>)), locals(<<"t">>, <<<<table(<<item(<<call(var("va"), <<<<dots>>>>)>>),
      item(<<dots>>)>>)>>>>), returns(<<<<op("#"), var("t")>>>>)>>}

\* Loops.
LoopsPrograms == {
    \* for i = 3, 1, -1 do if i == 2 then print(i) else local j = i print(j, function() return j end) end end
    \*   for i = 1, "2" do print(i) end
    <<fornum("i", <<<<int(3)>>, <<int(1)>>, <<op("-"), int(1)>>>>, <<ifs(<<<<<<var("i"), op("=="), int(2)>>,
      <<callstat(call(var("print"), <<<<var("i")>>>>))>>>>>>, <<<<locals(<<"j">>, <<<<var("i")>>>>),
      callstat(call(var("print"), <<<<var("j")>>, <<func(<<>>, FALSE, <<returns(<<<<var("j")>>>>)>>)>>>>))>>>>)>>),
      fornum("i", <<<<int(1)>>, <<str("2")>>>>, <<callstat(call(var("print"), <<<<var("i")>>>>))>>)>>,
    \* local function it(s, c) if c < s then return c + 1, c end end for k, v in it, 2, 0 do print(k, v) if
    \*   ext() then break end end
    <<localfunction("it", func(<<"s", "c">>, FALSE, <<ifs(<<<<<<var("c"), op("<"), var("s")>>,
      <<returns(<<<<var("c"), op("+"), int(1)>>, <<var("c")>>>>)>>>>>>, <<>>)>>)), forlist(<<"k", "v">>,
      <<<<var("it")>>, <<int(2)>>, <<int(0)>>>>, <<callstat(call(var("print"), <<<<var("k")>>, <<var("v")>>>>)),
      ifs(<<<<<<call(var("ext"), <<>>)>>, <<breaks>>>>>>, <<>>)>>)>>,
    \* return pcall(function() for i = 1, {} do print(i) end end)
    <<returns(<<<<call(var("pcall"), <<<<func(<<>>, FALSE, <<fornum("i", <<<<int(1)>>, <<table(<<>>)>>>>,
      <<callstat(call(var("print"), <<<<var("i")>>>>))>>)>>)>>>>)>>>>)>>}

\* Metamethods.
MetamethodsPrograms == {
    \* local t = setmetatable({}, {__index = function(t, k) return k end, __call = function(self, x) return x
    \*   end, __newindex = function(t, k, v) print(k, v) end}) t.x = 1 print(t.y, t(5)) return t.z
    <<locals(<<"t">>, <<<<call(var("setmetatable"), <<<<table(<<>>)>>, <<table(<<field(<<str("__index")>>,
      <<func(<<"t", "k">>, FALSE, <<returns(<<<<var("k")>>>>)>>)>>), field(<<str("__call")>>, <<func(<<"self",
      "x">>, FALSE, <<returns(<<<<var("x")>>>>)>>)>>), field(<<str("__newindex")>>, <<func(<<"t", "k", "v">>, FALSE,
      <<callstat(call(var("print"), <<<<var("k")>>, <<var("v")>>>>))>>)>>)>>)>>>>)>>>>), assign(<<index(var("t"),
      <<str("x")>>)>>, <<<<int(1)>>>>), callstat(call(var("print"), <<<<index(var("t"), <<str("y")>>)>>,
      <<call(var("t"), <<<<int(5)>>>>)>>>>)), returns(<<<<index(var("t"), <<str("z")>>)>>>>)>>,
    \* local m = {__add = function(a, b) return 7 end, __eq = function(a, b) return 1 end, __lt = function()
    \*   return nil end, __concat = function(a, b) return "a" end} local a, b = setmetatable({}, m),
    \*   setmetatable({}, m) print(a + 1, 1 + b, a == b, a ~= b, a < b, a <= b, a > b, "b" .. a .. "c", a .. 1)
    <<locals(<<"m">>, <<<<table(<<field(<<str("__add")>>, <<func(<<"a", "b">>, FALSE,
      <<returns(<<<<int(7)>>>>)>>)>>), field(<<str("__eq")>>, <<func(<<"a", "b">>, FALSE,
      <<returns(<<<<int(1)>>>>)>>)>>), field(<<str("__lt")>>, <<func(<<>>, FALSE, <<returns(<<<<nil>>>>)>>)>>),
      field(<<str("__concat")>>, <<func(<<"a", "b">>, FALSE, <<returns(<<<<str("a")>>>>)>>)>>)>>)>>>>),
      locals(<<"a", "b">>, <<<<call(var("setmetatable"), <<<<table(<<>>)>>, <<var("m")>>>>)>>,
      <<call(var("setmetatable"), <<<<table(<<>>)>>, <<var("m")>>>>)>>>>), callstat(call(var("print"), <<<<var("a"),
      op("+"), int(1)>>, <<int(1), op("+"), var("b")>>, <<var("a"), op("=="), var("b")>>, <<var("a"), op("~="),
      var("b")>>, <<var("a"), op("<"), var("b")>>, <<var("a"), op("<="), var("b")>>, <<var("a"), op(">"),
      var("b")>>, <<str("b"), op(".."), var("a"), op(".."), str("c")>>, <<var("a"), op(".."), int(1)>>>>))>>,
    \* local p = setmetatable({x = 1}, {__index = {y = 2}}) local c = setmetatable({}, {__index = p}) print(c.x,
    \*   c.y, c.z) c.x = 3 print(c.x, p.x)
    <<locals(<<"p">>, <<<<call(var("setmetatable"), <<<<table(<<field(<<str("x")>>, <<int(1)>>)>>)>>,
      <<table(<<field(<<str("__index")>>, <<table(<<field(<<str("y")>>, <<int(2)>>)>>)>>)>>)>>>>)>>>>),
      locals(<<"c">>, <<<<call(var("setmetatable"), <<<<table(<<>>)>>, <<table(<<field(<<str("__index")>>,
      <<var("p")>>)>>)>>>>)>>>>), callstat(call(var("print"), <<<<index(var("c"), <<str("x")>>)>>, <<index(var("c"),
      <<str("y")>>)>>, <<index(var("c"), <<str("z")>>)>>>>)), assign(<<index(var("c"), <<str("x")>>)>>,
      <<<<int(3)>>>>), callstat(call(var("print"), <<<<index(var("c"), <<str("x")>>)>>, <<index(var("p"),
      <<str("x")>>)>>>>))>>,
    \* local a = {} setmetatable(a, {__index = a, __newindex = a}) print(pcall(function() return a.x end))
    \*   print(pcall(function() a.x = 1 end))
    <<locals(<<"a">>, <<<<table(<<>>)>>>>), callstat(call(var("setmetatable"), <<<<var("a")>>,
      <<table(<<field(<<str("__index")>>, <<var("a")>>), field(<<str("__newindex")>>, <<var("a")>>)>>)>>>>)),
      callstat(call(var("print"), <<<<call(var("pcall"), <<<<func(<<>>, FALSE, <<returns(<<<<index(var("a"),
      <<str("x")>>)>>>>)>>)>>>>)>>>>)), callstat(call(var("print"), <<<<call(var("pcall"), <<<<func(<<>>, FALSE,
      <<assign(<<index(var("a"), <<str("x")>>)>>, <<<<int(1)>>>>)>>)>>>>)>>>>))>>,
    \* local s = setmetatable({}, {__index = function(t, k) return ext(k) end, __unm = function(x) return 5
    \*   end}) print(-s, s.a == s[1]) return -s + s.x
    <<locals(<<"s">>, <<<<call(var("setmetatable"), <<<<table(<<>>)>>, <<table(<<field(<<str("__index")>>,
      <<func(<<"t", "k">>, FALSE, <<returns(<<<<call(var("ext"), <<<<var("k")>>>>)>>>>)>>)>>),
      field(<<str("__unm")>>, <<func(<<"x">>, FALSE, <<returns(<<<<int(5)>>>>)>>)>>)>>)>>>>)>>>>),
      callstat(call(var("print"), <<<<op("-"), var("s")>>, <<index(var("s"), <<str("a")>>), op("=="),
      index(var("s"), <<int(1)>>)>>>>)), returns(<<<<op("-"), var("s"), op("+"), index(var("s"),
      <<str("x")>>)>>>>)>>,
    \* local s = setmetatable({}, {__index = ext, __le = ext}) return s <= s, s.x
    <<locals(<<"s">>, <<<<call(var("setmetatable"), <<<<table(<<>>)>>, <<table(<<field(<<str("__index")>>,
      <<var("ext")>>), field(<<str("__le")>>, <<var("ext")>>)>>)>>>>)>>>>), returns(<<<<var("s"), op("<="),
      var("s")>>, <<index(var("s"), <<str("x")>>)>>>>)>>}

\* Errors, and what pcall leaves behind.
ErrorsPrograms == {
    \* print(pcall(function() local x = 1 local f = function() return x end error({x}) end)) print(pcall(error))
    \*   print(pcall(ext, 1)) return pcall()
    <<callstat(call(var("print"), <<<<call(var("pcall"), <<<<func(<<>>, FALSE, <<locals(<<"x">>, <<<<int(1)>>>>),
      locals(<<"f">>, <<<<func(<<>>, FALSE, <<returns(<<<<var("x")>>>>)>>)>>>>), callstat(call(var("error"),
      <<<<table(<<item(<<var("x")>>)>>)>>>>))>>)>>>>)>>>>)), callstat(call(var("print"), <<<<call(var("pcall"),
      <<<<var("error")>>>>)>>>>)), callstat(call(var("print"), <<<<call(var("pcall"), <<<<var("ext")>>,
      <<int(1)>>>>)>>>>)), returns(<<<<call(var("pcall"), <<>>)>>>>)>>,
    \* return pcall(pcall, error, {1})
    <<returns(<<<<call(var("pcall"), <<<<var("pcall")>>, <<var("error")>>,
      <<table(<<item(<<int(1)>>)>>)>>>>)>>>>)>>,
    \* local ok, e = pcall(function() local a = 1 local g = function() a = a + 1 return a end pcall(function()
    \*   error(g) end) error(g) end) print(ok, e(), e())
    <<locals(<<"ok", "e">>, <<<<call(var("pcall"), <<<<func(<<>>, FALSE, <<locals(<<"a">>, <<<<int(1)>>>>),
      locals(<<"g">>, <<<<func(<<>>, FALSE, <<assign(<<var("a")>>, <<<<var("a"), op("+"), int(1)>>>>),
      returns(<<<<var("a")>>>>)>>)>>>>), callstat(call(var("pcall"), <<<<func(<<>>, FALSE,
      <<callstat(call(var("error"), <<<<var("g")>>>>))>>)>>>>)), callstat(call(var("error"),
      <<<<var("g")>>>>))>>)>>>>)>>>>), callstat(call(var("print"), <<<<var("ok")>>, <<call(var("e"), <<>>)>>,
      <<call(var("e"), <<>>)>>>>))>>,
    \* local ok, e = pcall(function(x) local a = x local g = function() a = a + 1 return a end ext() error(g)
    \*   end, 5) local y, z = 8, 9 print(ok) if not ok then return y, z, e() end
    <<locals(<<"ok", "e">>, <<<<call(var("pcall"), <<<<func(<<"x">>, FALSE, <<locals(<<"a">>, <<<<var("x")>>>>),
      locals(<<"g">>, <<<<func(<<>>, FALSE, <<assign(<<var("a")>>, <<<<var("a"), op("+"), int(1)>>>>),
      returns(<<<<var("a")>>>>)>>)>>>>), callstat(call(var("ext"), <<>>)), callstat(call(var("error"),
      <<<<var("g")>>>>))>>)>>, <<int(5)>>>>)>>>>), locals(<<"y", "z">>, <<<<int(8)>>, <<int(9)>>>>),
      callstat(call(var("print"), <<<<var("ok")>>>>)), ifs(<<<<<<op("not"), var("ok")>>, <<returns(<<<<var("y")>>,
      <<var("z")>>, <<call(var("e"), <<>>)>>>>)>>>>>>, <<>>)>>,
    \* print(pcall(function(...) local a, b = ... return a + b end, ext()))
    <<callstat(call(var("print"), <<<<call(var("pcall"), <<<<func(<<>>, TRUE, <<locals(<<"a", "b">>, <<<<dots>>>>),
      returns(<<<<var("a"), op("+"), var("b")>>>>)>>)>>, <<call(var("ext"), <<>>)>>>>)>>>>))>>,
    \* return 1 < 2, "a" < "b", "b" <= "a", 1 == "1", 1 .. "", 1 % 0 == 1 % 0, pcall(function() return 1 < "2"
    \*   end)
    <<returns(<<<<int(1), op("<"), int(2)>>, <<str("a"), op("<"), str("b")>>, <<str("b"), op("<="), str("a")>>,
      <<int(1), op("=="), str("1")>>, <<int(1), op(".."), str("")>>, <<int(1), op("%"), int(0), op("=="), int(1),
      op("%"), int(0)>>, <<call(var("pcall"), <<<<func(<<>>, FALSE, <<returns(<<<<int(1), op("<"),
      str("2")>>>>)>>)>>>>)>>>>)>>,
    \* local t = {} t[nil] = ext()
    <<locals(<<"t">>, <<<<table(<<>>)>>>>), assign(<<index(var("t"), <<nil>>)>>, <<<<call(var("ext"), <<>>)>>>>)>>,
    \* return setmetatable(ext(), {})
    <<returns(<<<<call(var("setmetatable"), <<<<call(var("ext"), <<>>)>>, <<table(<<>>)>>>>)>>>>)>>}

\* The functions on strings.
StringsPrograms == {
    \* local s = "aBc1" print(s:len(), s:sub(2), s:sub(-2, -2), s:sub(0), s:sub(3, 99), s:sub(4, 2),
    \*   s:reverse(), s:lower(), s:upper(), s:rep(2), s:rep(-1))
    <<locals(<<"s">>, <<<<str("aBc1")>>>>), callstat(call(var("print"), <<<<method(var("s"), "len", <<>>)>>,
      <<method(var("s"), "sub", <<<<int(2)>>>>)>>, <<method(var("s"), "sub", <<<<op("-"), int(2)>>, <<op("-"),
      int(2)>>>>)>>, <<method(var("s"), "sub", <<<<int(0)>>>>)>>, <<method(var("s"), "sub", <<<<int(3)>>,
      <<int(99)>>>>)>>, <<method(var("s"), "sub", <<<<int(4)>>, <<int(2)>>>>)>>, <<method(var("s"), "reverse",
      <<>>)>>, <<method(var("s"), "lower", <<>>)>>, <<method(var("s"), "upper", <<>>)>>, <<method(var("s"), "rep",
      <<<<int(2)>>>>)>>, <<method(var("s"), "rep", <<<<op("-"), int(1)>>>>)>>>>))>>,
    \* local s = "aBc" print(s:byte(), s:byte(2, 9), s:byte(-1), string.char(), string.char(97, "98"), s:byte(0,
    \*   1)) print(("12"):len(), string.len(12), ("").len)
    <<locals(<<"s">>, <<<<str("aBc")>>>>), callstat(call(var("print"), <<<<method(var("s"), "byte", <<>>)>>,
      <<method(var("s"), "byte", <<<<int(2)>>, <<int(9)>>>>)>>, <<method(var("s"), "byte", <<<<op("-"),
      int(1)>>>>)>>, <<call(index(var("string"), <<str("char")>>), <<>>)>>, <<call(index(var("string"),
      <<str("char")>>), <<<<int(97)>>, <<str("98")>>>>)>>, <<method(var("s"), "byte", <<<<int(0)>>,
      <<int(1)>>>>)>>>>)), callstat(call(var("print"), <<<<method(paren(<<str("12")>>), "len", <<>>)>>,
      <<call(index(var("string"), <<str("len")>>), <<<<int(12)>>>>)>>, <<index(paren(<<str("")>>),
      <<str("len")>>)>>>>))>>,
    \* local s = "a.b.c" print(s:find("."), s:find(".", 2, true), s:find("%."), s:find("b", -3), s:find("b", 4),
    \*   s:find("", 9), s:find("", 2), s:find("c", 1, 1), s:match("a", 2))
    <<locals(<<"s">>, <<<<str("a.b.c")>>>>), callstat(call(var("print"), <<<<method(var("s"), "find",
      <<<<str(".")>>>>)>>, <<method(var("s"), "find", <<<<str(".")>>, <<int(2)>>, <<true>>>>)>>, <<method(var("s"),
      "find", <<<<str("%.")>>>>)>>, <<method(var("s"), "find", <<<<str("b")>>, <<op("-"), int(3)>>>>)>>,
      <<method(var("s"), "find", <<<<str("b")>>, <<int(4)>>>>)>>, <<method(var("s"), "find", <<<<str("")>>,
      <<int(9)>>>>)>>, <<method(var("s"), "find", <<<<str("")>>, <<int(2)>>>>)>>, <<method(var("s"), "find",
      <<<<str("c")>>, <<int(1)>>, <<int(1)>>>>)>>, <<method(var("s"), "match", <<<<str("a")>>,
      <<int(2)>>>>)>>>>))>>,
    \* print(("key = val"):match("^(%w+) *= *(%w+)$"), ("[x]"):find("[]]"), ("a-z"):match("[a%-z]+"),
    \*   ("2b"):match("[^%d]"), ("a]"):find("[^]]"), ("x-"):match("[a-]"))
    <<callstat(call(var("print"), <<<<method(paren(<<str("key = val")>>), "match",
      <<<<str("^(%w+) *= *(%w+)$")>>>>)>>, <<method(paren(<<str("[x]")>>), "find", <<<<str("[]]")>>>>)>>,
      <<method(paren(<<str("a-z")>>), "match", <<<<str("[a%-z]+")>>>>)>>, <<method(paren(<<str("2b")>>), "match",
      <<<<str("[^%d]")>>>>)>>, <<method(paren(<<str("a]")>>), "find", <<<<str("[^]]")>>>>)>>,
      <<method(paren(<<str("x-")>>), "match", <<<<str("[a-]")>>>>)>>>>))>>,
    \* print(pcall(string.find, "a", "[a"), pcall(string.find, "a", "%"), pcall(string.find, "ab", "a%1"),
    \*   pcall(string.match, "a", "(a"), pcall(string.match, "a", "a)"))
    <<callstat(call(var("print"), <<<<call(var("pcall"), <<<<index(var("string"), <<str("find")>>)>>, <<str("a")>>,
      <<str("[a")>>>>)>>, <<call(var("pcall"), <<<<index(var("string"), <<str("find")>>)>>, <<str("a")>>,
      <<str("%")>>>>)>>, <<call(var("pcall"), <<<<index(var("string"), <<str("find")>>)>>, <<str("ab")>>,
      <<str("a%1")>>>>)>>, <<call(var("pcall"), <<<<index(var("string"), <<str("match")>>)>>, <<str("a")>>,
      <<str("(a")>>>>)>>, <<call(var("pcall"), <<<<index(var("string"), <<str("match")>>)>>, <<str("a")>>,
      <<str("a)")>>>>)>>>>))>>,
    \* print(pcall(string.match, "a", "()()()()"), pcall(string.match, "ab", "b(("), pcall(string.find, "a",
    \*   "%b"), pcall(string.find, "a", "%f"), pcall(string.find, "b", "a%"))
    <<callstat(call(var("print"), <<<<call(var("pcall"), <<<<index(var("string"), <<str("match")>>)>>, <<str("a")>>,
      <<str("()()()()")>>>>)>>, <<call(var("pcall"), <<<<index(var("string"), <<str("match")>>)>>, <<str("ab")>>,
      <<str("b((")>>>>)>>, <<call(var("pcall"), <<<<index(var("string"), <<str("find")>>)>>, <<str("a")>>,
      <<str("%b")>>>>)>>, <<call(var("pcall"), <<<<index(var("string"), <<str("find")>>)>>, <<str("a")>>,
      <<str("%f")>>>>)>>, <<call(var("pcall"), <<<<index(var("string"), <<str("find")>>)>>, <<str("b")>>,
      <<str("a%")>>>>)>>>>))>>,
    \* print(pcall(string.rep), pcall(string.rep, {}, 1), pcall(string.sub, "a"), pcall(string.find, "a"),
    \*   pcall(string.char, "x"), pcall(string.gsub, "a", "a"), pcall(string.gmatch, "a"))
    <<callstat(call(var("print"), <<<<call(var("pcall"), <<<<index(var("string"), <<str("rep")>>)>>>>)>>,
      <<call(var("pcall"), <<<<index(var("string"), <<str("rep")>>)>>, <<table(<<>>)>>, <<int(1)>>>>)>>,
      <<call(var("pcall"), <<<<index(var("string"), <<str("sub")>>)>>, <<str("a")>>>>)>>, <<call(var("pcall"),
      <<<<index(var("string"), <<str("find")>>)>>, <<str("a")>>>>)>>, <<call(var("pcall"), <<<<index(var("string"),
      <<str("char")>>)>>, <<str("x")>>>>)>>, <<call(var("pcall"), <<<<index(var("string"), <<str("gsub")>>)>>,
      <<str("a")>>, <<str("a")>>>>)>>, <<call(var("pcall"), <<<<index(var("string"), <<str("gmatch")>>)>>,
      <<str("a")>>>>)>>>>))>>,
    \* for w in ("to be"):gmatch("%a+") do print(w) end for k, v in string.gmatch("a=1,b=2", "(%w)=(%w)") do
    \*   print(k, v) end for p in ("ab"):gmatch("()") do print(p) end
    <<forlist(<<"w">>, <<<<method(paren(<<str("to be")>>), "gmatch", <<<<str("%a+")>>>>)>>>>,
      <<callstat(call(var("print"), <<<<var("w")>>>>))>>), forlist(<<"k", "v">>, <<<<call(index(var("string"),
      <<str("gmatch")>>), <<<<str("a=1,b=2")>>, <<str("(%w)=(%w)")>>>>)>>>>, <<callstat(call(var("print"),
      <<<<var("k")>>, <<var("v")>>>>))>>), forlist(<<"p">>, <<<<method(paren(<<str("ab")>>), "gmatch",
      <<<<str("()")>>>>)>>>>, <<callstat(call(var("print"), <<<<var("p")>>>>))>>)>>,
    \* local f = ("aXbX"):gmatch("(.)X") local g = ("X"):gmatch("X") print(f(), g(), f(), g(), f()) return
    \*   pcall(("ab"):gmatch("%1"))
    <<locals(<<"f">>, <<<<method(paren(<<str("aXbX")>>), "gmatch", <<<<str("(.)X")>>>>)>>>>), locals(<<"g">>,
      <<<<method(paren(<<str("X")>>), "gmatch", <<<<str("X")>>>>)>>>>), callstat(call(var("print"),
      <<<<call(var("f"), <<>>)>>, <<call(var("g"), <<>>)>>, <<call(var("f"), <<>>)>>, <<call(var("g"), <<>>)>>,
      <<call(var("f"), <<>>)>>>>)), returns(<<<<call(var("pcall"), <<<<method(paren(<<str("ab")>>), "gmatch",
      <<<<str("%1")>>>>)>>>>)>>>>)>>}

\* Substitutions.
SubstitutionsPrograms == {
    \* print(("abc"):gsub("%w", "%0%0"), ("abc"):gsub("", "-"), ("abc"):gsub("b*", "x"), ("a b"):gsub("(%w)
    \*   (%w)", "%2%%%1"), ("aaa"):gsub("a", "b", 2), ("aa"):gsub("^a", "b"), ("a"):gsub("a", 1, 0))
    <<callstat(call(var("print"), <<<<method(paren(<<str("abc")>>), "gsub", <<<<str("%w")>>, <<str("%0%0")>>>>)>>,
      <<method(paren(<<str("abc")>>), "gsub", <<<<str("")>>, <<str("-")>>>>)>>, <<method(paren(<<str("abc")>>),
      "gsub", <<<<str("b*")>>, <<str("x")>>>>)>>, <<method(paren(<<str("a b")>>), "gsub", <<<<str("(%w) (%w)")>>,
      <<str("%2%%%1")>>>>)>>, <<method(paren(<<str("aaa")>>), "gsub", <<<<str("a")>>, <<str("b")>>, <<int(2)>>>>)>>,
      <<method(paren(<<str("aa")>>), "gsub", <<<<str("^a")>>, <<str("b")>>>>)>>, <<method(paren(<<str("a")>>),
      "gsub", <<<<str("a")>>, <<int(1)>>, <<int(0)>>>>)>>>>))>>,
    \* print(("a1b"):gsub("%w", {a = 1, ["1"] = false, b = "c"}), ("ab"):gsub("(a)(b)", {a = "x", b = "y"}),
    \*   ("ab"):gsub("()", {"x", "y"}), ("a"):gsub("a", setmetatable({}, {__index = function(t, k) return k .. k
    \*   end})))
    <<callstat(call(var("print"), <<<<method(paren(<<str("a1b")>>), "gsub", <<<<str("%w")>>,
      <<table(<<field(<<str("a")>>, <<int(1)>>), field(<<str("1")>>, <<false>>), field(<<str("b")>>,
      <<str("c")>>)>>)>>>>)>>, <<method(paren(<<str("ab")>>), "gsub", <<<<str("(a)(b)")>>,
      <<table(<<field(<<str("a")>>, <<str("x")>>), field(<<str("b")>>, <<str("y")>>)>>)>>>>)>>,
      <<method(paren(<<str("ab")>>), "gsub", <<<<str("()")>>, <<table(<<item(<<str("x")>>),
      item(<<str("y")>>)>>)>>>>)>>, <<method(paren(<<str("a")>>), "gsub", <<<<str("a")>>,
      <<call(var("setmetatable"), <<<<table(<<>>)>>, <<table(<<field(<<str("__index")>>, <<func(<<"t", "k">>, FALSE,
      <<returns(<<<<var("k"), op(".."), var("k")>>>>)>>)>>)>>)>>>>)>>>>)>>>>))>>,
    \* print(("ab"):gsub("%w", function(c) if c == "a" then return "x" end end), ("ab"):gsub("(a)(b)",
    \*   function(x, y) return y .. x end), ("ab"):gsub("()b", function(p) return p end))
    <<callstat(call(var("print"), <<<<method(paren(<<str("ab")>>), "gsub", <<<<str("%w")>>, <<func(<<"c">>, FALSE,
      <<ifs(<<<<<<var("c"), op("=="), str("a")>>, <<returns(<<<<str("x")>>>>)>>>>>>, <<>>)>>)>>>>)>>,
      <<method(paren(<<str("ab")>>), "gsub", <<<<str("(a)(b)")>>, <<func(<<"x", "y">>, FALSE,
      <<returns(<<<<var("y"), op(".."), var("x")>>>>)>>)>>>>)>>, <<method(paren(<<str("ab")>>), "gsub",
      <<<<str("()b")>>, <<func(<<"p">>, FALSE, <<returns(<<<<var("p")>>>>)>>)>>>>)>>>>))>>,
    \* print(pcall(string.gsub, "ab", "%w", function(c) print(c) if c == "b" then error({}) end return "z" end),
    \*   pcall(string.gsub, "a", "a", {a = {}}), pcall(string.gsub, "a", "a", "%1"), pcall(string.gsub, "a",
    \*   "a", "%2"))
    <<callstat(call(var("print"), <<<<call(var("pcall"), <<<<index(var("string"), <<str("gsub")>>)>>, <<str("ab")>>,
      <<str("%w")>>, <<func(<<"c">>, FALSE, <<callstat(call(var("print"), <<<<var("c")>>>>)), ifs(<<<<<<var("c"),
      op("=="), str("b")>>, <<callstat(call(var("error"), <<<<table(<<>>)>>>>))>>>>>>, <<>>),
      returns(<<<<str("z")>>>>)>>)>>>>)>>, <<call(var("pcall"), <<<<index(var("string"), <<str("gsub")>>)>>,
      <<str("a")>>, <<str("a")>>, <<table(<<field(<<str("a")>>, <<table(<<>>)>>)>>)>>>>)>>, <<call(var("pcall"),
      <<<<index(var("string"), <<str("gsub")>>)>>, <<str("a")>>, <<str("a")>>, <<str("%1")>>>>)>>,
      <<call(var("pcall"), <<<<index(var("string"), <<str("gsub")>>)>>, <<str("a")>>, <<str("a")>>,
      <<str("%2")>>>>)>>>>))>>,
    \* print(pcall(string.gsub, "a", "(a", "b"), pcall(string.gsub, "a", "(a", {}), pcall(string.gsub, "a",
    \*   "a)", print), pcall(string.gsub, "a", "(a", print), pcall(string.gsub, "a", "()(", {}),
    \*   pcall(string.gsub, "a", "a", true))
    <<callstat(call(var("print"), <<<<call(var("pcall"), <<<<index(var("string"), <<str("gsub")>>)>>, <<str("a")>>,
      <<str("(a")>>, <<str("b")>>>>)>>, <<call(var("pcall"), <<<<index(var("string"), <<str("gsub")>>)>>,
      <<str("a")>>, <<str("(a")>>, <<table(<<>>)>>>>)>>, <<call(var("pcall"), <<<<index(var("string"),
      <<str("gsub")>>)>>, <<str("a")>>, <<str("a)")>>, <<var("print")>>>>)>>, <<call(var("pcall"),
      <<<<index(var("string"), <<str("gsub")>>)>>, <<str("a")>>, <<str("(a")>>, <<var("print")>>>>)>>,
      <<call(var("pcall"), <<<<index(var("string"), <<str("gsub")>>)>>, <<str("a")>>, <<str("()(")>>,
      <<table(<<>>)>>>>)>>, <<call(var("pcall"), <<<<index(var("string"), <<str("gsub")>>)>>, <<str("a")>>,
      <<str("a")>>, <<true>>>>)>>>>))>>,
    \* local r = ("ab"):gsub(".", ext) print(r) return ("x y"):gsub("%w", function(c) return (("ab"):gsub("b",
    \*   c)) end)
    <<locals(<<"r">>, <<<<method(paren(<<str("ab")>>), "gsub", <<<<str(".")>>, <<var("ext")>>>>)>>>>),
      callstat(call(var("print"), <<<<var("r")>>>>)), returns(<<<<method(paren(<<str("x y")>>), "gsub",
      <<<<str("%w")>>, <<func(<<"c">>, FALSE, <<returns(<<<<paren(<<method(paren(<<str("ab")>>), "gsub",
      <<<<str("b")>>, <<var("c")>>>>)>>)>>>>)>>)>>>>)>>>>)>>,
    \* local n = 0 return ("aab"):gsub("a-b?", function(c) n = n + 1 print(n, c) return n end), n
    <<locals(<<"n">>, <<<<int(0)>>>>), returns(<<<<method(paren(<<str("aab")>>), "gsub", <<<<str("a-b?")>>,
      <<func(<<"c">>, FALSE, <<assign(<<var("n")>>, <<<<var("n"), op("+"), int(1)>>>>), callstat(call(var("print"),
      <<<<var("n")>>, <<var("c")>>>>)), returns(<<<<var("n")>>>>)>>)>>>>)>>, <<var("n")>>>>)>>}

\* The functions on tables.
ListsPrograms == {
    \* local t = {} table.insert(t, "a") table.insert(t, 1, "b") table.insert(t, 2, "c") print(t, #t,
    \*   table.remove(t, 1), table.remove(t), table.remove(t), table.remove(t), t)
    <<locals(<<"t">>, <<<<table(<<>>)>>>>), callstat(call(index(var("table"), <<str("insert")>>), <<<<var("t")>>,
      <<str("a")>>>>)), callstat(call(index(var("table"), <<str("insert")>>), <<<<var("t")>>, <<int(1)>>,
      <<str("b")>>>>)), callstat(call(index(var("table"), <<str("insert")>>), <<<<var("t")>>, <<int(2)>>,
      <<str("c")>>>>)), callstat(call(var("print"), <<<<var("t")>>, <<op("#"), var("t")>>,
      <<call(index(var("table"), <<str("remove")>>), <<<<var("t")>>, <<int(1)>>>>)>>, <<call(index(var("table"),
      <<str("remove")>>), <<<<var("t")>>>>)>>, <<call(index(var("table"), <<str("remove")>>), <<<<var("t")>>>>)>>,
      <<call(index(var("table"), <<str("remove")>>), <<<<var("t")>>>>)>>, <<var("t")>>>>))>>,
    \* local t = {1, 2, 3} table.insert(t, 2, 9) print(table.concat(t, ","), table.concat(t), table.concat(t,
    \*   "-", 2, 3), table.concat(t, "", 3, 2), table.remove(t, 9), table.getn(t), table.maxn({[7] = 1}),
    \*   table.maxn({}))
    <<locals(<<"t">>, <<<<table(<<item(<<int(1)>>), item(<<int(2)>>), item(<<int(3)>>)>>)>>>>),
      callstat(call(index(var("table"), <<str("insert")>>), <<<<var("t")>>, <<int(2)>>, <<int(9)>>>>)),
      callstat(call(var("print"), <<<<call(index(var("table"), <<str("concat")>>), <<<<var("t")>>,
      <<str(",")>>>>)>>, <<call(index(var("table"), <<str("concat")>>), <<<<var("t")>>>>)>>,
      <<call(index(var("table"), <<str("concat")>>), <<<<var("t")>>, <<str("-")>>, <<int(2)>>, <<int(3)>>>>)>>,
      <<call(index(var("table"), <<str("concat")>>), <<<<var("t")>>, <<str("")>>, <<int(3)>>, <<int(2)>>>>)>>,
      <<call(index(var("table"), <<str("remove")>>), <<<<var("t")>>, <<int(9)>>>>)>>, <<call(index(var("table"),
      <<str("getn")>>), <<<<var("t")>>>>)>>, <<call(index(var("table"), <<str("maxn")>>),
      <<<<table(<<field(<<int(7)>>, <<int(1)>>)>>)>>>>)>>, <<call(index(var("table"), <<str("maxn")>>),
      <<<<table(<<>>)>>>>)>>>>))>>,
    \* local t = {1, 2} table.insert(t, 4, 5) print(t[3], t[4], table.maxn(t), pcall(table.insert, t),
    \*   pcall(table.insert, t, 1, 2, 3), pcall(table.insert, t, "a", 2), pcall(table.concat, {1, {}, 2}),
    \*   pcall(table.setn, t, 1))
    <<locals(<<"t">>, <<<<table(<<item(<<int(1)>>), item(<<int(2)>>)>>)>>>>), callstat(call(index(var("table"),
      <<str("insert")>>), <<<<var("t")>>, <<int(4)>>, <<int(5)>>>>)), callstat(call(var("print"),
      <<<<index(var("t"), <<int(3)>>)>>, <<index(var("t"), <<int(4)>>)>>, <<call(index(var("table"),
      <<str("maxn")>>), <<<<var("t")>>>>)>>, <<call(var("pcall"), <<<<index(var("table"), <<str("insert")>>)>>,
      <<var("t")>>>>)>>, <<call(var("pcall"), <<<<index(var("table"), <<str("insert")>>)>>, <<var("t")>>,
      <<int(1)>>, <<int(2)>>, <<int(3)>>>>)>>, <<call(var("pcall"), <<<<index(var("table"), <<str("insert")>>)>>,
      <<var("t")>>, <<str("a")>>, <<int(2)>>>>)>>, <<call(var("pcall"), <<<<index(var("table"),
      <<str("concat")>>)>>, <<table(<<item(<<int(1)>>), item(<<table(<<>>)>>), item(<<int(2)>>)>>)>>>>)>>,
      <<call(var("pcall"), <<<<index(var("table"), <<str("setn")>>)>>, <<var("t")>>, <<int(1)>>>>)>>>>))>>,
    \* print(table.foreachi({4, 5, 6}, function(i, v) print(i, v) if i == 2 then return v end end),
    \*   table.foreachi({1}, ext), pcall(table.foreachi, {}), pcall(table.concat, {}, {}), pcall(table.remove))
    <<callstat(call(var("print"), <<<<call(index(var("table"), <<str("foreachi")>>), <<<<table(<<item(<<int(4)>>),
      item(<<int(5)>>), item(<<int(6)>>)>>)>>, <<func(<<"i", "v">>, FALSE, <<callstat(call(var("print"),
      <<<<var("i")>>, <<var("v")>>>>)), ifs(<<<<<<var("i"), op("=="), int(2)>>, <<returns(<<<<var("v")>>>>)>>>>>>,
      <<>>)>>)>>>>)>>, <<call(index(var("table"), <<str("foreachi")>>), <<<<table(<<item(<<int(1)>>)>>)>>,
      <<var("ext")>>>>)>>, <<call(var("pcall"), <<<<index(var("table"), <<str("foreachi")>>)>>,
      <<table(<<>>)>>>>)>>, <<call(var("pcall"), <<<<index(var("table"), <<str("concat")>>)>>, <<table(<<>>)>>,
      <<table(<<>>)>>>>)>>, <<call(var("pcall"), <<<<index(var("table"), <<str("remove")>>)>>>>)>>>>))>>,
    \* for i, v in ipairs({4, 5, nil, 6}) do print(i, v) end print(unpack({1, 2, 3})) print(unpack({1, 2, 3},
    \*   2), unpack({1, 2}, 2, 3)) print(pcall(unpack), pcall(ipairs))
    <<forlist(<<"i", "v">>, <<<<call(var("ipairs"), <<<<table(<<item(<<int(4)>>), item(<<int(5)>>), item(<<nil>>),
      item(<<int(6)>>)>>)>>>>)>>>>, <<callstat(call(var("print"), <<<<var("i")>>, <<var("v")>>>>))>>),
      callstat(call(var("print"), <<<<call(var("unpack"), <<<<table(<<item(<<int(1)>>), item(<<int(2)>>),
      item(<<int(3)>>)>>)>>>>)>>>>)), callstat(call(var("print"), <<<<call(var("unpack"),
      <<<<table(<<item(<<int(1)>>), item(<<int(2)>>), item(<<int(3)>>)>>)>>, <<int(2)>>>>)>>, <<call(var("unpack"),
      <<<<table(<<item(<<int(1)>>), item(<<int(2)>>)>>)>>, <<int(2)>>, <<int(3)>>>>)>>>>)),
      callstat(call(var("print"), <<<<call(var("pcall"), <<<<var("unpack")>>>>)>>, <<call(var("pcall"),
      <<<<var("ipairs")>>>>)>>>>))>>,
    \* print(select("#"), select("#", nil, nil), select(2, "a", "b", "c"), select(-1, "a", "b"), pcall(select,
    \*   0), pcall(select, -3, 1), pcall(select, "a"), pcall(select), select(5, 1))
    <<callstat(call(var("print"), <<<<call(var("select"), <<<<str("#")>>>>)>>, <<call(var("select"), <<<<str("#")>>,
      <<nil>>, <<nil>>>>)>>, <<call(var("select"), <<<<int(2)>>, <<str("a")>>, <<str("b")>>, <<str("c")>>>>)>>,
      <<call(var("select"), <<<<op("-"), int(1)>>, <<str("a")>>, <<str("b")>>>>)>>, <<call(var("pcall"),
      <<<<var("select")>>, <<int(0)>>>>)>>, <<call(var("pcall"), <<<<var("select")>>, <<op("-"), int(3)>>,
      <<int(1)>>>>)>>, <<call(var("pcall"), <<<<var("select")>>, <<str("a")>>>>)>>, <<call(var("pcall"),
      <<<<var("select")>>>>)>>, <<call(var("select"), <<<<int(5)>>, <<int(1)>>>>)>>>>))>>}

\* Errors with handlers, and the other base functions.
HandlersPrograms == {
    \* print(xpcall(function() error({1}) end, function(e) return {e, 2}, 3 end)) print(xpcall(function() return
    \*   1, 2 end, print)) print(xpcall(error, 1)) print(pcall(xpcall, error))
    <<callstat(call(var("print"), <<<<call(var("xpcall"), <<<<func(<<>>, FALSE, <<callstat(call(var("error"),
      <<<<table(<<item(<<int(1)>>)>>)>>>>))>>)>>, <<func(<<"e">>, FALSE, <<returns(<<<<table(<<item(<<var("e")>>),
      item(<<int(2)>>)>>)>>, <<int(3)>>>>)>>)>>>>)>>>>)), callstat(call(var("print"), <<<<call(var("xpcall"),
      <<<<func(<<>>, FALSE, <<returns(<<<<int(1)>>, <<int(2)>>>>)>>)>>, <<var("print")>>>>)>>>>)),
      callstat(call(var("print"), <<<<call(var("xpcall"), <<<<var("error")>>, <<int(1)>>>>)>>>>)),
      callstat(call(var("print"), <<<<call(var("pcall"), <<<<var("xpcall")>>, <<var("error")>>>>)>>>>))>>,
    \* local a = 1 print(xpcall(function() local x = 5 f = function() return x end local y = nil + 1 end,
    \*   function(m) a = f() x = f return m end), a, x()) return xpcall(ext, function(m) return m, 2 end)
    <<locals(<<"a">>, <<<<int(1)>>>>), callstat(call(var("print"), <<<<call(var("xpcall"), <<<<func(<<>>, FALSE,
      <<locals(<<"x">>, <<<<int(5)>>>>), assign(<<var("f")>>, <<<<func(<<>>, FALSE,
      <<returns(<<<<var("x")>>>>)>>)>>>>), locals(<<"y">>, <<<<nil, op("+"), int(1)>>>>)>>)>>, <<func(<<"m">>,
      FALSE, <<assign(<<var("a")>>, <<<<call(var("f"), <<>>)>>>>), assign(<<var("x")>>, <<<<var("f")>>>>),
      returns(<<<<var("m")>>>>)>>)>>>>)>>, <<var("a")>>, <<call(var("x"), <<>>)>>>>)),
      returns(<<<<call(var("xpcall"), <<<<var("ext")>>, <<func(<<"m">>, FALSE, <<returns(<<<<var("m")>>,
      <<int(2)>>>>)>>)>>>>)>>>>)>>,
    \* print(xpcall(function() print(pcall(error, 1)) print(xpcall(error, function() return 2 end)) error(3)
    \*   end, function() return pcall(error, {}) end))
    <<callstat(call(var("print"), <<<<call(var("xpcall"), <<<<func(<<>>, FALSE, <<callstat(call(var("print"),
      <<<<call(var("pcall"), <<<<var("error")>>, <<int(1)>>>>)>>>>)), callstat(call(var("print"),
      <<<<call(var("xpcall"), <<<<var("error")>>, <<func(<<>>, FALSE, <<returns(<<<<int(2)>>>>)>>)>>>>)>>>>)),
      callstat(call(var("error"), <<<<int(3)>>>>))>>)>>, <<func(<<>>, FALSE, <<returns(<<<<call(var("pcall"),
      <<<<var("error")>>, <<table(<<>>)>>>>)>>>>)>>)>>>>)>>>>))>>,
    \* print(pcall(assert, nil), pcall(assert, false, {}), pcall(assert), assert(1, 2), type(nil), type(1),
    \*   type(""), type({}), type(type), type(function() end), type(true), pcall(type))
    <<callstat(call(var("print"), <<<<call(var("pcall"), <<<<var("assert")>>, <<nil>>>>)>>, <<call(var("pcall"),
      <<<<var("assert")>>, <<false>>, <<table(<<>>)>>>>)>>, <<call(var("pcall"), <<<<var("assert")>>>>)>>,
      <<call(var("assert"), <<<<int(1)>>, <<int(2)>>>>)>>, <<call(var("type"), <<<<nil>>>>)>>, <<call(var("type"),
      <<<<int(1)>>>>)>>, <<call(var("type"), <<<<str("")>>>>)>>, <<call(var("type"), <<<<table(<<>>)>>>>)>>,
      <<call(var("type"), <<<<var("type")>>>>)>>, <<call(var("type"), <<<<func(<<>>, FALSE, <<>>)>>>>)>>,
      <<call(var("type"), <<<<true>>>>)>>, <<call(var("pcall"), <<<<var("type")>>>>)>>>>))>>,
    \* local t = setmetatable({}, {__index = function() return 1 end, __newindex = print, __eq = function()
    \*   return true end}) print(t.x, rawget(t, "x"), rawset(t, "x", 2) == t, t.x, t == setmetatable({}, nil),
    \*   rawequal(t, {}), rawequal(t, t))
    <<locals(<<"t">>, <<<<call(var("setmetatable"), <<<<table(<<>>)>>, <<table(<<field(<<str("__index")>>,
      <<func(<<>>, FALSE, <<returns(<<<<int(1)>>>>)>>)>>), field(<<str("__newindex")>>, <<var("print")>>),
      field(<<str("__eq")>>, <<func(<<>>, FALSE, <<returns(<<<<true>>>>)>>)>>)>>)>>>>)>>>>),
      callstat(call(var("print"), <<<<index(var("t"), <<str("x")>>)>>, <<call(var("rawget"), <<<<var("t")>>,
      <<str("x")>>>>)>>, <<call(var("rawset"), <<<<var("t")>>, <<str("x")>>, <<int(2)>>>>), op("=="), var("t")>>,
      <<index(var("t"), <<str("x")>>)>>, <<var("t"), op("=="), call(var("setmetatable"), <<<<table(<<>>)>>,
      <<nil>>>>)>>, <<call(var("rawequal"), <<<<var("t")>>, <<table(<<>>)>>>>)>>, <<call(var("rawequal"),
      <<<<var("t")>>, <<var("t")>>>>)>>>>))>>,
    \* print(pcall(error, "a", 0)) print(pcall(error, "a", 2), pcall(error, 1, "a")) print(pcall(error, 1, {}))
    \*   print(pcall(rawset, {}, nil, 1), pcall(rawget, 1, 2), pcall(rawequal, 1), rawequal(1, 1))
    \*   setmetatable(t or {}, {__metatable = 1}) return pcall(setmetatable, setmetatable({}, {__metatable =
    \*   1}), {})
    <<callstat(call(var("print"), <<<<call(var("pcall"), <<<<var("error")>>, <<str("a")>>, <<int(0)>>>>)>>>>)),
      callstat(call(var("print"), <<<<call(var("pcall"), <<<<var("error")>>, <<str("a")>>, <<int(2)>>>>)>>,
      <<call(var("pcall"), <<<<var("error")>>, <<int(1)>>, <<str("a")>>>>)>>>>)), callstat(call(var("print"),
      <<<<call(var("pcall"), <<<<var("error")>>, <<int(1)>>, <<table(<<>>)>>>>)>>>>)), callstat(call(var("print"),
      <<<<call(var("pcall"), <<<<var("rawset")>>, <<table(<<>>)>>, <<nil>>, <<int(1)>>>>)>>, <<call(var("pcall"),
      <<<<var("rawget")>>, <<int(1)>>, <<int(2)>>>>)>>, <<call(var("pcall"), <<<<var("rawequal")>>, <<int(1)>>>>)>>,
      <<call(var("rawequal"), <<<<int(1)>>, <<int(1)>>>>)>>>>)), callstat(call(var("setmetatable"), <<<<var("t"),
      op("or"), table(<<>>)>>, <<table(<<field(<<str("__metatable")>>, <<int(1)>>)>>)>>>>)),
      returns(<<<<call(var("pcall"), <<<<var("setmetatable")>>, <<call(var("setmetatable"), <<<<table(<<>>)>>,
      <<table(<<field(<<str("__metatable")>>, <<int(1)>>)>>)>>>>)>>, <<table(<<>>)>>>>)>>>>)>>}

\* local a, b = ext() and one of the statements below, for every x o y o z.
Operands    == {<<var("a")>>, <<op("not"), var("b")>>, <<var("a"), op("=="), int(1)>>}
Connectives == {<<op("and")>>, <<op("or")>>}
Expressions == {x \o o1 \o y \o o2 \o z : x, y, z \in Operands, o1, o2 \in Connectives}
               \cup {<<op("not"), paren(x \o o1 \o y)>> \o o2 \o z : x, y, z \in Operands, o1, o2 \in Connectives}
BothValues  == locals(<<"a", "b">>, <<<<call(var("ext"), <<>>)>>>>)
BooleanPrograms ==
    {<<BothValues, returns(<<e>>)>> : e \in Expressions}
    \cup {<<BothValues, assign(<<var("a")>>, <<e>>), returns(<<<<var("a")>>>>)>> : e \in Expressions}
    \cup {<<BothValues, ifs(<<<<e, <<returns(<<<<int(1)>>>>)>>>>>>, <<>>)>> : e \in Expressions}

\* Patterns of up to three of these items: the first match, and all of them.
Pieces   == {"a", ".", "b*", "%w-", "(", ")", "()", "%1", "[^a]+", "a?", "$", "%bab", "%f[b]"}
Few      == {"a", "b*", "%w-", "(", ")", "%1", "a?"}
Patterns == {x \o y : x \in Pieces, y \in Pieces \cup {""}} \cup {x \o y \o z : x, y, z \in Few} \cup {"(" \o x \o ")" \o y : x, y \in Pieces}
PatternPrograms ==
    {<<returns(<<<<method(paren(<<str(s)>>), "find", <<<<str(p)>>>>)>>>>)>> : s \in {"", "abba", "babab"}, p \in Patterns}
    \cup {<<returns(<<<<method(paren(<<str("abbaab")>>), "gsub", <<<<str(p)>>, <<str("<%0>")>>>>)>>>>)>> : p \in Patterns}

\* Every program as it is compiled, and as it is after it was dumped and
\* loaded: another one only if something was lost on the way.
MCPrograms  ==
    LET Compiled(b) == LET m == P!luaY_parser(b)
                           c == D!luaU_undump(D!luaU_dump(m.f))
                       IN  {[text |-> b, f |-> m.f, ok |-> m.ok /\ c.why = ""]}
                           \cup {[text |-> b, f |-> f, ok |-> m.ok] : f \in IF c.why = "" THEN {c.v} ELSE {}}
    IN  UNION {Compiled(b) : b \in BooleanPrograms \cup PatternPrograms \cup ConditionsPrograms \cup VariablesPrograms \cup AssignmentsPrograms \cup TablesPrograms \cup CallsPrograms \cup LoopsPrograms \cup MetamethodsPrograms \cup ErrorsPrograms \cup StringsPrograms \cup SubstitutionsPrograms \cup ListsPrograms \cup HandlersPrograms}
MCResults   == {<<>>, <<Bool(FALSE), Num(2)>>, <<Num(1), Num(2), Num(3)>>}
MCCollation == <<"", "a", "b">>
\* The printable characters but the quotes and the backslash, and the C locale for them.
MCCharset ==
    LET ascii == " !#$%&'()*+,-./0123456789:;<=>?@ABCDEFGHIJKLMNOPQRSTUVWXYZ[]^_abcdefghijklmnopqrstuvwxyz{|}~"
        Nth(i) == SubSeq(ascii, i, i)
        code(i) == 31 + i + (IF i > 2 THEN 1 ELSE 0) + (IF i > 59 THEN 1 ELSE 0) + IF i > 62 THEN 1 ELSE 0
    IN  ("" :> 0) @@ [c \in {Nth(i) : i \in 1 .. Len(ascii)} |-> code(CHOOSE i \in 1 .. Len(ascii) : Nth(i) = c)]
MCCtype ==
    LET chars == MCCharset
        Run(a, z) == {c \in DOMAIN chars : chars[a] <= chars[c] /\ chars[c] <= chars[z]}
        alpha == Run("a", "z") \cup Run("A", "Z")
        alnum == alpha \cup Run("0", "9")
    IN  [alpha |-> alpha, cntrl |-> {""}, digit |-> Run("0", "9"), lower |-> Run("a", "z"),
         punct |-> Run("!", "~") \ alnum, space |-> {" "}, upper |-> Run("A", "Z"), alnum |-> alnum,
         xdigit |-> Run("0", "9") \cup Run("a", "f") \cup Run("A", "F")]
MCLower ==
    LET chars == MCCharset
    IN  [c \in {d \in DOMAIN chars : 65 <= chars[d] /\ chars[d] <= 90} |->
            CHOOSE d \in DOMAIN chars : chars[d] = chars[c] + 32]
=============================================================================
