--------------------------- MODULE MCConfigEditor ---------------------------
(***************************************************************************)
(* ConfigEditor for TLC, on a cut of the schema of .build.toml.            *)
(***************************************************************************)
EXTENDS ConfigEditor

Of(type) == [Node EXCEPT !.types = <<type>>]
Ref(name) == [Node EXCEPT !.ref = name]
Struct(props, required) == [Node EXCEPT !.types = <<"object">>, !.props = props, !.required = required]
Tagged(name) == Struct(<<<<name, Ref(name)>>>>, {name})
Null == Of("null")

MCDefs ==
  "Custom" :> Struct(<<<<"build_cmd", Of("string")>>, <<"to_bin", Of("boolean")>>>>, {"build_cmd"})
  @@ "Cargo" :> Struct(<<<<"args", Of("array")>>, <<"env", Struct(<<>>, {})>>, <<"features", Of("array")>>,
                         <<"log", [Node EXCEPT !.anyOf = <<Ref("LogLevel"), Null>>]>>,
                         <<"package", Of("string")>>, <<"target", Of("string")>>>>, {"args", "env", "features", "package", "target"})
  @@ "LogLevel" :> [Node EXCEPT !.oneOf = <<[Of("string") EXCEPT !.const = "Info"], [Of("string") EXCEPT !.const = "Warn"]>>]
  @@ "Artifacts" :> Struct(<<<<"jobs", [Node EXCEPT !.types = <<"integer", "null">>]>>, <<"out", Of("string")>>>>, {"out"})
  @@ "BuildSystem" :> [Node EXCEPT !.oneOf = <<Tagged("Custom"), Tagged("Cargo")>>]
MCRoot == Struct(<<<<"artifacts", Ref("Artifacts")>>, <<"system", Ref("BuildSystem")>>>>, {"system"})

MCNumberOf == "1" :> 1 @@ "07" :> 7

MCPackagePath == <<"system", "package">>
MCHooks == <<"system", "package">> :> "package" @@ <<"system", "features">> :> "features"
           @@ <<"system", "target">> :> "target"
MCOptions == <<"system", "package">> :> <<"p", "q">> @@ <<"system", "target">> :> {<<"t">>, <<"t", "u">>}
             @@ <<"system", "features">> :> ("p" :> <<"f", "g">> @@ "q" :> <<"g">>)

Cargo(args, env, features, package) ==
  Obj(<<<<"system", Obj(<<<<"Cargo", Obj(<<<<"args", <<"arr", args>>>>, <<"env", Obj(env)>>, <<"features", <<"arr", features>>>>,
                                         <<"log", Str("Info")>>, <<"package", Str(package)>>, <<"target", Str("t")>>>>)>>>>)>>>>)
MCFiles ==
  {None,
   Cargo(<<Str("f"), Str("x")>>, <<<<"K", Str("v")>>>>, <<Str("f"), Str("x")>>, "p"),
   Obj(<<<<"about", Str("n")>>, <<"artifacts", Obj(<<<<"jobs", <<"num", 1>>>>, <<"out", Str("t")>>>>)>>,
         <<"system", Obj(<<<<"Custom", Obj(<<<<"build_cmd", Str("make")>>>>)>>>>)>>>>),
   Obj(<<<<"system", Obj(<<<<"Cargo", Obj(<<>>)>>>>)>>>>),
   Obj(<<<<"system", Str("Custom")>>>>)}
=============================================================================
