----------------------------- MODULE MCPlugins -----------------------------
(***************************************************************************)
(* A global factory and a session factory whose parent it is; the Lua and *)
(* JSC data models and an SCXML invoker with two names; a plugin that      *)
(* declares no names; custom executable content in the SCXML namespace    *)
(* and in "" (as getNamespace() may return it).                            *)
(***************************************************************************)
EXTENDS Plugins

MCFactories == {"global", "session"}
MCParent == ("global" :> NoParent) @@ ("session" :> "global")
MCKinds == {"datamodel", "invoker"}
MCPlugins == ("datamodel" :> {"LuaDataModel", "JSCDataModel", "Unnamed"})
             @@ ("invoker" :> {"SCXMLInvoker", "Unnamed"})
MCNames == ("LuaDataModel" :> <<"lua">>) @@ ("JSCDataModel" :> <<"ecmascript">>)
           @@ ("SCXMLInvoker" :> <<"scxml", "lua">>) @@ ("Unnamed" :> << >>)
MCTypes == {"lua", "ecmascript", "scxml"}
MCExecContents == {[localName |-> "custom", nameSpace |-> "scxmlns"],
                   [localName |-> "custom", nameSpace |-> ""]}
MCNameSpaces == {"", "scxmlns", "otherns"}
MCDataModelOf == ("LuaDataModel" :> "lua") @@ ("JSCDataModel" :> "jsc")
MCLocs == {"_sessionid", "_event", "x", "a"}
(* An event built with nothing stamped, and one forwarded from a child    *)
(* session that already carries every field.                               *)
MCSentEvents == {[eventType |-> UNSET, origin |-> "", origintype |-> "", invokeid |-> ""],
                 [eventType |-> "EXTERNAL", origin |-> "#_child", origintype |-> "scxmltype",
                  invokeid |-> "child"]}
=============================================================================
