---------------------------- MODULE MCMigrations ----------------------------
(* Opening a store: which one it is, and bringing it to this release's schema. *)
(* Migrations in small: two that create tables, one that adds a column (005),   *)
(* one that rebuilds a parent (018).  Stores: a repository and a package of it  *)
(* that is also seen through another mount; the package's file comes first.     *)
(* Each starting state exercises one of the two.                                *)
EXTENDS Migrations, ProjectStores

VARIABLE suite

Places3 == {<<"root", "c">>, <<"b", "c">>, <<"b", "mnt">>}
Names4  == <<<<"b", "c">>, <<"root", "mnt">>, <<"root", "c">>, <<"b", "mnt">>>>

MCInit == /\ MigrationsInit /\ StoresInit
          /\ \/ suite = "migrations" /\ ~git
             \/ suite = "stores" /\ version = -1
MCNext == \/ suite = "migrations" /\ MigrationsNext /\ UNCHANGED <<suite, storeVars>>
          \/ suite = "stores" /\ StoresNext /\ UNCHANGED <<suite, vars>>
MCSpec == MCInit /\ [][MCNext]_<<suite, vars, storeVars>>
=============================================================================
