--------------------------- MODULE SchemaHistory ---------------------------
(***************************************************************************)
(* The 21 migration classes of src/migrations/versions as data: what each  *)
(* statement needs of the schema, what it adds and what it removes.        *)
(*                                                                         *)
(* The database is a set of objects: <<table>>, <<table, part>> for a      *)
(* column, an index or the rows one statement inserts, and                 *)
(* <<table, part, "twice">> when those rows are there more than once.      *)
(* Column types, enumerations and the values an UPDATE writes are left     *)
(* out.                                                                    *)
(***************************************************************************)
EXTENDS Naturals, Sequences, TLC

CONSTANT Cards  \* names of the rows of bank_account before its data is moved

Statement(kind, table, part) == [kind |-> kind, table |-> table, part |-> part]

CreateTable(t, parts) == Statement("create table", t, parts) \* IF NOT EXISTS
AddPart(t, p) == Statement("add", t, p)                      \* column or index
AddUnique(t, p) == Statement("add unique", t, p)             \* unnamed key
SwapIndex(t, old, new) == Statement("swap index", t, <<old, new>>)
Modify(t, c) == Statement("modify", t, c)
DropTable(t) == Statement("drop table", t, "")
DropTableIfExists(t) == Statement("drop if exists", t, "")
Insert(t, rows) == Statement("insert", t, rows)
Update(t) == Statement("update", t, "")
Select(t) == Statement("select", t, "")
\* An INSERT nobody awaits, with its primary key: its error ends the process.
InsertDetached(t, row) == Statement("insert detached", t, row)

\* Statements that MySQL runs outside of any transaction.
IsDDL(s) == s.kind \notin {"insert", "insert detached", "update", "select"}

\* A second insert of the same rows is a duplicate key.
Keyed(s, db) ==
  \/ s.kind = "insert detached"
  \/ s.kind = "insert" /\ <<s.table, "unique name">> \in db

RowsTwice(t, db) == \E o \in db : Len(o) = 3 /\ o[1] = t

\* The statement is an error on this database.
Refused(s, db) ==
  \/ /\ s.kind \notin {"create table", "drop if exists"}
     /\ <<s.table>> \notin db
  \/ s.kind = "add" /\ <<s.table, s.part>> \in db
  \/ s.kind = "add unique" /\ RowsTwice(s.table, db)
  \/ s.kind = "modify" /\ <<s.table, s.part>> \notin db
  \/ s.kind = "swap index" /\ <<s.table, s.part[1]>> \notin db
  \/ Keyed(s, db) /\ <<s.table, s.part>> \in db

\* The database after the statement.
Result(s, db) ==
  CASE s.kind = "create table" ->
         IF <<s.table>> \in db THEN db
         ELSE db \cup {<<s.table>>} \cup {<<s.table, p>> : p \in s.part}
    [] s.kind \in {"add", "add unique"} -> db \cup {<<s.table, s.part>>}
    [] s.kind \in {"drop table", "drop if exists"} -> {o \in db : o[1] # s.table}
    [] s.kind = "swap index" ->
         (db \ {<<s.table, s.part[1]>>}) \cup {<<s.table, s.part[2]>>}
    [] s.kind \in {"insert", "insert detached"} ->
         IF <<s.table, s.part>> \in db
         THEN db \cup {<<s.table, s.part, "twice">>}
         ELSE db \cup {<<s.table, s.part>>}
    [] OTHER -> db

-----------------------------------------------------------------------------
\* The tables that are older than the first version, as far as it needs them:
\* sql/tables.sql and the files of sql/ that came after it (payment, invoices,
\* modules, clients and the status columns), which were run by hand.
BaseSchema ==
  {<<t>> : t \in {"clients", "expense", "revenue", "payment", "invoices",
                  "bank_account", "modules"}}
  \cup {<<"expense", "status">>, <<"invoices", "status">>}

\* A class: its version, its statements, and those it runs before a deploy.
Class(version, execute) ==
  [version |-> version, execute |-> execute, beforeDeploy |-> <<>>,
   transactional |-> FALSE]

TesteMigration1 == Class(2026022701, <<Update("clients")>>)
TesteMigration2 == Class(2026022702, <<Update("clients")>>)

CriaFinancialEvents == Class(2026022801,
  <<CreateTable("financial_events", {"type", "idx_client_sequence"}),
    AddPart("revenue", "status"), AddPart("revenue", "paymentDate"),
    Modify("expense", "status"), Modify("revenue", "status"),
    AddPart("payment", "reversed"), AddPart("payment", "accountId"),
    Modify("invoices", "status"), AddPart("payment", "reversal"),
    Modify("revenue", "status"), Modify("expense", "status")>>)

\* The script reads every row and inserts each as a credit card, awaiting
\* none: the driver still runs them in order and before what follows.
MigraDadosCreditCards ==
  <<Select("bank_account")>>
    \o [i \in DOMAIN Cards |-> InsertDetached("credit_cards", Cards[i])]

MigraRegistrosCreditCards == Class(2026032001,
  <<CreateTable("credit_cards", {})>> \o MigraDadosCreditCards)
DropaTableBankAccountVelha == Class(2026032002, <<DropTable("bank_account")>>)
CriaNovaTabelaBankAccounts == Class(2026032003, <<CreateTable("bank_accounts", {})>>)
CriaModuloCartoesCredito == Class(2026032004, <<Insert("modules", "creditCards")>>)
AdicionaColunaIdBankAccount == Class(2026032005,
  <<AddPart("expense", "idBankAccount"), AddPart("revenue", "idBankAccount")>>)
\* Mutant: the class is written without the column that a later one modifies.
CriaTableLedgerEntriesShort == Class(2026032101,
  <<CreateTable("ledger_entries", {}), CreateTable("ledger_event_processing", {})>>)

CriaTableLedgerEntries == Class(2026032101,
  <<CreateTable("ledger_entries", {"type"}),
    CreateTable("ledger_event_processing", {})>>)
CriaTabelasModuloCobrancas == Class(2026032701,
  [i \in 1..6 |-> CreateTable(<<"gateways", "gateway_configs", "payment_methods",
                                "billing_rules", "customer", "charges">>[i], {})]
  \o <<Insert("payment_methods", "codes"), CreateTable("payment_method_client", {}),
       CreateTable("charges_events", {}), CreateTable("charges_processing", {})>>)
AlteraTableRevenues == Class(2026032702,
  <<AddPart("revenue", "customerId"), AddPart("revenue", "paymentMethodId")>>)
InsertModulosCobrancas == Class(2026032901,
  <<AddUnique("modules", "unique name"), Insert("gateways", "Pagar.me"),
    Insert("modules", "billing"), Update("modules"), Update("modules")>>)
AdicionaEventosFinanceirosLedger == Class(2026040801,
  <<Modify("financial_events", "type"), Modify("ledger_entries", "type")>>)
AlteraTableFinancialEvents == Class(2026041001,
  <<SwapIndex("financial_events", "idx_client_sequence", "ux_client_sequence"),
    AddPart("financial_events", "idx_client_sequence_desc")>>)
CriaTabelaTransfer == Class(2026041201, <<CreateTable("transfer", {})>>)
AlteraEnumFinancialEvents == Class(2026041202, <<Modify("financial_events", "type")>>)
InsereModuloTransferencias == Class(2026041203,
  <<Insert("modules", "transfers"), Update("modules")>>)
CriaTabelaLedgerSnapshots == Class(2026041204, <<CreateTable("ledger_snapshots", {})>>)
CriaTabelaLedgerBuilds == Class(2026041205, <<CreateTable("ledger_builds", {})>>)
CriaTabelaLedgerMonthlyBuilds == Class(2026041301,
  <<CreateTable("ledger_monthly_builds", {}),
    AddPart("financial_events", "idx_client_type_occurred")>>)
RemoveTabelaLedgerBuilds == Class(2026041303, <<DropTableIfExists("ledger_builds")>>)

\* What the runner finds in the directory.
Classes ==
  <<TesteMigration1, TesteMigration2, CriaFinancialEvents, MigraRegistrosCreditCards,
    DropaTableBankAccountVelha, CriaNovaTabelaBankAccounts, CriaModuloCartoesCredito,
    AdicionaColunaIdBankAccount, CriaTableLedgerEntries, CriaTabelasModuloCobrancas,
    AlteraTableRevenues, InsertModulosCobrancas, AdicionaEventosFinanceirosLedger,
    AlteraTableFinancialEvents, CriaTabelaTransfer, AlteraEnumFinancialEvents,
    InsereModuloTransferencias, CriaTabelaLedgerSnapshots, CriaTabelaLedgerBuilds,
    CriaTabelaLedgerMonthlyBuilds, RemoveTabelaLedgerBuilds>>

\* discoverMigrationsFromFilesystem sorts by version; validateMigrations
\* refuses a version that is there twice.
Discovered(classes) == SortSeq(classes, LAMBDA a, b : a.version < b.version)
NoVersionTwice(plan) ==
  \A i, j \in DOMAIN plan : plan[i].version = plan[j].version => i = j
=============================================================================
