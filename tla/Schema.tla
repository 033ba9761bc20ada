------------------------------- MODULE Schema -------------------------------
(***************************************************************************)
(* The revisions of the database (migrations/versions): the tables each    *)
(* one creates, in the order of its statements, with the tables they refer *)
(* to and the enumerated types of their columns, and the tables that its   *)
(* downgrade drops, in order.  Columns, indexes and constraints other than *)
(* foreign keys are left out; they come and go with their table.  A column *)
(* that a later revision adds is an object of its own, which refers to its *)
(* table.  A type comes with its table and stays: no downgrade drops one.  *)
(***************************************************************************)
EXTENDS Naturals, Sequences, SequencesExt

Create(table, refs, types) == [table |-> table, refs |-> refs, types |-> types]
AddColumn(table, column) == Create(column, {table}, {})

OrganizationTables ==
  <<Create("organizations", {}, {}),
    Create("permissions", {}, {}),
    Create("branches", {"organizations"}, {}),
    Create("roles", {"organizations"}, {}),
    Create("users", {"organizations"}, {})>>

MembershipTables ==
  <<Create("audit_logs", {"organizations", "users"}, {}),
    Create("counters", {"branches", "organizations"}, {}),
    Create("role_permissions", {"permissions", "roles"}, {}),
    Create("sessions", {"organizations", "users"}, {}),
    Create("user_branches", {"branches", "users"}, {}),
    Create("user_roles", {"branches", "roles", "users"}, {})>>

WarehouseTables ==
  <<Create("warehouses", {"branches", "organizations"}, {"warehouse_type"}),
    Create("refresh_tokens", {"refresh_tokens", "sessions", "users"}, {})>>

CatalogueTables ==
  <<Create("brands", {"organizations"}, {}),
    Create("categories", {"categories", "organizations"}, {"product_category_kind"}),
    Create("units", {"organizations"}, {})>>

ProductTables ==
  <<Create("products", {"brands", "categories", "organizations", "units"}, {})>>

BatchTables ==
  <<Create("batches", {"organizations", "products"}, {}),
    Create("product_units", {"products", "units"}, {}),
    Create("serial_numbers", {"organizations", "products"}, {})>>

StockTables ==
  <<Create("stock_balances", {"batches", "organizations", "products", "warehouses"}, {}),
    Create("stock_movements", {"batches", "branches", "organizations", "products",
            "serial_numbers", "users", "warehouses"}, {"stock_movement_type"})>>

SupplierTables ==
  <<Create("suppliers", {"organizations"}, {}),
    Create("number_sequences", {"branches", "organizations"}, {}),
    Create("purchase_orders", {"branches", "organizations", "suppliers"},
            {"purchase_order_status"})>>

ReceiptTables ==
  <<Create("goods_receipts", {"branches", "organizations", "purchase_orders", "suppliers",
            "warehouses"}, {}),
    Create("purchase_order_items", {"products", "purchase_orders"}, {}),
    Create("purchase_invoices", {"goods_receipts", "organizations", "suppliers"}, {})>>

ReceiptItemTables ==
  <<Create("goods_receipt_items", {"batches", "goods_receipts", "products", "stock_movements"},
            {})>>

CustomerTables ==
  <<Create("customers", {"organizations"}, {"customer_type"}),
    Create("idempotency_keys", {"organizations"}, {})>>

SaleTables ==
  <<Create("payments", {"branches", "customers", "organizations", "users"},
            {"payment_direction", "payment_method"}),
    Create("sales_invoices", {"branches", "customers", "organizations", "users", "warehouses"},
            {"sale_channel", "sales_payment_status"})>>

SaleItemTables ==
  <<Create("payment_allocations", {"payments", "sales_invoices"}, {}),
    Create("sales_invoice_items", {"batches", "products", "sales_invoices"}, {})>>

OrderTables ==
  <<Create("sales_orders", {"branches", "customers", "organizations", "sales_invoices", "users",
            "warehouses"}, {"sales_order_status"}),
    Create("sales_order_items", {"products", "sales_orders"}, {})>>

AccountTables ==
  <<Create("accounts", {"organizations"}, {"account_type"}),
    Create("journal_entries", {"branches", "organizations", "users"}, {}),
    Create("journal_entry_lines", {"accounts", "journal_entries"}, {})>>

WarrantyTables ==
  <<Create("warranties", {"customers", "organizations", "products", "sales_invoices",
            "serial_numbers"}, {})>>

RepairTables ==
  <<Create("repair_jobs", {"branches", "customers", "organizations", "products",
            "serial_numbers", "users", "warehouses", "warranties"}, {"repair_status"})>>

RepairPartTables ==
  <<Create("warranty_claims", {"warranties"}, {"warranty_claim_status"}),
    Create("repair_job_parts", {"products", "repair_jobs", "stock_movements"}, {})>>

DocumentTables ==
  <<Create("documents", {"organizations", "users"}, {}),
    Create("notifications", {"organizations", "users"}, {})>>

CustomerAddress == <<AddColumn("customers", "customers.address")>>

Phase1Drops == <<"refresh_tokens", "warehouses", "user_roles", "user_branches", "sessions",
                 "role_permissions", "counters", "audit_logs", "users", "roles", "branches",
                 "permissions", "organizations">>

Phase2Drops == <<"stock_movements", "stock_balances", "serial_numbers", "product_units",
                 "batches", "products", "units", "categories", "brands">>

Phase3Drops == <<"goods_receipt_items", "purchase_invoices", "purchase_order_items",
                 "goods_receipts", "purchase_orders", "number_sequences", "suppliers">>

Phase4Drops == <<"sales_invoice_items", "payment_allocations", "sales_invoices", "payments",
                 "idempotency_keys", "customers">>

\* Slip: the orders are dropped before their items.
Phase5DropsParentFirst == <<"sales_orders", "sales_order_items">>

Phase5Drops == <<"sales_order_items", "sales_orders">>

Phase6Drops == <<"journal_entry_lines", "journal_entries", "accounts">>

Phase7Drops == <<"repair_job_parts", "warranty_claims", "repair_jobs", "warranties">>

Phase8Drops == <<"notifications", "documents">>

Phase10Drops == <<"customers.address">>

\* The chain of revisions.  The ninth changes rows of roles and no table
\* (module RoleUpgrade); the tenth adds a column.
Creations ==
  <<OrganizationTables \o MembershipTables \o WarehouseTables,
    CatalogueTables \o ProductTables \o BatchTables \o StockTables,
    SupplierTables \o ReceiptTables \o ReceiptItemTables,
    CustomerTables \o SaleTables \o SaleItemTables,
    OrderTables,
    AccountTables,
    WarrantyTables \o RepairTables \o RepairPartTables,
    DocumentTables,
    <<>>,
    CustomerAddress>>

Drops ==
  <<Phase1Drops, Phase2Drops, Phase3Drops, Phase4Drops, Phase5Drops, Phase6Drops, Phase7Drops,
    Phase8Drops, <<>>, Phase10Drops>>

Latest == Len(Creations)

Statements == UNION {ToSet(Creations[n]) : n \in 1 .. Latest}

Tables == {s.table : s \in Statements}
Types == UNION {s.types : s \in Statements}

\* What there is when all revisions up to n have run.
TablesAt(n) == {s.table : s \in UNION {ToSet(Creations[k]) : k \in 1 .. n}}
TypesAt(n) == UNION {s.types : s \in UNION {ToSet(Creations[k]) : k \in 1 .. n}}

RefersTo(table) == UNION {s.refs : s \in {q \in Statements : q.table = table}}

\* Both ways a revision is about the same tables, and about none of another's.
ASSUME SchemaAssumption ==
  /\ Latest \in Nat /\ Len(Drops) = Latest
  /\ \A n \in 1 .. Latest : /\ Creations[n] \in Seq(Statements) /\ Drops[n] \in Seq(Tables)
                           /\ ToSet(Drops[n]) = {s.table : s \in ToSet(Creations[n])}
  /\ \A m, n \in 1 .. Latest : m # n => ToSet(Drops[m]) \cap ToSet(Drops[n]) = {}
  /\ Tables \cap Types = {}
=============================================================================
