------------------------- MODULE OfficeOperations -------------------------
(***************************************************************************)
(* The Office operations are declared three times: as the input schemas    *)
(* the action runtime publishes (packages/action-runtime/src               *)
(* /office-actions.mjs), as the keys the worker thread takes apart         *)
(* (office-worker-thread.mjs), and as the protocol of the desktop          *)
(* program's own worker (views/tools/office/officeWorkerProtocol.ts and    *)
(* officeWorkerOperations.ts).  One request, with its sizes, goes through  *)
(* all the checks of its side.                                             *)
(***************************************************************************)
EXTENDS Naturals, FiniteSets, Sequences

CONSTANT OfficeCases       \* the requests and results that are tried

VARIABLES officeCase, officeVerdict
officeVars == <<officeCase, officeVerdict>>

MiB == 1024 * 1024
MaxBase64Chars == 6000000
MaxBinaryOutput == 8 * MiB
MaxBase64Output == 4 * ((MaxBinaryOutput + 2) \div 3)
MaxInputJson == 8 * MiB
MaxOutputJson == 16 * MiB
MaxTotalBinaryInput == 6 * MiB
MaxOutputText == 4194304
MaxText == 1048576

Keys(all, required) == [all |-> all, required |-> required]
Exactly(keys) == Keys(keys, keys)
Data == Exactly({"dataBase64"})

DocumentKeys(content) ==
    [op \in {"compose", "extract", "inspect", "to-markdown", "from-markdown"} |->
        IF op = "compose" THEN Keys({"title", content}, {content})
        ELSE IF op = "from-markdown" THEN Keys({"markdown", "title"}, {"markdown"}) ELSE Data]
DocxKeys == DocumentKeys("blocks")
PptxKeys == DocumentKeys("slides")

(* to-markdown and from-markdown depend on a format: one entry for each.    *)
SpreadsheetKeys ==
    [op \in {"compose", "extract", "csv-parse", "csv-stringify", "csv-to-xlsx", "xlsx-to-csv",
             "inspect-xlsx", "inspect-csv", "to-markdown", "to-markdown xlsx", "to-markdown csv",
             "from-markdown", "from-markdown xlsx", "from-markdown csv"} |->
        CASE op = "compose" -> Exactly({"sheets"})
          [] op \in {"extract", "inspect-xlsx"} -> Data
          [] op \in {"csv-parse", "inspect-csv"} -> Keys({"text", "delimiter"}, {"text"})
          [] op = "csv-stringify" -> Keys({"rows", "delimiter", "escapeFormulas"}, {"rows"})
          [] op = "csv-to-xlsx" -> Keys({"text", "delimiter", "sheetName"}, {"text"})
          [] op = "xlsx-to-csv" -> Keys({"dataBase64", "sheetIndex", "delimiter", "escapeFormulas"},
                                        {"dataBase64"})
          [] op = "to-markdown xlsx" -> Keys({"sourceFormat", "dataBase64", "sheetIndex"},
                                             {"sourceFormat", "dataBase64"})
          [] op = "to-markdown csv" -> Keys({"sourceFormat", "text", "delimiter"},
                                            {"sourceFormat", "text"})
          [] op = "from-markdown xlsx" -> Keys({"outputFormat", "markdown", "sheetName"},
                                               {"outputFormat", "markdown"})
          [] op = "from-markdown csv" -> Keys({"outputFormat", "markdown", "delimiter"},
                                              {"outputFormat", "markdown"})
          [] OTHER -> Keys({}, {"sourceFormat", "outputFormat"})]

PdfKeys ==
    [op \in {"merge", "split", "reorder", "rotate", "sanitize", "inspect", "extract-pages",
             "delete-pages"} |->
        CASE op = "merge" -> Exactly({"documentsBase64"})
          [] op = "split" -> Keys({"dataBase64", "pageGroups"}, {"dataBase64"})
          [] op = "reorder" -> Exactly({"dataBase64", "order"})
          [] op = "rotate" -> Exactly({"dataBase64", "rotations"})
          [] op \in {"extract-pages", "delete-pages"} -> Exactly({"dataBase64", "pages"})
          [] OTHER -> Data]

MarkdownKeys ==
    [op \in {"parse", "to-docx", "to-pptx"} |->
        IF op = "parse" THEN Exactly({"markdown"}) ELSE Keys({"markdown", "title"}, {"markdown"})]

ThreadKeys == [docx |-> DocxKeys, pptx |-> PptxKeys, spreadsheet |-> SpreadsheetKeys,
               pdf |-> PdfKeys, markdown |-> MarkdownKeys]

(* The published schemas: one flat object for all the operations of an      *)
(* action, closed against other properties.                                 *)
Schema ==
    [docx |-> [operations |-> DOMAIN DocxKeys,
               properties |-> {"dataBase64", "title", "blocks", "markdown"}, required |-> {}],
     pptx |-> [operations |-> DOMAIN PptxKeys,
               properties |-> {"dataBase64", "title", "slides", "markdown"}, required |-> {}],
     spreadsheet |-> [operations |-> {"compose", "extract", "csv-parse", "csv-stringify", "csv-to-xlsx",
                                      "xlsx-to-csv", "inspect-xlsx", "inspect-csv", "to-markdown",
                                      "from-markdown"},
                      properties |-> {"dataBase64", "sheets", "rows", "text", "markdown", "sourceFormat",
                                      "outputFormat", "delimiter", "sheetName", "sheetIndex",
                                      "escapeFormulas"}, required |-> {}],
     pdf |-> [operations |-> {"merge", "split", "reorder", "rotate", "sanitize", "inspect",
                              "extract-pages", "delete-pages"},
              properties |-> {"dataBase64", "documentsBase64", "pageGroups", "pages", "order",
                              "rotations"}, required |-> {}],
     markdown |-> [operations |-> {"parse", "to-docx", "to-pptx"},
                   properties |-> {"markdown", "title"}, required |-> {"markdown"}]]

SchemaAccepts(r) ==
    /\ r.action \in DOMAIN Schema /\ r.op \in Schema[r.action].operations
    /\ r.keys \subseteq Schema[r.action].properties /\ Schema[r.action].required \subseteq r.keys
    /\ r.base64 <= MaxBase64Chars

(* exact(), for the entry that the operation and its format select.         *)
Entry(r) == IF r.format = "none" THEN r.op
            ELSE IF r.format = "xlsx" THEN r.op \o " xlsx" ELSE r.op \o " csv"

(* Faulty variant: unknown keys are let through.                            *)
KeysSubset(r) ==
    /\ r.action \in DOMAIN ThreadKeys /\ Entry(r) \in DOMAIN ThreadKeys[r.action]
    /\ ThreadKeys[r.action][Entry(r)].required \subseteq r.keys

KeysAccepted(r) ==
    /\ r.action \in DOMAIN ThreadKeys /\ Entry(r) \in DOMAIN ThreadKeys[r.action]
    /\ LET entry == ThreadKeys[r.action][Entry(r)] IN
           r.keys \subseteq entry.all /\ entry.required \subseteq r.keys

ThreadInput(r) ==
    IF r.json > MaxInputJson THEN "INPUT_TOO_LARGE"
    ELSE IF ~KeysAccepted(r) THEN "INPUT_INVALID"
    ELSE IF r.base64 > MaxBase64Chars THEN "INPUT_TOO_LARGE"
    ELSE IF r.base64 % 4 # 0 THEN "INPUT_INVALID"
    ELSE IF r.total > MaxTotalBinaryInput THEN "INPUT_TOO_LARGE"
    ELSE "accepted"

(* An OfficeCoreError is mapped to a stable code by its name.               *)
StableCode(failure) ==
    CASE failure = "OUTPUT_TOO_LARGE" -> "OUTPUT_TOO_LARGE"
      [] failure \in {"TOO_LARGE", "TOO_MANY", "RATIO_EXCEEDED"} -> "INPUT_TOO_LARGE"
      [] failure = "other office error" -> "INPUT_INVALID"
      [] OTHER -> "ACTION_FAILED"

(* A result of `bytes` bytes, encoded, or of `text` characters.             *)
Base64Of(bytes) == 4 * ((bytes + 2) \div 3)
ThreadOutput(r) ==
    IF r.failure # "none" THEN StableCode(r.failure)
    ELSE IF r.bytes > MaxBinaryOutput \/ r.text > MaxOutputText THEN "OUTPUT_TOO_LARGE"
    ELSE IF Base64Of(r.bytes) + r.text * r.escape > MaxOutputJson THEN "OUTPUT_TOO_LARGE"
    ELSE "output"

ExecutorOutput(r) ==
    IF Base64Of(r.bytes) + r.text * r.escape > MaxOutputJson THEN "OUTPUT_TOO_LARGE"
    ELSE IF Base64Of(r.bytes) > MaxBase64Output \/ r.text > MaxOutputText THEN "OUTPUT_INVALID"
    ELSE "success"

----------------------------------------------------------------------------
(* The desktop program's worker: the kind of result each operation makes,   *)
(* and the kind the client takes for it.                                    *)
Composes == {"docx.compose", "pptx.compose", "spreadsheet.compose"}
Reads == {"docx.extract", "docx.inspect", "pptx.extract", "pptx.inspect", "spreadsheet.extract",
          "spreadsheet.inspectXlsx", "pdf.inspect"}
Renders == {"docx.markdown", "pptx.markdown", "spreadsheet.xlsxToMarkdown"}
Rewrites == {"pdf.reorder", "pdf.rotate", "pdf.extractPages", "pdf.deletePages"}
Writes == {"markdown.docx", "markdown.pptx"}

DesktopOperations ==
    Composes \union Reads \union Renders \union Rewrites \union Writes
    \union {"spreadsheet.parseCsv", "spreadsheet.stringifyCsv", "spreadsheet.inspectCsv",
            "spreadsheet.csvToMarkdown", "spreadsheet.markdownToXlsx", "spreadsheet.markdownToCsv",
            "markdown.parse", "pdf.merge", "pdf.split", "pdf.sanitize"}

MadeKind(op) ==
    CASE op \in Reads \union {"spreadsheet.parseCsv", "spreadsheet.inspectCsv", "markdown.parse"} -> "json"
      [] op \in Renders \union {"spreadsheet.csvToMarkdown"} -> "markdown"
      [] op \in {"spreadsheet.stringifyCsv", "spreadsheet.markdownToCsv"} -> "text"
      [] op = "pdf.split" -> "binaries"
      [] OTHER -> "binary"

TakenKind(op) ==
    CASE op \in Composes \union Writes \union Rewrites
              \union {"spreadsheet.markdownToXlsx", "pdf.merge", "pdf.sanitize"} -> "binary"
      [] op = "pdf.split" -> "binaries"
      [] op \in {"spreadsheet.stringifyCsv", "spreadsheet.markdownToCsv"} -> "text"
      [] op \in {"docx.markdown", "pptx.markdown", "spreadsheet.xlsxToMarkdown",
                 "spreadsheet.csvToMarkdown"} -> "markdown"
      [] OTHER -> "json"

(* isOfficeWorkerRequest                                                    *)
DesktopKeys(op) ==
    CASE op \in Composes \union {"spreadsheet.stringifyCsv"} -> {"json"}
      [] op \in {"spreadsheet.parseCsv", "spreadsheet.inspectCsv", "spreadsheet.csvToMarkdown"} -> {"text"}
      [] op \in {"spreadsheet.markdownToCsv", "markdown.parse"} -> {"markdown"}
      [] op = "spreadsheet.markdownToXlsx" -> {"markdown", "sheetName"}
      [] op \in Writes -> {"markdown", "title"}
      [] op = "pdf.merge" -> {"inputs"}
      [] op \in Rewrites \union {"pdf.split"} -> {"input", "optionsJson"}
      [] op \in Reads \union Renders \union {"pdf.sanitize"} -> {"input"}

(* The failures of operations whose JSON text does not parse, or lacks its  *)
(* list.                                                                    *)
DesktopFailure(op, options) ==
    IF options = "not json" THEN "INVALID_JSON"
    ELSE IF options = "no list"
         THEN CASE op = "spreadsheet.stringifyCsv" -> "INVALID_CSV_ROWS"
                [] op = "pdf.reorder" -> "MISSING_PDF_ORDER"
                [] op = "pdf.rotate" -> "MISSING_PDF_ROTATIONS"
                [] op \in {"pdf.extractPages", "pdf.deletePages"} -> "MISSING_PDF_PAGES"
                [] OTHER -> "none"
         ELSE "none"

DesktopVerdict(r) ==
    IF r.op \notin DesktopOperations \/ r.keys # DesktopKeys(r.op) THEN "INVALID_REQUEST"
    ELSE IF {"json", "optionsJson"} \intersect r.keys # {} /\ DesktopFailure(r.op, r.options) # "none"
         THEN DesktopFailure(r.op, r.options)
    ELSE IF MadeKind(r.op) = TakenKind(r.op) THEN "success" ELSE "workerInternal"

----------------------------------------------------------------------------
OfficeInit == officeCase \in OfficeCases /\ officeVerdict = "unchecked"

RunOfficeCase ==
    /\ officeVerdict = "unchecked"
    /\ officeVerdict' =
           IF officeCase.side = "desktop" THEN DesktopVerdict(officeCase)
           ELSE IF ~SchemaAccepts(officeCase) THEN "schema refused"
           ELSE IF ThreadInput(officeCase) # "accepted" THEN ThreadInput(officeCase)
           ELSE IF ThreadOutput(officeCase) # "output" THEN ThreadOutput(officeCase)
           ELSE ExecutorOutput(officeCase)
    /\ UNCHANGED officeCase

(* The three declarations agree.  What the thread would take apart passes   *)
(* the published schema, with every format it may choose; what the thread   *)
(* sends back, within its own limits, passes the limits and the schema of   *)
(* the executor, so OUTPUT_INVALID never answers a good request; and a      *)
(* desktop operation that succeeds makes the kind of result its client      *)
(* takes, so workerInternal never does.                                     *)
OfficeTablesAgree ==
    /\ officeVerdict \notin {"OUTPUT_INVALID", "workerInternal"}
    /\ officeVerdict = "schema refused" => ThreadInput(officeCase) # "accepted"
    /\ officeVerdict = "success" /\ officeCase.side = "action" =>
           Base64Of(officeCase.bytes) <= MaxBase64Output
=============================================================================
