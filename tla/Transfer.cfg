CONSTANTS
  acme = acme  globex = globex  site = site  ann = ann  mail = mail  MAIL = MAIL
  accent = accent  ACCENT = ACCENT  fair = fair  gala = gala  mixed = mixed
  mixedLower = mixedLower  chat = chat
  a1 = a1  a2 = a2  gated = gated  b1 = b1  c1 = c1  c2 = c2  d1 = d1  o1 = o1  o2 = o2
  n1 = n1  n2 = n2  preview = preview  export = export  create = create  updateCompany = updateCompany
  deleteCompany = deleteCompany  unlink = unlink  updatePerson = updatePerson
  updateLead = updateLead  archive = archive  restore = restore  delete = delete
  deleteTag = deleteTag  nobody = nobody  blank = blank
  Text = {acme, globex, site, ann, mail, MAIL, accent, ACCENT, fair, gala, mixed,
          mixedLower, chat}
  None = None
  Job = {a1, a2, gated, b1, c1, c2, d1, o1, o2, n1, n2, preview, export, create, updateCompany,
         deleteCompany, unlink, updatePerson, updateLead, archive, restore, delete, deleteTag,
         nobody, blank}
  reqOf <- MCReq
  Lower <- MCLower
  AsciiLower <- MCAsciiLower
  Mixes <- MCMixes
  PageSize = 2
  Workspaces <- MCWorkspaces
  Orders <- MCOrders
  FirstOf <- MCFirstOf
SPECIFICATION Spec
INVARIANTS Inv NothingTwice RowsLandOnTheirRecords PreviewTells ExportComplete
CHECK_DEADLOCK FALSE
